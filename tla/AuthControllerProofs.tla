------------------------ MODULE AuthControllerProofs ------------------------
(***************************************************************************)
(* Both authentication workflows with any readers and cards: passwords are *)
(* gone before the server hears of the card, and a success is the server's *)
(* verdict on a card that has proven its chip; as long as nothing went     *)
(* wrong, EAC1, EAC2 and the server's commands reach a card whose channel  *)
(* has seen the steps before them.                                         *)
(***************************************************************************)
EXTENDS AuthController, PaceProofs

-----------------------------------------------------------------------------
(* Where passwords may be: from the entry up to the one state that clears  *)
(* them on the way to the card's first command.                            *)

Remembering ==
  (PaceStates \ {"DestroyPaceAfterPuk"}) \cup {"PaceChannelEstablished", "ClearPacePasswords"}

PasswordsGone == st \notin Remembering => pw = NoPasswords

LEMMA PaceForgets ==
  ASSUME PasswordsGone, RunPace \/ DeliverToPace
  PROVE  PasswordsGone'
<1> USE DEF PasswordsGone, Remembering, PaceStates, Runs, Waits, Goto, Wait, contextVars,
            controlVars, paceVars, ResetPacePasswords, Delivers
<1>1. CASE RunPace
  BY <1>1
     DEF RunPace, RunMaintainCardConnection, MaintainAborts, MaintainAfterWrongPassword,
         MaintainAfterCardGone, MaintainProceeds, RunClearPacePasswordsOnError, RunSelectReader,
         SelectReaderNow, RunConnectCard, FinishConnectCard, RunUpdateRetryCounter, RunUpdate,
         RunVerifyRetryCounter, RunPreparePace, Demand, RunEstablishPaceChannel,
         EstablishWithoutPassword, EstablishWithPassword, RunUnfortunateCardPosition,
         RunClearPacePasswordsBeforeDestroy, RunDestroyPaceAfterPuk, RunDestroy
<1>2. CASE DeliverPace
  BY <1>2 DEF DeliverPace, DeliversPace, PaceDone, PaceCardGone, PaceFailed
<1>3. CASE DeliverToPace /\ ~DeliverPace
  BY <1>3
     DEF DeliverToPace, DeliverCall, DeliverCreate, DeliverEvent, SelectReaderNow,
         DeliverUpdateRetryCounter, DeliverUpdate, DeliverDestroyPaceAfterPuk, DeliverDestroy,
         DeliverStale
<1> QED BY <1>1, <1>2, <1>3

(* Where a cancelled or interrupted state goes on. *)
LEMMA AbortLeads ==
  ASSUME st \in CancellableStates
  PROVE  /\ AbortTarget(st) \notin Remembering => st \notin Remembering
         /\ AbortTarget(st) \notin CardStates \cup {"DidAuthenticateEac1"}
BY DEF CancellableStates, AbortTarget, PaceAbortTarget, ResponseState, Remembering, PaceStates,
       SendStates, CardStates

-----------------------------------------------------------------------------
(* The verdict. It comes in the message that ends the dialogue; the server *)
(* has then seen the token of the chip, and whatever goes wrong before     *)
(* leaves an error behind.                                                 *)

Ending ==
  { "UpdateRetryCounterFinal", "CleanUpReaderManager", "CheckError", "CheckRefreshAddress",
    "ActivateStoreFeedbackDialog", "WriteHistory", "GetSelfAuthenticationData", "ShowSelfInfo",
    "SendWhitelistSurvey", "RedirectBrowser", "FinalState", "Stopped" }

Proven ==
  { "SendDIDAuthenticateResponseEAC2", "Transmit", "SendTransmitResponse",
    "SendDisconnectResponse", "StartPaosResponse" } \cup Ending

Judged ==
  /\ verdict # "none" => st \in Ending \cup {"StartPaosResponse"}
  /\ verdict = "ok" => server = "authentic"
  /\ server = "authentic" => token /\ st \in Proven
  /\ st \in Ending /\ status = "NoError" => verdict = "ok"
  /\ answer = "success" \/ history => verdict = "ok"

AuthInv == PasswordsGone /\ Judged

LEMMA PaceJudged ==
  ASSUME AuthInv, Pace
  PROVE  AuthInv'
<1>1. PasswordsGone'
  BY PaceForgets DEF AuthInv, Pace
<1>2. UNCHANGED <<verdict, server, token, answer, history>>
  BY DEF Pace, authVars, webVars, paosVars
<1>3. CASE st' = st /\ status' = status
  BY <1>1, <1>2, <1>3 DEF AuthInv, Judged
<1>4. CASE st \in PaceStates /\ st' \in PaceStates \cup PaceSignals
  BY <1>1, <1>2, <1>4 DEF AuthInv, Judged, Ending, Proven, PaceStates, PaceSignals
<1> QED BY <1>3, <1>4, PaceStays DEF Pace

(* The steps that neither meet the card nor end anything.                  *)
LEMMA DialogueJudged ==
  ASSUME AuthInv, Start \/ RunStartPaosResponse \/ Prepare \/ LeavePace \/ RunClearPacePasswords
  PROVE  AuthInv'
<1> USE DEF AuthInv, Judged, PasswordsGone, Remembering, PaceStates, Ending, Proven, Runs, Goto,
            Wait, Leads, Checks, Requests, UpdateStatus, UnchangedWeb, UnchangedPaos, webVars,
            paosVars, contextVars, ResetPacePasswords
<1>1. CASE Start
  BY <1>1 DEF Start, RunProcessing, RunParseTcTokenUrl, RunLoadTcTokenUrl, RunGetTcToken, RunStartPaos
<1>2. CASE RunStartPaosResponse
  BY <1>2 DEF RunStartPaosResponse
<1>3. CASE Prepare
  BY <1>3
     DEF Prepare, RunInitializeFramework, RunDidList, RunExtractCvcsFromEac1InputType,
         RunPreVerification, RunCertificateDescriptionCheck, RunCheckCertificates,
         RunEACAdditionalInputType, RunProcessCertificatesFromEac2
<1>4. CASE LeavePace
  BY <1>4 DEF LeavePace
<1>5. CASE RunClearPacePasswords
  BY <1>5 DEF RunClearPacePasswords
<1> QED BY <1>1, <1>2, <1>3, <1>4, <1>5

LEMMA MessagesJudged ==
  ASSUME AuthInv, NEW s \in SendStates, SendMessage(s) \/ ReceiveMessage(s)
  PROVE  AuthInv'
<1> USE DEF AuthInv, Judged, PasswordsGone, Remembering, PaceStates, Ending, Proven, SendStates,
            Runs, Waits, Goto, Wait, Requests, Replies, Fails, UpdateStatus, UnchangedWeb, webVars, contextVars
<1>1. CASE SendMessage(s)
  BY <1>1 DEF SendMessage, ServerLearns
<1>2. CASE ReceiveMessage(s)
  <2>1. CASE \E type \in DOMAIN Accepts[s] :
               /\ MaySend(type)
               /\ Replies(s, Accepts[s][type])
               /\ IF type = "STARTPAOS_RESPONSE"
                  THEN verdict' \in {"error"} \cup (IF server = "authentic" THEN {"ok"} ELSE {})
                  ELSE verdict' = verdict
    BY <1>2, <2>1 DEF ReceiveMessage, Accepts, MaySend
  <2>2. CASE Fails(s, IF s \in {"SendStartPaos", "SendInitializeFrameworkResponse",
                                "SendDIDListResponse"}
                      THEN "CleanUpReaderManager" ELSE "UpdateRetryCounterFinal") /\ verdict' = verdict
    BY <1>2, <2>2 DEF ReceiveMessage
  <2> QED BY <1>2, <2>1, <2>2 DEF ReceiveMessage
<1> QED BY <1>1, <1>2

(* The commands and their answers. *)
LEMMA CardJudged ==
  ASSUME AuthInv, NEW s \in CardStates, CallCard(s) \/ CardAnswers(s)
  PROVE  AuthInv'
BY DEF AuthInv, Judged, PasswordsGone, Remembering, PaceStates, Ending, Proven, CardStates, Runs,
       Waits, Goto, Wait, Delivers, CallCard, CardAnswers, ResponseState, UpdateStatus, UnchangedWeb, UnchangedPaos, webVars,
       paosVars, contextVars

(* A cancelled state, and one whose card has gone, records an error before *)
(* it leads on.                                                            *)
LEMMA AbortJudged ==
  ASSUME AuthInv, Cancel \/ CancelKilled \/ DeliverCardRemoved
  PROVE  AuthInv'
<1>1. /\ st \in CancellableStates /\ st' = AbortTarget(st) /\ pw' = pw /\ status' # "NoError"
      /\ UNCHANGED <<verdict, server, token, answer, history>>
  BY DEF Cancel, CancelKilled, UserCancels, KillCancels, OnUserCancelled, DeliverCardRemoved,
         GivesUp, ConnectedOnCardRemoved, CancellableStates, UpdateStatus, Goto, authVars, webVars,
         paosVars, UnchangedWeb, UnchangedPaos
<1>2. st \in Proven => st' \in Proven
  BY <1>1 DEF CancellableStates, AbortTarget, PaceAbortTarget, ResponseState, Proven, Ending,
              SendStates, CardStates
<1>3. st \in Ending => st' \in Ending
  BY <1>1 DEF CancellableStates, AbortTarget, PaceAbortTarget, Ending, SendStates, CardStates
<1>4. st # "StartPaosResponse"
  BY <1>1 DEF CancellableStates, SendStates, CardStates
<1> QED BY <1>1, <1>2, <1>3, <1>4, AbortLeads DEF AuthInv, Judged, PasswordsGone

(* An entry in the history is new only without an error. *)
LEMMA HistoryWritten ==
  ASSUME RunWriteHistory
  PROVE  /\ history' = history \/ (history' = TRUE /\ status = "NoError")
         /\ \E s \in {"SendWhitelistSurvey", "RedirectBrowser", "GetSelfAuthenticationData"} :
              Leads("WriteHistory", s)
         /\ UNCHANGED <<kind, tcToken, tcTokenNotFound, refreshUrl, answer>> /\ UnchangedPaos
<1>1. history' = history \/ (history' = TRUE /\ status = "NoError")
  BY DEF RunWriteHistory
<1>2. \E s \in {"SendWhitelistSurvey", "RedirectBrowser", "GetSelfAuthenticationData"} :
        Leads("WriteHistory", s)
  BY DEF RunWriteHistory
<1>3. UNCHANGED <<kind, tcToken, tcTokenNotFound, refreshUrl, answer>> /\ UnchangedPaos
  BY DEF RunWriteHistory
<1> QED BY <1>1, <1>2, <1>3

LEMMA EndingJudged ==
  ASSUME AuthInv,
         \/ RunUpdateRetryCounterFinal \/ RunCleanUpReaderManager \/ RunCheckError
         \/ RunCheckRefreshAddress \/ RunActivateStoreFeedbackDialog \/ RunWriteHistory
         \/ RunSelfAuthenticationEnd \/ RunRedirectBrowser \/ DeliverUpdateRetryCounterFinal
         \/ ReceiveTcToken \/ ReceiveRefreshAddress \/ ReceiveSelfAuthenticationData
  PROVE  AuthInv'
<1> USE DEF AuthInv, Judged, PasswordsGone, Remembering, PaceStates, Ending, Proven, Runs, Waits,
            Goto, Wait, Leads, Requests, Replies, Fails, UpdateStatus, UnchangedWeb, UnchangedPaos,
            webVars, paosVars, contextVars
<1>1. CASE RunUpdateRetryCounterFinal \/ DeliverUpdateRetryCounterFinal
  BY <1>1 DEF RunUpdateRetryCounterFinal, RunUpdate, DeliverUpdateRetryCounterFinal, DeliverUpdate, Delivers
<1>2. CASE RunCleanUpReaderManager \/ RunCheckError
  BY <1>2 DEF RunCleanUpReaderManager, CleanUpReaderManager, RunCheckError
<1>3. CASE RunCheckRefreshAddress \/ RunActivateStoreFeedbackDialog
  BY <1>3 DEF RunCheckRefreshAddress, RunActivateStoreFeedbackDialog
<1>4. CASE RunWriteHistory
  <2>1. /\ st' \in {"SendWhitelistSurvey", "RedirectBrowser", "GetSelfAuthenticationData"}
        /\ st = "WriteHistory" /\ UNCHANGED <<answer, pw, status, verdict, server, token>>
    BY <1>4, HistoryWritten
  <2>2. CASE history' = history
    BY <2>1, <2>2
  <2>3. CASE status = "NoError"
    BY <2>1, <2>3
  <2> QED BY <1>4, <2>2, <2>3, HistoryWritten
<1>5. CASE RunSelfAuthenticationEnd
  BY <1>5 DEF RunSelfAuthenticationEnd, RunGetSelfAuthenticationData, RunShowSelfInfo, RunSendWhitelistSurvey
<1>6. CASE RunRedirectBrowser
  BY <1>6 DEF RunRedirectBrowser, AnswerToCaller
<1>7. CASE ReceiveTcToken
  BY <1>7 DEF ReceiveTcToken
<1>8. CASE ReceiveRefreshAddress
  BY <1>8 DEF ReceiveRefreshAddress, AbortTarget, SendStates, CardStates
<1>9. CASE ReceiveSelfAuthenticationData
  BY <1>9 DEF ReceiveSelfAuthenticationData
<1> QED BY <1>1, <1>2, <1>3, <1>4, <1>5, <1>6, <1>7, <1>8, <1>9

LEMMA UserJudged ==
  ASSUME AuthInv, User
  PROVE  AuthInv'
<1> USE DEF AuthInv, Judged, PasswordsGone, Remembering, PaceStates, Ending, Proven, Runs, Goto,
            Leads, UnchangedWeb, UnchangedPaos, authVars, webVars, paosVars, contextVars
<1>1. CASE ApproveAccessRights
  BY <1>1 DEF ApproveAccessRights
<1>2. CASE EnterPacePassword /\ UNCHANGED authVars
  BY <1>2 DEF EnterPacePassword
<1>3. CASE RunFinalState /\ UNCHANGED authVars
  BY <1>3 DEF RunFinalState
<1>4. CASE RetryCardSelection /\ UNCHANGED authVars
  BY <1>4 DEF RetryCardSelection
<1>5. CASE Kill /\ UNCHANGED authVars
  BY <1>5 DEF Kill
<1>6. CASE Cancel
  BY <1>6, AbortJudged
<1> QED BY <1>1, <1>2, <1>3, <1>4, <1>5, <1>6 DEF User

LEMMA NextJudged == AuthInv /\ [Next]_allVars => AuthInv'
<1> SUFFICES ASSUME AuthInv, [Next]_allVars PROVE AuthInv'
  OBVIOUS
<1>1. CASE Pace
  BY <1>1, PaceJudged
<1>2. CASE RunAuth
  BY <1>2, DialogueJudged, MessagesJudged, CardJudged, AbortJudged, EndingJudged DEF RunAuth, Talk
<1>3. CASE DeliverToAuth
  BY <1>3, CardJudged, AbortJudged, EndingJudged DEF DeliverToAuth
<1>4. CASE Network
  BY <1>4, MessagesJudged, EndingJudged DEF Network
<1>5. CASE User
  BY <1>5, UserJudged
<1>6. CASE Executing \/ Environment \/ Terminated \/ UNCHANGED allVars
  <2>1. UNCHANGED <<paceVars, webVars, paosVars>>
    BY <1>6 DEF Executing, Environment, Terminated, allVars, authVars
  <2> QED BY <2>1 DEF AuthInv, Judged, PasswordsGone, paceVars, contextVars, controlVars, webVars, paosVars
<1> QED BY <1>1, <1>2, <1>3, <1>4, <1>5, <1>6 DEF Next, MainThread

LEMMA InitJudged == Init => AuthInv
BY DEF Init, ContextInit, AuthInv, Judged, PasswordsGone, NoPasswords, Ending, Proven

(* The inductive invariant of both authentication workflows.               *)
THEOREM Invariant == Spec => []AuthInv
BY InitJudged, NextJudged, PTL DEF Spec

(* StateClearPacePasswords stands between the last use of a password and   *)
(* the card's first command, and every other way to the server avoids the  *)
(* states that remember one: what StateGenericSendReceive::run and         *)
(* StateDidAuthenticateEac1::run assert.                                   *)
THEOREM NoPasswordAtServer == Spec => []PasswordsCleared
<1>1. AuthInv => PasswordsCleared
  BY DEF AuthInv, PasswordsGone, Remembering, PaceStates, PasswordsCleared, SendStates
<1> QED BY <1>1, Invariant, PTL

(* The caller, the user and the history hear of a success only if the      *)
(* server has praised a card that proved its chip.                         *)
THEOREM OnlyRealSuccess == Spec => []SuccessIsReal
<1>1. AuthInv => SuccessIsReal
  BY DEF AuthInv, Judged, Ending, SuccessIsReal
<1> QED BY <1>1, Invariant, PTL
-----------------------------------------------------------------------------
(* Types. The steps of the composite state and of the reader thread keep   *)
(* theirs in any workflow (PaceProofs); what is left is the dialogue.      *)

Statuses == {"NoError", "Cancelled", "Killed", "Error", "CardRemoved", "NoPermission"}

LEMMA ChecksType ==
  ASSUME PaceTypeOK, NEW s, NEW onContinue, NEW onAbort, Checks(s, onContinue, onAbort)
  PROVE  PaceTypeOK'
<1>1. CardTypeOK /\ ModeTypeOK /\ DataTypeOK
  BY TypeParts
<1>2. CardTypeOK'
  BY <1>1, UnchangedReaderType DEF Checks
<1>3. ModeTypeOK'
  BY <1>1, StepControl DEF Checks
<1>4. DataTypeOK'
  BY <1>1 DEF Checks, UpdateStatus, DataTypeOK
<1> QED BY <1>2, <1>3, <1>4, TypePartsNext

LEMMA RequestsType ==
  ASSUME PaceTypeOK, NEW s, Requests(s)
  PROVE  PaceTypeOK'
<1>1. CardTypeOK /\ ModeTypeOK /\ DataTypeOK
  BY TypeParts
<1>2. CardTypeOK'
  BY <1>1, UnchangedReaderType DEF Requests
<1>3. ModeTypeOK'
  BY <1>1, StepControl DEF Requests
<1>4. DataTypeOK'
  BY <1>1, UnchangedData DEF Requests
<1> QED BY <1>2, <1>3, <1>4, TypePartsNext

LEMMA RepliesType ==
  ASSUME PaceTypeOK, NEW s, NEW next, Replies(s, next) \/ Fails(s, next)
  PROVE  PaceTypeOK'
<1>1. CardTypeOK /\ ModeTypeOK /\ DataTypeOK
  BY TypeParts
<1>2. CardTypeOK'
  BY <1>1, UnchangedReaderType DEF Replies, Fails
<1>3. ModeTypeOK'
  BY <1>1, StepControl DEF Replies, Fails
<1>4. DataTypeOK'
  BY <1>1 DEF Replies, Fails, UpdateStatus, DataTypeOK
<1> QED BY <1>2, <1>3, <1>4, TypePartsNext

(* A state that only leads on, with or without an error.                   *)
LEMMA RunsOnType ==
  ASSUME PaceTypeOK, RunStartPaosResponse \/ RunRedirectBrowser
  PROVE  PaceTypeOK'
<1>1. CardTypeOK /\ ModeTypeOK /\ DataTypeOK
  BY TypeParts
<1>2. CardTypeOK'
  BY <1>1, UnchangedReaderType DEF RunStartPaosResponse, RunRedirectBrowser
<1>3. ModeTypeOK'
  BY <1>1, StepControl DEF RunStartPaosResponse, RunRedirectBrowser
<1>4. DataTypeOK'
  BY <1>1 DEF RunStartPaosResponse, RunRedirectBrowser, UpdateStatus, DataTypeOK
<1> QED BY <1>2, <1>3, <1>4, TypePartsNext

LEMMA RunClearPacePasswordsType ==
  ASSUME PaceTypeOK, RunClearPacePasswords
  PROVE  PaceTypeOK'
<1>1. CardTypeOK /\ ModeTypeOK /\ DataTypeOK
  BY TypeParts
<1>2. CardTypeOK'
  BY <1>1, UnchangedReaderType DEF RunClearPacePasswords
<1>3. ModeTypeOK'
  BY <1>1, StepControl DEF RunClearPacePasswords
<1>4. DataTypeOK'
  BY <1>1, ResetType DEF RunClearPacePasswords, DataTypeOK
<1> QED BY <1>2, <1>3, <1>4, TypePartsNext

LEMMA CallCardType ==
  ASSUME PaceTypeOK, NEW s \in CardStates, CallCard(s)
  PROVE  PaceTypeOK'
<1>1. CardTypeOK /\ ModeTypeOK /\ DataTypeOK
  BY TypeParts
<1>2. CardTypeOK'
  <2>1. OpOf[s] \in CommandOps /\ "UNKNOWN" \in PaceIds
    BY DEF CardStates, OpOf, CommandOps, PaceIds
  <2> QED BY <1>1, <2>1, PostType DEF CallCard
<1>3. ModeTypeOK'
  BY <1>1, StepControl DEF CallCard
<1>4. DataTypeOK'
  BY <1>1, UnchangedData DEF CallCard
<1> QED BY <1>2, <1>3, <1>4, TypePartsNext

(* Whatever the card answers, what is recorded is a status.                *)
LEMMA CardAnswersType ==
  ASSUME PaceTypeOK, NEW s \in CardStates, CardAnswers(s)
  PROVE  PaceTypeOK'
<1>1. CardTypeOK /\ ModeTypeOK /\ DataTypeOK
  BY TypeParts
<1>2. CardTypeOK'
  <2>1. Tail(msgs) \in Seq(Messages)
    BY <1>1, FirstMessage DEF CardAnswers, Delivers
  <2> QED BY <1>1, <2>1 DEF CardAnswers, CardTypeOK, Messages, worldVars, chipVars
<1>3. ModeTypeOK'
  BY <1>1, StepControl DEF CardAnswers
<1>4. DataTypeOK'
  <2>1. StatusOfCommand(s, Head(msgs).code) \in Statuses
    BY DEF StatusOfCommand, StatusOf, Statuses
  <2>2. status' \in Statuses
    BY <1>1, <2>1 DEF CardAnswers, UpdateStatus, DataTypeOK, Statuses
  <2> QED BY <1>1, <2>2 DEF CardAnswers, DataTypeOK, Statuses
<1> QED BY <1>2, <1>3, <1>4, TypePartsNext

LEMMA DeliverCardRemovedType ==
  ASSUME PaceTypeOK, DeliverCardRemoved
  PROVE  PaceTypeOK'
<1>1. CardTypeOK /\ ModeTypeOK /\ DataTypeOK
  BY TypeParts
<1>2. CardTypeOK'
  <2>1. Head(msgs).rc \in RetryCounters /\ Tail(msgs) \in Seq(Messages)
    BY <1>1, FirstMessage DEF DeliverCardRemoved, GivesUp
  <2>2. cmds' \in Seq(Command) /\ msgs' \in Seq(Messages)
    BY <1>1, <2>1, DisownType DEF DeliverCardRemoved, CardTypeOK
  <2>3. conn' \in Connection \cup {NoConn}
    BY <1>1, <2>1 DEF DeliverCardRemoved, CardTypeOK, Connection
  <2> QED BY <1>1, <2>2, <2>3 DEF DeliverCardRemoved, CardTypeOK, Messages, worldVars, chipVars
<1>3. ModeTypeOK'
  BY <1>1, StepControl DEF DeliverCardRemoved
<1>4. DataTypeOK'
  BY <1>1 DEF DeliverCardRemoved, UpdateStatus, DataTypeOK
<1> QED BY <1>2, <1>3, <1>4, TypePartsNext

LEMMA ExecutingType ==
  ASSUME PaceTypeOK, Executing
  PROVE  PaceTypeOK'
<1>1. CardTypeOK /\ ModeTypeOK /\ DataTypeOK /\ UNCHANGED paceVars
  BY TypeParts DEF Executing
<1>2. CASE ExecuteOther
  BY <1>1, <1>2, HardwareType DEF ExecuteOther, ReaderThread
<1>3. ASSUME NEW op, NEW needs, NEW becomes, NEW refusal \in Codes,
             ExecuteEac(op, needs, becomes, refusal)
      PROVE  PaceTypeOK'
  <2>1. PICK code \in Codes : Finish(code)
    BY <1>3 DEF ExecuteEac, Codes
  <2>2. CardTypeOK'
    BY <1>1, <1>3, <2>1, FinishOnlyType DEF ExecuteEac, Executes
  <2>3. ModeTypeOK'
    BY <1>1, Zenon DEF ModeTypeOK, paceVars, controlVars
  <2>4. DataTypeOK'
    BY <1>1, UnchangedData DEF paceVars
  <2> QED BY <2>2, <2>3, <2>4, TypePartsNext
<1>4. {"OK", "PROTOCOL_ERROR", "UNEXPECTED_TRANSMIT_STATUS"} \subseteq Codes
  BY DEF Codes
<1> QED BY <1>2, <1>3, <1>4
    DEF Executing, ExecuteDidAuthenticateEAC1, ExecuteDidAuthenticateEAC2, ExecuteTransmit

LEMMA NextPaceType ==
  ASSUME PaceTypeOK, ReaderSelected, [Next]_allVars
  PROVE  PaceTypeOK'
<1>1. CASE Pace
  BY <1>1, PaceType DEF Pace
<1>2. CASE Cancel \/ CancelKilled
  BY <1>2, CancelType DEF Cancel, CancelKilled, UserCancels, KillCancels, UnchangedControl
<1>3. CASE RunAuth
  <2>1. CASE Start
    BY <2>1, ChecksType, LeadsType, RequestsType
       DEF Start, RunProcessing, RunParseTcTokenUrl, RunLoadTcTokenUrl, RunGetTcToken, RunStartPaos
  <2>2. CASE Prepare
    BY <2>2, ChecksType, LeadsType
       DEF Prepare, RunInitializeFramework, RunDidList, RunExtractCvcsFromEac1InputType,
           RunPreVerification, RunCertificateDescriptionCheck, RunCheckCertificates,
           RunEACAdditionalInputType, RunProcessCertificatesFromEac2
  <2>3. CASE Talk \/ LeavePace \/ RunClearPacePasswords \/ RunStartPaosResponse
    BY <2>3, RequestsType, LeadsType, RunClearPacePasswordsType, RunsOnType
       DEF Talk, SendMessage, LeavePace
  <2>4. CASE (\E s \in CardStates : CallCard(s)) \/ RunUpdateRetryCounterFinal \/ RunCleanUpReaderManager
    BY <2>4, CallCardType, RunUpdateType, CleanUpReaderManagerType
       DEF RunUpdateRetryCounterFinal, RunCleanUpReaderManager
  <2>5. CASE RunCheckError \/ RunCheckRefreshAddress \/ RunActivateStoreFeedbackDialog
             \/ RunWriteHistory \/ RunSelfAuthenticationEnd \/ RunRedirectBrowser
    BY <2>5, LeadsType, RequestsType, RunsOnType
       DEF RunCheckError, RunCheckRefreshAddress, RunActivateStoreFeedbackDialog, RunWriteHistory,
           RunSelfAuthenticationEnd, RunGetSelfAuthenticationData, RunShowSelfInfo,
           RunSendWhitelistSurvey
  <2> QED BY <1>2, <1>3, <2>1, <2>2, <2>3, <2>4, <2>5 DEF RunAuth
<1>4. CASE DeliverToAuth
  BY <1>4, CardAnswersType, DeliverCardRemovedType, DeliverUpdateType
     DEF DeliverToAuth, DeliverUpdateRetryCounterFinal
<1>5. CASE Network
  BY <1>5, RepliesType
     DEF Network, ReceiveTcToken, ReceiveMessage, ReceiveRefreshAddress, ReceiveSelfAuthenticationData
<1>6. CASE User
  BY <1>2, <1>6, LeadsType, EnterPacePasswordType, RunFinalStateType, RetryCardSelectionType, KillType
     DEF User, ApproveAccessRights
<1>7. CASE Executing
  BY <1>7, ExecutingType
<1>8. CASE Environment
  BY <1>8, HardwareType DEF Environment, ReaderThread
<1>9. CASE Terminated \/ UNCHANGED allVars
  BY <1>9, UnchangedType DEF Terminated, allVars
<1> QED BY <1>1, <1>3, <1>4, <1>5, <1>6, <1>7, <1>8, <1>9 DEF Next, MainThread

States == PaceStates \cup PaceSignals \cup AuthStates

(* Where the workflow leads; StateConnectCard is entered from the          *)
(* composite state only.                                                   *)
LEMMA NextStates ==
  ASSUME st \in States, ReaderSelected, [Next]_allVars
  PROVE  st' \in States /\ ReaderSelected'
<1> DEFINE Others == States \ {"ConnectCard"}
<1> USE DEF Goto, Wait
<1>0. /\ SendStates \cup CardStates \cup Ending \cup {"StartPaosResponse"} \subseteq Others
      /\ \A s \in CardStates : ResponseState[s] \in SendStates
  BY DEF States, PaceStates, PaceSignals, AuthStates, SendStates, CardStates, Ending, ResponseState
<1>1. CASE Pace
  BY <1>1, PaceStays, PaceSelects DEF Pace, States
<1>2. CASE st' = st /\ readerName' = readerName
  BY <1>2 DEF ReaderSelected
<1>3. CASE st' \in Others
  BY <1>3 DEF ReaderSelected
<1>4. CASE Cancel \/ CancelKilled \/ DeliverCardRemoved
  <2>1. st \in CancellableStates /\ st' = AbortTarget(st)
    BY <1>4
       DEF Cancel, CancelKilled, UserCancels, KillCancels, OnUserCancelled, DeliverCardRemoved,
           GivesUp, ConnectedOnCardRemoved, CancellableStates
  <2>2. AbortTarget(st) \in Others
    BY <2>1
       DEF AbortTarget, PaceAbortTarget, ResponseState, CancellableStates, States, PaceStates,
           PaceSignals, AuthStates, SendStates, CardStates
  <2> QED BY <1>3, <2>1, <2>2
<1>5. CASE RunAuth
  <2> USE DEF States, PaceStates, PaceSignals, AuthStates, Runs, Leads, Checks, Requests, contextVars
  <2>1. CASE Start
    BY <1>2, <1>3, <2>1
       DEF Start, RunProcessing, RunParseTcTokenUrl, RunLoadTcTokenUrl, RunGetTcToken, RunStartPaos,
           SendStates
  <2>2. CASE Prepare
    BY <1>3, <2>2
       DEF Prepare, RunInitializeFramework, RunDidList, RunExtractCvcsFromEac1InputType,
           RunPreVerification, RunCertificateDescriptionCheck, RunCheckCertificates,
           RunEACAdditionalInputType, RunProcessCertificatesFromEac2, SendStates, CardStates
  <2>3. CASE Talk \/ \E s \in CardStates : CallCard(s)
    BY <1>2, <2>3 DEF Talk, SendMessage, CallCard
  <2>4. CASE LeavePace \/ RunClearPacePasswords \/ RunStartPaosResponse
    BY <1>3, <2>4 DEF LeavePace, RunClearPacePasswords, RunStartPaosResponse, SendStates, CardStates
  <2>5. CASE RunUpdateRetryCounterFinal \/ RunCleanUpReaderManager \/ RunCheckError
             \/ RunCheckRefreshAddress \/ RunActivateStoreFeedbackDialog \/ RunWriteHistory
             \/ RunSelfAuthenticationEnd \/ RunRedirectBrowser
    BY <1>2, <1>3, <2>5
       DEF RunUpdateRetryCounterFinal, RunUpdate, RunCleanUpReaderManager, CleanUpReaderManager,
           RunCheckError, RunCheckRefreshAddress, RunActivateStoreFeedbackDialog, RunWriteHistory,
           RunSelfAuthenticationEnd, RunGetSelfAuthenticationData, RunShowSelfInfo,
           RunSendWhitelistSurvey, RunRedirectBrowser
  <2> QED BY <1>4, <1>5, <2>1, <2>2, <2>3, <2>4, <2>5 DEF RunAuth
<1>6. CASE DeliverToAuth
  <2>1. CASE \E s \in CardStates : CardAnswers(s)
    BY <1>0, <1>3, <2>1 DEF CardAnswers
  <2>2. CASE DeliverUpdateRetryCounterFinal
    BY <1>0, <1>3, <2>2 DEF DeliverUpdateRetryCounterFinal, DeliverUpdate, Ending
  <2> QED BY <1>4, <1>6, <2>1, <2>2 DEF DeliverToAuth
<1>7. CASE Network
  <2> USE DEF Replies, Fails
  <2>1. CASE ReceiveTcToken \/ ReceiveRefreshAddress \/ ReceiveSelfAuthenticationData
    BY <1>3, <2>1
       DEF ReceiveTcToken, ReceiveRefreshAddress, ReceiveSelfAuthenticationData, AbortTarget,
           States, AuthStates, SendStates, CardStates
  <2>2. ASSUME NEW s \in SendStates, ReceiveMessage(s) PROVE st' \in Others
    BY <2>2 DEF ReceiveMessage, Accepts, States, AuthStates, SendStates, CardStates
  <2> QED BY <1>3, <1>7, <2>1, <2>2 DEF Network
<1>8. CASE User
  BY <1>2, <1>3, <1>4, <1>8
     DEF User, ApproveAccessRights, Leads, EnterPacePassword, RunFinalState, RetryCardSelection,
         Kill, States, PaceStates, AuthStates
<1>9. CASE Executing \/ Environment \/ Terminated \/ UNCHANGED allVars
  BY <1>2, <1>9 DEF Executing, Environment, Terminated, allVars, paceVars, contextVars, controlVars
<1> QED BY <1>1, <1>5, <1>6, <1>7, <1>8, <1>9 DEF Next, MainThread

Channels == {"closed", "pace", "eac1", "eac2"}

DialogueTypeOK ==
  /\ kind \in {"auth", "selfauth"}
  /\ tcToken \in {"none", "invalid", "valid"} /\ tcTokenNotFound \in BOOLEAN
  /\ refreshUrl \in BOOLEAN /\ errorReported \in BOOLEAN /\ history \in BOOLEAN
  /\ verdict \in {"none", "ok", "error"}
  /\ token \in BOOLEAN
  /\ server \in {"running", "authentic", "failed"}
  /\ chan \in [Readers -> Channels]
  /\ answer \in {"none", "success", "failure", "notFound"}

LEMMA TypeOKParts == TypeOK <=> PaceTypeOK /\ st \in States /\ DialogueTypeOK
BY Zenon DEF TypeOK, PaceTypeOK, States, DialogueTypeOK, Channels

LEMMA TypeOKPartsNext == TypeOK' <=> PaceTypeOK' /\ st' \in States /\ DialogueTypeOK'
BY Zenon DEF TypeOK, PaceTypeOK, States, DialogueTypeOK, Channels

LEMMA UnchangedDialogue ==
  ASSUME DialogueTypeOK, UNCHANGED authVars
  PROVE  DialogueTypeOK'
BY DEF DialogueTypeOK, authVars, webVars, paosVars

(* What a command leaves of the channel on the chip.                       *)
LEMMA ExecutingDialogue ==
  ASSUME CardTypeOK, DialogueTypeOK, Executing
  PROVE  DialogueTypeOK'
<1>1. UNCHANGED <<webVars, paosVars>>
  BY DEF Executing
<1>2. chan \in [Readers -> Channels]
  BY DEF DialogueTypeOK
<1>3. chan' \in [Readers -> Channels]
  <2>1. ChannelAfter \in [Readers -> Channels]
    BY <1>2 DEF ChannelAfter, Channels
  <2> QED BY <1>2, <2>1
      DEF Executing, ExecuteOther, ExecuteDidAuthenticateEAC1, ExecuteDidAuthenticateEAC2,
          ExecuteTransmit, ExecuteEac, Channels
<1> QED BY <1>1, <1>3 DEF DialogueTypeOK, webVars, paosVars

LEMMA NextDialogue ==
  ASSUME CardTypeOK, DialogueTypeOK, [Next]_allVars
  PROVE  DialogueTypeOK'
<1>1. CASE UNCHANGED authVars
  BY <1>1, UnchangedDialogue
<1>2. CASE UnchangedWeb /\ UnchangedPaos
  BY <1>1, <1>2 DEF UnchangedWeb, UnchangedPaos, authVars, paosVars
<1>3. CASE Executing
  BY <1>3, ExecutingDialogue
<1>4. CASE Pace \/ Cancel \/ CancelKilled \/ Environment \/ Terminated \/ UNCHANGED allVars
  BY <1>1, <1>4 DEF Pace, Cancel, CancelKilled, Environment, Terminated, allVars
<1>5. CASE RunAuth
  <2>1. CASE Talk
    <3>1. errorReported' \in BOOLEAN /\ server' \in {"running", "authentic", "failed"}
      BY <2>1 DEF Talk, SendMessage, ReportsError, ServerLearns, DialogueTypeOK
    <3> QED BY <2>1, <3>1 DEF Talk, SendMessage, UnchangedWeb, webVars, DialogueTypeOK
  <2>2. CASE RunWriteHistory
    <3>1. /\ UNCHANGED <<kind, tcToken, tcTokenNotFound, refreshUrl, answer>>
          /\ UNCHANGED <<errorReported, verdict, token, server, chan>>
      BY <2>2, HistoryWritten DEF UnchangedPaos, paosVars
    <3>2. history' \in BOOLEAN
      BY <2>2, HistoryWritten DEF DialogueTypeOK
    <3> QED BY <3>1, <3>2 DEF DialogueTypeOK
  <2>3. CASE RunRedirectBrowser
    BY <2>3 DEF RunRedirectBrowser, AnswerToCaller, UnchangedPaos, paosVars, DialogueTypeOK
  <2>4. CASE Start \/ RunStartPaosResponse \/ Prepare \/ LeavePace \/ RunClearPacePasswords
             \/ RunUpdateRetryCounterFinal \/ RunCleanUpReaderManager \/ RunCheckError
             \/ RunCheckRefreshAddress \/ RunActivateStoreFeedbackDialog \/ RunSelfAuthenticationEnd
             \/ \E s \in CardStates : CallCard(s)
    BY <1>2, <2>4
       DEF Start, RunStartPaosResponse, Prepare, LeavePace, RunClearPacePasswords,
           RunUpdateRetryCounterFinal, RunCleanUpReaderManager, RunCheckError,
           RunCheckRefreshAddress, RunActivateStoreFeedbackDialog, RunSelfAuthenticationEnd, CallCard
  <2> QED BY <1>4, <1>5, <2>1, <2>2, <2>3, <2>4 DEF RunAuth
<1>6. CASE DeliverToAuth
  <2>1. ASSUME NEW s \in CardStates, CardAnswers(s) PROVE DialogueTypeOK'
    <3>1. token' \in BOOLEAN
      BY <2>1 DEF CardAnswers, DialogueTypeOK
    <3>2. UNCHANGED <<webVars, errorReported, verdict, server, chan>>
      BY <2>1 DEF CardAnswers, UnchangedWeb
    <3> QED BY <3>1, <3>2 DEF DialogueTypeOK, webVars
  <2> QED BY <1>2, <1>6, <2>1 DEF DeliverToAuth, DeliverCardRemoved, DeliverUpdateRetryCounterFinal
<1>7. CASE Network
  <2>1. CASE ReceiveTcToken
    <3>1. tcToken' \in {"none", "invalid", "valid"} /\ tcTokenNotFound' \in BOOLEAN
      BY <2>1, Zenon DEF ReceiveTcToken
    <3>2. UNCHANGED <<kind, refreshUrl, answer, history, errorReported, verdict, token, server, chan>>
      BY <2>1 DEF ReceiveTcToken, UnchangedPaos, paosVars
    <3> QED BY <3>1, <3>2 DEF DialogueTypeOK
  <2>2. ASSUME NEW s \in SendStates, ReceiveMessage(s) PROVE DialogueTypeOK'
    BY <2>2 DEF ReceiveMessage, UnchangedWeb, webVars, DialogueTypeOK
  <2>3. CASE ReceiveRefreshAddress
    <3>1. refreshUrl' \in BOOLEAN
      BY <2>3, Zenon DEF ReceiveRefreshAddress, DialogueTypeOK
    <3>2. UNCHANGED <<kind, tcToken, tcTokenNotFound, answer, history, errorReported, verdict, token,
                      server, chan>>
      BY <2>3 DEF ReceiveRefreshAddress, UnchangedPaos, paosVars
    <3> QED BY <3>1, <3>2 DEF DialogueTypeOK
  <2>4. CASE ReceiveSelfAuthenticationData
    BY <1>2, <2>4 DEF ReceiveSelfAuthenticationData
  <2> QED BY <1>7, <2>1, <2>2, <2>3, <2>4 DEF Network
<1>8. CASE User
  BY <1>1, <1>2, <1>4, <1>8 DEF User, ApproveAccessRights
<1> QED BY <1>3, <1>4, <1>5, <1>6, <1>7, <1>8 DEF Next, MainThread

Typed == TypeOK /\ ReaderSelected

LEMMA InitTyped == Init => Typed
<1> SUFFICES ASSUME Init PROVE Typed
  OBVIOUS
<1>1. st \in States /\ ReaderSelected
  BY DEF Init, States, PaceStates, AuthStates, ReaderSelected
<1>2. DialogueTypeOK
  BY DEF Init, DialogueTypeOK, Channels
<1> QED BY <1>1, <1>2, InitPaceType, TypeOKParts DEF Init, Typed

(* Both workflows, the reader thread, the queues and the dialogue with the *)
(* server keep to their types; in particular only statuses that a return   *)
(* code converts to are recorded.                                          *)
THEOREM TypeCorrect == Spec => []TypeOK
<1>1. Typed /\ [Next]_allVars => Typed'
  <2> SUFFICES ASSUME Typed, [Next]_allVars PROVE Typed'
    OBVIOUS
  <2>1. PaceTypeOK /\ CardTypeOK /\ st \in States /\ DialogueTypeOK /\ ReaderSelected
    BY TypeOKParts DEF Typed, PaceTypeOK
  <2>2. PaceTypeOK' /\ st' \in States /\ DialogueTypeOK' /\ ReaderSelected'
    BY <2>1, NextPaceType, NextStates, NextDialogue
  <2> QED BY <2>2, TypeOKPartsNext DEF Typed
<1>2. Typed => TypeOK
  BY DEF Typed
<1> QED BY InitTyped, <1>1, <1>2, PTL DEF Spec

-----------------------------------------------------------------------------
(* After an error. The workflow is then in a state that asks nothing of    *)
(* the card any more, and a server that is waited for has been told.       *)

AfterError ==
  {"MaintainCardConnection", "ClearPacePasswordsOnError", "PaceAbort", "StartPaosResponse"}
    \cup (SendStates \ {"SendStartPaos", "SendInitializeFrameworkResponse", "SendDIDListResponse"})
    \cup Ending

ErrorTold ==
  /\ errorReported => server = "failed"
  /\ (status # "NoError" /\ ~cancelPending) =>
       st \in AfterError /\ (st \in SendStates /\ busy => server = "failed")

LEMMA PaceTold ==
  ASSUME ErrorTold, Pace
  PROVE  ErrorTold'
<1> USE DEF AfterError, SendStates, Ending, Runs, Waits, Goto, Wait, UnchangedControl, contextVars,
            controlVars, paceVars, Delivers
<1>1. /\ UNCHANGED <<errorReported, server, cancelPending>>
      /\ status' # "NoError" /\ ~cancelPending =>
           \/ st' \in {"MaintainCardConnection", "ClearPacePasswordsOnError", "PaceAbort"}
           \/ st' = st /\ status' = status /\ (st \in SendStates => busy' = busy)
  <2>1. UNCHANGED <<errorReported, server>>
    BY DEF Pace, authVars, paosVars
  <2>2. (status # "NoError" /\ ~cancelPending) => st \in AfterError
    BY DEF ErrorTold
  <2>3. CASE RunPace
    BY <2>1, <2>2, <2>3
       DEF RunPace, RunMaintainCardConnection, MaintainAborts, MaintainAfterWrongPassword,
           MaintainAfterCardGone, MaintainProceeds, MustAbort, RunClearPacePasswordsOnError,
           RunSelectReader, RunConnectCard, FinishConnectCard, RunUpdateRetryCounter, RunUpdate,
           RunVerifyRetryCounter, RunPreparePace, RunEstablishPaceChannel,
           RunUnfortunateCardPosition, RunClearPacePasswordsBeforeDestroy,
           RunDestroyPaceAfterPuk, RunDestroy
  <2>4. CASE DeliverPace
    BY <2>1, <2>2, <2>4 DEF DeliverPace, DeliversPace, PaceDone, PaceCardGone, PaceFailed
  <2>5. CASE DeliverToPace /\ ~DeliverPace
    BY <2>1, <2>2, <2>5
       DEF DeliverToPace, DeliverCall, DeliverCreate, DeliverEvent, SelectReaderNow,
           DeliverUpdateRetryCounter, DeliverUpdate, DeliverDestroyPaceAfterPuk, DeliverDestroy,
           DeliverStale
  <2> QED BY <2>3, <2>4, <2>5 DEF Pace
<1> QED BY <1>1 DEF ErrorTold

(* The dialogue: what is sent after an error tells the server of it, and   *)
(* the server then only asks for the end.                                  *)
LEMMA TalkTold ==
  ASSUME ErrorTold, NEW s \in SendStates, SendMessage(s) \/ ReceiveMessage(s)
  PROVE  ErrorTold'
<1> USE DEF AfterError, Ending, SendStates
<1>1. CASE SendMessage(s)
  <2>1. /\ st = s /\ st' = s /\ status' = status /\ cancelPending' = cancelPending
        /\ errorReported' = (errorReported \/ ReportsError(s)) /\ server' = ServerLearns(s)
    BY <1>1 DEF SendMessage, Requests, Runs, Wait, contextVars, UnchangedControl
  <2>2. errorReported' => server' = "failed"
    BY <2>1 DEF ErrorTold, ServerLearns
  <2>3. (status # "NoError" /\ ~cancelPending) => errorReported'
    BY <2>1 DEF ErrorTold, ReportsError
  <2> QED BY <2>1, <2>2, <2>3 DEF ErrorTold
<1>2. CASE ReceiveMessage(s)
  <2>1. /\ st = s /\ busy /\ ~busy' /\ UNCHANGED <<errorReported, server, cancelPending>>
    BY <1>2 DEF ReceiveMessage, Replies, Fails, Waits, Goto, UnchangedControl
  <2>2. ASSUME NEW type \in DOMAIN Accepts[s], MaySend(type), Replies(s, Accepts[s][type])
        PROVE  ErrorTold'
    <3>1. st' = Accepts[s][type] /\ status' = status
      BY <2>2 DEF Replies, Goto
    <3>2. CASE status # "NoError" /\ ~cancelPending
      <4>1. server = "failed"
        BY <2>1, <3>2 DEF ErrorTold
      <4>2. type \in {"STARTPAOS_RESPONSE", "DISCONNECT"}
        BY <2>2, <4>1 DEF MaySend
      <4>3. st' \in {"StartPaosResponse", "SendDisconnectResponse"}
        BY <2>2, <3>1, <4>2 DEF Accepts
      <4> QED BY <2>1, <4>1, <4>3 DEF ErrorTold
    <3> QED BY <2>1, <3>1, <3>2 DEF ErrorTold
  <2>3. ASSUME Fails(s, IF s \in {"SendStartPaos", "SendInitializeFrameworkResponse",
                                  "SendDIDListResponse"}
                        THEN "CleanUpReaderManager" ELSE "UpdateRetryCounterFinal")
        PROVE  ErrorTold'
    <3>1. st' \in Ending
      BY <2>3 DEF Fails, Goto
    <3> QED BY <2>1, <3>1 DEF ErrorTold
  <2> QED BY <1>2, <2>2, <2>3 DEF ReceiveMessage
<1> QED BY <1>1, <1>2

(* Every other step that leaves a state leads to one that may follow an    *)
(* error, or there is none on record.                                      *)
LEMMA LeadsTold ==
  ASSUME ErrorTold, UNCHANGED <<errorReported, server, cancelPending>>,
         \/ st' \in AfterError /\ ~busy'
         \/ st' \in Ending
         \/ status' = "NoError"
  PROVE  ErrorTold'
BY DEF ErrorTold, AfterError, Ending, SendStates

LEMMA NextTold ==
  ASSUME ErrorTold, [Next]_allVars
  PROVE  ErrorTold'
<1> USE DEF Goto, Wait, Runs, Waits
<1>0. (status # "NoError" /\ ~cancelPending) => st \in AfterError
  BY DEF ErrorTold
<1>1. CASE Pace
  BY <1>1, PaceTold
<1>2. CASE Cancel \/ CancelKilled \/ DeliverCardRemoved
  <2>1. /\ st \in CancellableStates /\ st' = AbortTarget(st) /\ ~busy'
        /\ UNCHANGED <<errorReported, server>> /\ cancelPending' \in {cancelPending, FALSE}
    BY <1>2
       DEF Cancel, CancelKilled, UserCancels, KillCancels, OnUserCancelled, DeliverCardRemoved,
           GivesUp, ConnectedOnCardRemoved, CancellableStates, UnchangedControl, UnchangedPaos,
           authVars, paosVars
  <2>2. AbortTarget(st) \in AfterError
    BY <2>1
       DEF AbortTarget, PaceAbortTarget, ResponseState, CancellableStates, AfterError, Ending,
           SendStates, CardStates
  <2> QED BY <2>1, <2>2 DEF ErrorTold
<1>3. CASE RunAuth
  <2> USE DEF AfterError, Ending, SendStates, CardStates
  <2>1. CASE Talk
    BY <2>1, TalkTold DEF Talk
  <2>2. CASE Start \/ Prepare
    <3>1. /\ UNCHANGED <<errorReported, server, cancelPending>>
          /\ (st' \in AfterError /\ ~busy') \/ (st \notin AfterError /\ status' = status)
      BY <2>2
         DEF Start, RunProcessing, RunParseTcTokenUrl, RunLoadTcTokenUrl, RunGetTcToken,
             RunStartPaos, Prepare, RunInitializeFramework, RunDidList,
             RunExtractCvcsFromEac1InputType, RunPreVerification, RunCertificateDescriptionCheck,
             RunCheckCertificates, RunEACAdditionalInputType, RunProcessCertificatesFromEac2,
             Leads, Checks, Requests, UnchangedPaos, paosVars, UnchangedControl, contextVars
    <3> QED BY <1>0, <3>1, LeadsTold DEF ErrorTold
  <2>3. CASE LeavePace \/ RunClearPacePasswords \/ RunStartPaosResponse
             \/ \E s \in CardStates : CallCard(s)
    <3>1. /\ UNCHANGED <<errorReported, server, cancelPending>>
          /\ (st' \in AfterError /\ ~busy') \/ (st \notin AfterError /\ status' = status)
      BY <2>3
         DEF LeavePace, RunClearPacePasswords, RunStartPaosResponse, CallCard, Leads,
             UnchangedPaos, paosVars, UnchangedControl, contextVars
    <3> QED BY <1>0, <3>1, LeadsTold DEF ErrorTold
  <2>4. CASE RunUpdateRetryCounterFinal \/ RunCleanUpReaderManager \/ RunCheckError
             \/ RunCheckRefreshAddress \/ RunActivateStoreFeedbackDialog \/ RunWriteHistory
             \/ RunSelfAuthenticationEnd \/ RunRedirectBrowser
    <3>1. UNCHANGED <<errorReported, server, cancelPending>> /\ st' \in Ending
      BY <2>4
         DEF RunUpdateRetryCounterFinal, RunUpdate, RunCleanUpReaderManager, CleanUpReaderManager,
             RunCheckError, RunCheckRefreshAddress, RunActivateStoreFeedbackDialog,
             RunWriteHistory, RunSelfAuthenticationEnd, RunGetSelfAuthenticationData,
             RunShowSelfInfo, RunSendWhitelistSurvey, RunRedirectBrowser, Leads, Requests,
             UnchangedPaos, paosVars, UnchangedControl
    <3> QED BY <3>1, LeadsTold
  <2> QED BY <1>2, <1>3, <2>1, <2>2, <2>3, <2>4 DEF RunAuth
<1>4. CASE DeliverToAuth
  <2>1. ASSUME NEW s \in CardStates, CardAnswers(s) PROVE ErrorTold'
    <3>1. UNCHANGED <<errorReported, server, cancelPending>> /\ ~busy' /\ st' = ResponseState[s]
      BY <2>1 DEF CardAnswers, UnchangedControl
    <3>2. ResponseState[s] \in AfterError
      BY DEF ResponseState, CardStates, AfterError, SendStates
    <3> QED BY <3>1, <3>2, LeadsTold
  <2>2. CASE DeliverUpdateRetryCounterFinal
    <3>1. UNCHANGED <<errorReported, server, cancelPending>> /\ st' \in Ending
      BY <2>2
         DEF DeliverUpdateRetryCounterFinal, DeliverUpdate, UnchangedPaos, paosVars,
             UnchangedControl, Ending
    <3> QED BY <3>1, LeadsTold
  <2> QED BY <1>2, <1>4, <2>1, <2>2 DEF DeliverToAuth
<1>5. CASE Network
  <2>1. CASE ReceiveTcToken \/ ReceiveRefreshAddress \/ ReceiveSelfAuthenticationData
    <3>1. /\ UNCHANGED <<errorReported, server, cancelPending>>
          /\ st' \in Ending \/ (st \notin AfterError /\ status' = status)
      BY <2>1
         DEF ReceiveTcToken, ReceiveRefreshAddress, ReceiveSelfAuthenticationData, Replies, Fails,
             AbortTarget, UnchangedPaos, paosVars, UnchangedControl, AfterError, Ending,
             SendStates, CardStates
    <3> QED BY <1>0, <3>1, LeadsTold DEF ErrorTold
  <2> QED BY <1>5, <2>1, TalkTold DEF Network
<1>6. CASE User
  <2>1. CASE ApproveAccessRights \/ ((EnterPacePassword \/ RetryCardSelection) /\ UNCHANGED authVars)
    <3>1. /\ UNCHANGED <<errorReported, server, cancelPending>>
          /\ st \notin AfterError /\ status' = status
      BY <2>1
         DEF ApproveAccessRights, Leads, EnterPacePassword, RetryCardSelection, contextVars,
             UnchangedControl, UnchangedPaos, authVars, paosVars, AfterError, SendStates, Ending
    <3> QED BY <1>0, <3>1, LeadsTold DEF ErrorTold
  <2>2. CASE (RunFinalState \/ Kill) /\ UNCHANGED authVars
    <3>1. /\ UNCHANGED <<errorReported, server>>
          /\ cancelPending' \/ st' = "Stopped"
      BY <2>2 DEF RunFinalState, Kill, authVars, paosVars
    <3> QED BY <3>1 DEF ErrorTold, AfterError, SendStates, Ending
  <2> QED BY <1>2, <1>6, <2>1, <2>2 DEF User
<1>7. CASE Executing \/ Environment \/ Terminated \/ UNCHANGED allVars
  <2>1. UNCHANGED <<errorReported, server, cancelPending, st, busy, status>>
    BY <1>7
       DEF Executing, Environment, Terminated, allVars, paceVars, authVars, paosVars, contextVars,
           controlVars
  <2> QED BY <2>1 DEF ErrorTold
<1> QED BY <1>1, <1>3, <1>4, <1>5, <1>6, <1>7 DEF Next, MainThread

(* The workflow leaves the card alone after an error, and the server it    *)
(* waits for knows of the error.                                           *)
THEOREM ServerHearsOfError == Spec => []ErrorTold
<1>1. Init => ErrorTold
  BY DEF Init, ContextInit, ErrorTold
<1>2. ErrorTold /\ [Next]_allVars => ErrorTold'
  BY NextTold
<1> QED BY <1>1, <1>2, PTL DEF Spec

(* The commands that bring a password to the card or act in its name.      *)
SecretOps == {"PACE", "UNBLOCK", "EAC1", "EAC2", "TRANSMIT"}

Erred == status # "NoError" /\ ~cancelPending

LEMMA WorkflowSilent ==
  ASSUME CardTypeOK, st \in AfterError, ~cancelPending, RunAuth \/ DeliverToAuth \/ Network
  PROVE  NoneAdded(SecretOps)
<1> USE DEF UnchangedReader, cardVars
<1>1. CASE RunUpdateRetryCounterFinal
  <2>1. "UPDATE_RC" \in CommandOps \ SecretOps
    BY DEF CommandOps, SecretOps
  <2> QED BY <1>1, <2>1, KeptQueue, HarmlessPost
      DEF RunUpdateRetryCounterFinal, RunUpdate, PostUpdateRetryCounter
<1>2. CASE RunAuth /\ ~RunUpdateRetryCounterFinal
  <2>1. ~CancelKilled /\ ~\E s \in CardStates : CallCard(s)
    BY DEF CancelKilled, KillCancels, CallCard, Runs, AfterError, CardStates, SendStates, Ending
  <2>2. CASE Start \/ Prepare \/ Talk \/ RunSelfAuthenticationEnd
    <3>1. cmds' = cmds
      BY <2>2
         DEF Start, RunProcessing, RunParseTcTokenUrl, RunLoadTcTokenUrl, RunGetTcToken,
             RunStartPaos, Prepare, RunInitializeFramework, RunDidList,
             RunExtractCvcsFromEac1InputType, RunPreVerification, RunCertificateDescriptionCheck,
             RunCheckCertificates, RunEACAdditionalInputType, RunProcessCertificatesFromEac2,
             Talk, SendMessage, RunSelfAuthenticationEnd, RunGetSelfAuthenticationData,
             RunShowSelfInfo, RunSendWhitelistSurvey, Leads, Checks, Requests
    <3> QED BY <3>1, KeptQueue
  <2>3. CASE LeavePace \/ RunClearPacePasswords \/ RunStartPaosResponse \/ RunCleanUpReaderManager
             \/ RunCheckError \/ RunCheckRefreshAddress \/ RunActivateStoreFeedbackDialog
             \/ RunWriteHistory \/ RunRedirectBrowser
    <3>1. cmds' = cmds
      BY <2>3
         DEF LeavePace, RunClearPacePasswords, RunStartPaosResponse, RunCleanUpReaderManager,
             CleanUpReaderManager, RunCheckError, RunCheckRefreshAddress,
             RunActivateStoreFeedbackDialog, RunWriteHistory, RunRedirectBrowser, Leads, Requests
    <3> QED BY <3>1, KeptQueue
  <2> QED BY <1>2, <2>1, <2>2, <2>3 DEF RunAuth
<1>3. CASE DeliverToAuth \/ Network
  <2>1. cmds' = cmds \/ cmds' = Disown(cmds)
    BY <1>3
       DEF DeliverToAuth, CardAnswers, DeliverCardRemoved, DeliverUpdateRetryCounterFinal,
           DeliverUpdate, ResetCardConnection, Network, ReceiveTcToken, ReceiveMessage,
           ReceiveRefreshAddress, ReceiveSelfAuthenticationData, Replies, Fails
  <2> QED BY <2>1, KeptQueue, DisownedQueue
<1> QED BY <1>1, <1>2, <1>3

LEMMA UserSilent ==
  ASSUME CardTypeOK, User
  PROVE  NoneAdded(SecretOps)
<1>1. cmds' = cmds \/ cmds' = Disown(cmds)
  BY DEF User, ApproveAccessRights, Leads, EnterPacePassword, RunFinalState, RetryCardSelection,
         Cancel, UserCancels, OnUserCancelled, Kill, UnchangedReader, cardVars, readerVars
<1> QED BY <1>1, KeptQueue, DisownedQueue

LEMMA HardwareSilent ==
  ASSUME CardTypeOK, Executing \/ Environment \/ Terminated \/ UNCHANGED allVars
  PROVE  NoneAdded(SecretOps)
<1>1. CASE ExecuteOther
  BY <1>1, ExecuteSilent DEF ExecuteOther
<1>2. CASE Executing /\ ~ExecuteOther
  <2>1. cmds # <<>> /\ cmds' = Tail(cmds)
    BY <1>2
       DEF Executing, ExecuteDidAuthenticateEAC1, ExecuteDidAuthenticateEAC2, ExecuteTransmit,
           ExecuteEac, Executes, Finish
  <2> QED BY <2>1, ServedQueue
<1>3. CASE Environment \/ Terminated \/ UNCHANGED allVars
  <2>1. cmds' = cmds
    BY <1>3
       DEF Environment, Update, World, TakeCard, PutCard, readerVars, Terminated, allVars, cardVars
  <2> QED BY <2>1, KeptQueue
<1> QED BY <1>1, <1>2, <1>3

LEMMA SilentStep ==
  ASSUME TypeOK, ErrorTold, Erred, [Next]_allVars
  PROVE  NoneAdded(SecretOps)
<1>1. CardTypeOK /\ st \in AfterError /\ ~cancelPending
  BY DEF TypeOK, ErrorTold, Erred
<1>2. SecretOps \cap OwnOps = {} /\ st # "EstablishPaceChannel"
  BY <1>1 DEF SecretOps, OwnOps, AfterError, SendStates, Ending
<1>3. CASE Pace
  BY <1>1, <1>2, <1>3, RunPaceSilent, DeliverPaceSilent DEF Pace
<1> QED BY <1>1, <1>3, WorkflowSilent, UserSilent, HardwareSilent DEF Next, MainThread

(* After the first error or cancellation the card gets no password and no  *)
(* command of the authentication any more, whatever the server sends.      *)
THEOREM NothingSentAfterError == Spec => SilentAfterError
<1>1. TypeOK /\ ErrorTold /\ [Next]_allVars
        => [(status # "NoError" /\ ~cancelPending) =>
              \A i \in DOMAIN cmds' :
                cmds'[i].op \in {"PACE", "UNBLOCK", "EAC1", "EAC2", "TRANSMIT"} =>
                  \E j \in DOMAIN cmds : cmds[j].op = cmds'[i].op]_allVars
  BY SilentStep DEF Erred, NoneAdded, SecretOps
<1> QED BY <1>1, TypeCorrect, ServerHearsOfError, PTL DEF Spec, SilentAfterError

-----------------------------------------------------------------------------
(* The order of the card's commands. Until something goes wrong at most    *)
(* one command is on its way to the card, the state that called for it     *)
(* waits, and what its reply has promised of the chip's channel still      *)
(* holds when the next command is called: no CREATE that would reset the   *)
(* chip can overtake it.                                                   *)

EacOps     == {"EAC1", "EAC2", "TRANSMIT"}
ChannelOps == {"CREATE", "PACE", "UNBLOCK", "DESTROY"}
CallOps    == {"UPDATE_RC", "PACE", "UNBLOCK", "DESTROY"} \cup EacOps
Sent       == CallOps \cup {"CREATE"}
Due        == CallOps \cup {"CALL"}

(* The states that wait for the reply to op. *)
Caller(op) ==
  CASE op = "UPDATE_RC" -> {"UpdateRetryCounter", "UpdateRetryCounterFinal"}
    [] op = "DESTROY"   -> {"DestroyPaceAfterPuk"}
    [] op = "EAC1"      -> {"DidAuthenticateEac1"}
    [] op = "EAC2"      -> {"DidAuthenticateEac2"}
    [] op = "TRANSMIT"  -> {"Transmit"}
    [] OTHER            -> {"EstablishPaceChannel"}
Callers == { "UpdateRetryCounter", "UpdateRetryCounterFinal", "DestroyPaceAfterPuk",
             "EstablishPaceChannel" } \cup CardStates

(* Where the channel must be how far. *)
Opened  == {"PaceChannelEstablished", "ClearPacePasswords"}
Between == {"SendDIDAuthenticateResponseEAC1", "EACAdditionalInputType",
            "SendDIDAuthenticateResponseEACAdditionalInput", "ProcessCertificatesFromEac2"}
Passed  == {"SendDIDAuthenticateResponseEAC2", "Transmit", "SendTransmitResponse"}
AtCard  == Opened \cup Between \cup Passed \cup CardStates

Opening        == st \in Opened \/ Runs("DidAuthenticateEac1")
Authenticating == Waits("DidAuthenticateEac1") \/ st \in Between \/ Runs("DidAuthenticateEac2")

(* The chip behind the connection, if it can be reached at all.            *)
Chip(S) == conn # NoConn /\ (Reach(conn.reader) => chan[conn.reader] \in S)

(* The password that opens the channel for an authentication.              *)
Opens(id) == id = "PIN" \/ (id = "CAN" /\ CanAllowedMode)

Calls(op, r, id) ==
  /\ busy /\ st \in Caller(op)
  /\ conn # NoConn /\ r = conn.reader
  /\ op = "UNBLOCK" => id = "PUK"

OneCall ==
  /\ Alone(CallOps, cmds, msgs)
  /\ \A i \in Asked(CallOps, cmds) : Calls(cmds[i].op, cmds[i].reader, cmds[i].id)
  /\ \A i \in Heard(CallOps, msgs) : Calls(msgs[i].kind, msgs[i].reader, msgs[i].id)

(* Wishes for a connection that are still under way are older than what    *)
(* was called over the connection.                                         *)
OldWishes ==
  /\ conn # NoConn /\ st \notin {"ConnectCard", "UpdateRetryCounter"} => Heard({"CALL"}, msgs) = {}
  /\ \A i \in Heard({"UPDATE_RC"}, msgs), j \in Heard({"CALL"}, msgs) : j < i
  /\ \A i \in Asked({"PACE"}, cmds), j \in Asked({"CREATE"}, cmds) : j < i
  /\ Heard({"PACE"}, msgs) # {} => Asked({"CREATE"}, cmds) = {}
  /\ st \in AtCard => conn # NoConn /\ Asked({"CREATE"}, cmds) = {}

Promised ==
  /\ \A i \in Heard({"PACE"}, msgs) : msgs[i].code = "OK" /\ Opens(msgs[i].id) => Chip({"pace"})
  /\ \A i \in Heard({"EAC2"}, msgs) : msgs[i].code = "OK" => Chip({"eac2"})
  /\ Opening => Chip({"pace"})
  /\ Authenticating => Chip({"pace", "eac1"})
  /\ st \in Passed => Chip({"eac2"})

Orderly == OneCall /\ OldWishes /\ Promised

Uncalled == Asked(CallOps, cmds) = {} /\ Heard(CallOps, msgs) = {}

(* A step after which no chip can be reached that could not be before, and *)
(* which leaves the channels alone.                                        *)
Kept     == \A r \in Readers : Reach(r)' => Reach(r) /\ chan'[r] = chan[r]
SameCard == conn' # NoConn => conn # NoConn /\ conn'.reader = conn.reader

(* What a state that is entered takes for granted. *)
Earned ==
  /\ conn' # NoConn /\ st' \notin {"ConnectCard", "UpdateRetryCounter"} => Heard({"CALL"}, msgs) = {}
  /\ st' \in AtCard => conn' # NoConn /\ Asked({"CREATE"}, cmds) = {}
  /\ Opening' => Chip({"pace"})
  /\ Authenticating' => Chip({"pace", "eac1"})
  /\ st' \in Passed => Chip({"eac2"})

LEMMA ChipKept ==
  ASSUME CardTypeOK, Kept, SameCard, conn' # NoConn, NEW S, Chip(S)
  PROVE  Chip(S)'
<1>1. conn'.reader = conn.reader /\ conn.reader \in Readers
  BY DEF SameCard, CardTypeOK, Connection
<1>2. Reach(conn.reader)' => rd'[conn.reader].obj /\ rd'[conn.reader].handle = "open" /\ slot'[conn.reader] # NoCard
  BY <1>1 DEF Reach
<1>3. Reach(conn.reader)' => Reach(conn.reader) /\ chan'[conn.reader] = chan[conn.reader]
  BY <1>1, <1>2 DEF Kept, Reach
<1> QED BY <1>1, <1>3 DEF Chip

LEMMA CallersApart ==
  /\ \A op : Caller(op) \subseteq Callers
  /\ Callers \cap (Opened \cup Between \cup {"SelectReader", "ConnectCard"}) = {}
  /\ CardStates \subseteq AtCard /\ Opened \cup Between \cup Passed \subseteq AtCard
  /\ "SelectReader" \notin AtCard /\ "ConnectCard" \notin AtCard
BY DEF Caller, Callers, CardStates, Opened, Between, Passed, AtCard

(* Nothing is called but by a state that waits.                            *)
LEMMA NothingCalled ==
  ASSUME OneCall, ~busy \/ st \notin Callers
  PROVE  Uncalled
BY CallersApart DEF OneCall, Calls, Uncalled

(* The same call as before is under way, or none. *)
LEMMA OneCallKept ==
  ASSUME OneCall, Fewer(CallOps, cmds', cmds), FewerReplies(CallOps, msgs', msgs), SameCard,
         Uncalled' \/ (UNCHANGED <<st, busy>> /\ (conn # NoConn => conn' # NoConn))
  PROVE  OneCall'
<1>1. PICK k \in Nat : \A i \in Asked(CallOps, cmds') :
        i \in Nat /\ i + k \in Asked(CallOps, cmds) /\ SameCommand(cmds'[i], cmds[i + k])
  BY DEF Fewer
<1>2. PICK n \in Nat : \A i \in Heard(CallOps, msgs') :
        i \in Nat /\ i + n \in Heard(CallOps, msgs) /\ SameReply(msgs'[i], msgs[i + n])
  BY DEF FewerReplies
<1>3. Alone(CallOps, cmds', msgs')
  <2>1. ASSUME NEW i \in Asked(CallOps, cmds'), NEW j \in Asked(CallOps, cmds') PROVE i = j
    <3>1. i + k = j + k /\ i \in Nat /\ j \in Nat
      BY <1>1 DEF OneCall, Alone
    <3> QED BY <3>1
  <2>2. ASSUME NEW i \in Heard(CallOps, msgs'), NEW j \in Heard(CallOps, msgs') PROVE i = j
    <3>1. i + n = j + n /\ i \in Nat /\ j \in Nat
      BY <1>2 DEF OneCall, Alone
    <3> QED BY <3>1
  <2>3. Asked(CallOps, cmds') = {} \/ Heard(CallOps, msgs') = {}
    BY <1>1, <1>2 DEF OneCall, Alone
  <2> QED BY <2>1, <2>2, <2>3 DEF Alone
<1>4. CASE Uncalled'
  BY <1>3, <1>4 DEF OneCall, Uncalled
<1>5. CASE UNCHANGED <<st, busy>> /\ (conn # NoConn => conn' # NoConn)
  <2>1. \A op, r, id : Calls(op, r, id) => Calls(op, r, id)'
    BY <1>5 DEF Calls, SameCard
  <2>2. ASSUME NEW i \in Asked(CallOps, cmds')
        PROVE  Calls(cmds[i + k].op, cmds[i + k].reader, cmds[i + k].id)
    BY <1>1, <2>2 DEF OneCall
  <2>3. ASSUME NEW i \in Heard(CallOps, msgs')
        PROVE  Calls(msgs[i + n].kind, msgs[i + n].reader, msgs[i + n].id)
    BY <1>2, <2>3 DEF OneCall
  <2>4. ASSUME NEW i \in Asked(CallOps, cmds')
        PROVE  Calls(cmds'[i].op, cmds'[i].reader, cmds'[i].id)
    BY <1>1, <2>2, <2>4 DEF SameCommand
  <2>5. ASSUME NEW i \in Heard(CallOps, msgs')
        PROVE  Calls(msgs'[i].kind, msgs'[i].reader, msgs'[i].id)
    BY <1>2, <2>3, <2>5 DEF SameReply
  <2> QED BY <1>3, <2>1, <2>4, <2>5 DEF OneCall
<1> QED BY <1>4, <1>5

LEMMA OldCallKept ==
  ASSUME FewerReplies(Due, msgs', msgs),
         \A i \in Heard({"UPDATE_RC"}, msgs), j \in Heard({"CALL"}, msgs) : j < i
  PROVE  \A i \in Heard({"UPDATE_RC"}, msgs'), j \in Heard({"CALL"}, msgs') : j < i
<1>1. PICK n \in Nat : \A i \in Heard(Due, msgs') :
        i \in Nat /\ i + n \in Heard(Due, msgs) /\ SameReply(msgs'[i], msgs[i + n])
  BY DEF FewerReplies
<1>2. ASSUME NEW S \in SUBSET Due, NEW i \in Heard(S, msgs')
      PROVE  i \in Nat /\ i + n \in Heard(S, msgs)
  BY <1>1, <1>2 DEF Heard, SameReply
<1>3. {"CALL"} \in SUBSET Due /\ {"UPDATE_RC"} \in SUBSET Due
  BY DEF Due, CallOps
<1>4. ASSUME NEW i \in Heard({"UPDATE_RC"}, msgs'), NEW j \in Heard({"CALL"}, msgs') PROVE j < i
  <2>1. j + n < i + n /\ i \in Nat /\ j \in Nat
    BY <1>2, <1>3
  <2> QED BY <2>1
<1> QED BY <1>4

LEMMA OldCreateKept ==
  ASSUME Fewer(Sent, cmds', cmds),
         \A i \in Asked({"PACE"}, cmds), j \in Asked({"CREATE"}, cmds) : j < i
  PROVE  \A i \in Asked({"PACE"}, cmds'), j \in Asked({"CREATE"}, cmds') : j < i
<1>1. PICK k \in Nat : \A i \in Asked(Sent, cmds') :
        i \in Nat /\ i + k \in Asked(Sent, cmds) /\ SameCommand(cmds'[i], cmds[i + k])
  BY DEF Fewer
<1>2. ASSUME NEW S \in SUBSET Sent, NEW i \in Asked(S, cmds')
      PROVE  i \in Nat /\ i + k \in Asked(S, cmds)
  BY <1>1, <1>2 DEF Asked, SameCommand
<1>3. {"CREATE"} \in SUBSET Sent /\ {"PACE"} \in SUBSET Sent
  BY DEF Sent, CallOps
<1>4. ASSUME NEW i \in Asked({"PACE"}, cmds'), NEW j \in Asked({"CREATE"}, cmds') PROVE j < i
  <2>1. j + k < i + k /\ i \in Nat /\ j \in Nat
    BY <1>2, <1>3
  <2> QED BY <2>1
<1> QED BY <1>4

(* The parts of what is sent and what is due.                              *)
LEMMA Parts ==
  /\ CallOps \in SUBSET Sent /\ {"CREATE"} \in SUBSET Sent /\ {"PACE"} \in SUBSET Sent
  /\ EacOps \in SUBSET CallOps /\ EacOps \cup ChannelOps \in SUBSET Sent
  /\ CallOps \in SUBSET Due /\ {"CALL"} \in SUBSET Due /\ {"UPDATE_RC"} \in SUBSET Due
  /\ {"PACE"} \in SUBSET Due /\ {"EAC2"} \in SUBSET Due
BY DEF Sent, Due, CallOps, EacOps, ChannelOps

(* A step after which nothing is under way that was not before, and no     *)
(* chip can be reached that could not be before.                           *)
Calm == Fewer(Sent, cmds', cmds) /\ FewerReplies(Due, msgs', msgs) /\ Kept /\ SameCard

LEMMA OldWishesKept ==
  ASSUME OldWishes, Fewer(Sent, cmds', cmds), FewerReplies(Due, msgs', msgs), Earned
  PROVE  OldWishes'
<1>1. \A S \in SUBSET Sent : Fewer(S, cmds', cmds)
  BY FewerPart
<1>2. \A S \in SUBSET Due : FewerReplies(S, msgs', msgs)
  BY FewerPart
<1>3. /\ Asked({"CREATE"}, cmds) = {} => Asked({"CREATE"}, cmds') = {}
      /\ Heard({"CALL"}, msgs) = {} => Heard({"CALL"}, msgs') = {}
      /\ Heard({"PACE"}, msgs) = {} => Heard({"PACE"}, msgs') = {}
  BY <1>1, <1>2, FewerNone, Parts
<1> QED BY <1>3, OldCallKept, OldCreateKept DEF OldWishes, Earned

LEMMA Carried ==
  ASSUME CardTypeOK, Orderly, Calm, Earned,
         Uncalled' \/ (UNCHANGED <<st, busy>> /\ (conn # NoConn => conn' # NoConn))
  PROVE  Orderly'
<1> USE DEF Calm
<1>1. OneCall'
  BY FewerPart, Parts, OneCallKept DEF Orderly
<1>2. OldWishes'
  BY OldWishesKept DEF Orderly
<1>3. Promised'
  <2>1. \A S : Chip(S) /\ conn' # NoConn => Chip(S)'
    BY ChipKept
  <2>2. Opening' \/ Authenticating' \/ st' \in Passed => conn' # NoConn
    BY CallersApart DEF Earned, Opening, Authenticating, Runs, Waits, CardStates
  <2>3. /\ (Opening => Chip({"pace"}))'
        /\ (Authenticating => Chip({"pace", "eac1"}))'
        /\ (st \in Passed => Chip({"eac2"}))'
    BY <2>1, <2>2 DEF Earned
  <2>4. PICK n \in Nat : \A i \in Heard(Due, msgs') :
          i + n \in Heard(Due, msgs) /\ SameReply(msgs'[i], msgs[i + n])
    BY DEF FewerReplies
  <2>5. ASSUME NEW S \in SUBSET Due, NEW i \in Heard(S, msgs')
        PROVE  i + n \in Heard(S, msgs) /\ SameReply(msgs'[i], msgs[i + n])
    BY <2>4, <2>5 DEF Heard, SameReply
  <2>6. ASSUME NEW i \in Heard(CallOps, msgs') PROVE conn' # NoConn
    BY <1>1, <2>6 DEF OneCall, Calls
  <2>7. ASSUME NEW i \in Heard({"PACE"}, msgs'), msgs'[i].code = "OK", Opens(msgs'[i].id)
        PROVE  Chip({"pace"})'
    <3>1. Chip({"pace"})
      BY <2>5, <2>7, Parts DEF Orderly, Promised, SameReply
    <3>2. conn' # NoConn
      BY <2>6 DEF Heard, CallOps
    <3> QED BY <2>1, <3>1, <3>2
  <2>8. ASSUME NEW i \in Heard({"EAC2"}, msgs'), msgs'[i].code = "OK"
        PROVE  Chip({"eac2"})'
    <3>1. Chip({"eac2"})
      BY <2>5, <2>8, Parts DEF Orderly, Promised, SameReply
    <3>2. conn' # NoConn
      BY <2>6 DEF Heard, CallOps, EacOps
    <3> QED BY <2>1, <3>1, <3>2
  <2> QED BY <2>3, <2>7, <2>8 DEF Promised, Opens
<1> QED BY <1>1, <1>2, <1>3 DEF Orderly

(* A state that has nothing to do with the card calls nothing and takes    *)
(* nothing for granted.                                                    *)
LEMMA Idle ==
  ASSUME Uncalled', st' \notin AtCard,
         conn' # NoConn /\ st' \notin {"ConnectCard", "UpdateRetryCounter"} =>
           Heard({"CALL"}, msgs') = {}
  PROVE  Orderly'
<1>1. /\ Asked({"PACE"}, cmds') = {} /\ Heard({"PACE"}, msgs') = {}
      /\ Heard({"UPDATE_RC"}, msgs') = {} /\ Heard({"EAC2"}, msgs') = {}
  BY DEF Uncalled, Asked, Heard, CallOps, EacOps
<1>2. OneCall'
  BY DEF OneCall, Alone, Uncalled
<1>3. OldWishes'
  BY <1>1 DEF OldWishes
<1>4. Promised'
  BY <1>1 DEF Promised, Opening, Authenticating, Runs, Waits, AtCard, CardStates
<1> QED BY <1>2, <1>3, <1>4 DEF Orderly

(* A reply that is taken: what it has promised holds, and nothing else is  *)
(* under way.                                                              *)
LEMMA Taken ==
  ASSUME CardTypeOK, Orderly, msgs # <<>>, Head(msgs).kind \in CallOps
  PROVE  /\ Calls(Head(msgs).kind, Head(msgs).reader, Head(msgs).id)
         /\ Asked(CallOps, cmds) = {} /\ Heard(CallOps, Tail(msgs)) = {}
         /\ Head(msgs).kind = "UPDATE_RC" => Heard({"CALL"}, msgs) = {}
         /\ Head(msgs).kind = "PACE" => Asked({"CREATE"}, cmds) = {}
         /\ Head(msgs).kind = "PACE" /\ Head(msgs).code = "OK" /\ Opens(Head(msgs).id)
              => Chip({"pace"})
         /\ Head(msgs).kind = "EAC2" /\ Head(msgs).code = "OK" => Chip({"eac2"})
<1>1. msgs \in Seq(Messages) /\ Head(msgs) \in Reply
  BY FirstMessage DEF CardTypeOK, Messages, CallOps, EacOps
<1>2. 1 \in Heard(CallOps, msgs) /\ msgs[1] = Head(msgs) /\ Heard(CallOps, Tail(msgs)) = {}
  BY <1>1, TakenAlone DEF Orderly, OneCall, Alone
<1>3. Calls(Head(msgs).kind, Head(msgs).reader, Head(msgs).id) /\ Asked(CallOps, cmds) = {}
  BY <1>2 DEF Orderly, OneCall, Alone
<1>4. \A k : Head(msgs).kind = k => 1 \in Heard({k}, msgs)
  BY <1>2 DEF Heard
<1>5. ASSUME Head(msgs).kind = "UPDATE_RC", NEW j \in Heard({"CALL"}, msgs) PROVE FALSE
  <2>1. j < 1
    BY <1>4, <1>5 DEF Orderly, OldWishes
  <2>2. j \in 1 .. Len(msgs) /\ Len(msgs) \in Nat
    BY <1>1, <1>5, LenProperties DEF Heard
  <2> QED BY <2>1, <2>2
<1> QED BY <1>2, <1>3, <1>4, <1>5 DEF Orderly, OldWishes, Promised

(* A command that is posted by a state that has waited for nothing.        *)
LEMMA Posted ==
  ASSUME CardTypeOK, Orderly, Uncalled, conn # NoConn, NEW op \in CallOps, NEW id, NEW word,
         Post(op, id, word), op = "UNBLOCK" => id = "PUK",
         busy', st' \in Caller(op), chan' = chan, Earned
  PROVE  Orderly'
<1> DEFINE c == [op |-> op, reader |-> conn.reader, id |-> id, pw |-> word, mine |-> TRUE,
                 conn |-> TRUE]
<1>1. /\ cmds' = Append(cmds, c) /\ cmds \in Seq(Command)
      /\ UNCHANGED <<slot, rd, msgs, conn>>
  BY DEF Post, worldVars, CardTypeOK
<1>2. c.op = op /\ c.reader = conn.reader /\ c.id = id
  OBVIOUS
<1> HIDE DEF c
<1>3. \A S : \A i \in Asked(S, cmds') :
        i \in Nat /\ ((i = Len(cmds) + 1 /\ cmds'[i] = c) \/ (i \in Asked(S, cmds) /\ i < Len(cmds) + 1))
  BY <1>1, AddedCommand
<1>4. Asked({"CREATE"}, cmds') \subseteq Asked({"CREATE"}, cmds)
  <2>1. ASSUME NEW i \in Asked({"CREATE"}, cmds') PROVE cmds'[i].op = "CREATE"
    BY <2>1 DEF Asked
  <2>2. op # "CREATE"
    BY DEF CallOps, EacOps
  <2> QED BY <1>2, <1>3, <2>1, <2>2
<1>5. OneCall'
  <2>1. \A i \in Asked(CallOps, cmds') : i = Len(cmds) + 1 /\ cmds'[i] = c
    BY <1>3 DEF Uncalled
  <2>2. Heard(CallOps, msgs') = {}
    BY <1>1 DEF Uncalled
  <2>3. Calls(op, conn.reader, id)'
    BY <1>1 DEF Calls
  <2> QED BY <1>1, <1>2, <2>1, <2>2, <2>3 DEF OneCall, Alone, Calls
<1>6. OldWishes'
  <2>1. Heard({"UPDATE_RC"}, msgs') = {} /\ Heard({"PACE"}, msgs') = {}
    BY <1>1 DEF Uncalled, Heard, CallOps
  <2>2. ASSUME NEW i \in Asked({"PACE"}, cmds'), NEW j \in Asked({"CREATE"}, cmds') PROVE j < i
    <3>1. i \notin Asked({"PACE"}, cmds)
      BY DEF Uncalled, Asked, CallOps
    <3>2. i = Len(cmds) + 1
      BY <1>3, <2>2, <3>1
    <3>3. j \in Asked({"CREATE"}, cmds)
      BY <1>4, <2>2
    <3>4. j < Len(cmds) + 1
      <4>1. j \in 1 .. Len(cmds) /\ Len(cmds) \in Nat
        BY <1>1, <3>3, LenProperties DEF Asked
      <4> QED BY <4>1
    <3> QED BY <3>2, <3>4
  <2> QED BY <1>1, <1>4, <2>1, <2>2 DEF OldWishes, Earned
<1>7. Promised'
  <2>1. \A S : Chip(S) => Chip(S)'
    BY <1>1, Zenon DEF Chip, Reach
  <2>2. Heard({"PACE"}, msgs') = {} /\ Heard({"EAC2"}, msgs') = {}
    BY <1>1 DEF Uncalled, Heard, CallOps, EacOps
  <2> QED BY <2>1, <2>2 DEF Promised, Earned
<1> QED BY <1>5, <1>6, <1>7 DEF Orderly

(* The reader thread answers the call.                                     *)
LEMMA CallExecuted ==
  ASSUME CardTypeOK, Orderly, cmds # <<>>, Head(cmds).op \in CallOps, cmds' = Tail(cmds),
         NEW q \in Seq(Messages), NEW m, msgs' = Append(q, m), FewerReplies(Due, q, msgs),
         m.kind = Head(cmds).op, m.reader = Head(cmds).reader, m.id = Head(cmds).id,
         UNCHANGED <<st, busy, conn>>,
         Head(cmds).op = "PACE" /\ m.code = "OK" /\ Opens(m.id) => Chip({"pace"})',
         Head(cmds).op = "EAC2" /\ m.code = "OK" => Chip({"eac2"})',
         Head(cmds).op = "EAC1" => Chip({"pace", "eac1"})',
         Head(cmds).op = "TRANSMIT" => Chip({"eac2"})'
  PROVE  Orderly'
<1>1. cmds \in Seq(Command)
  BY DEF CardTypeOK
<1>2. 1 \in Asked(CallOps, cmds) /\ cmds[1] = Head(cmds) /\ Asked(CallOps, cmds') = {}
  BY <1>1, TakenAlone DEF Orderly, OneCall, Alone
<1>3. Calls(m.kind, m.reader, m.id) /\ Heard(CallOps, msgs) = {}
  BY <1>2 DEF Orderly, OneCall, Alone
<1>4. Heard(CallOps, q) = {}
  BY <1>3, FewerPart, FewerNone, Parts
<1>5. \A S : \A i \in Heard(S, msgs') :
        \/ i = Len(q) + 1 /\ msgs'[i] = m
        \/ i \in Heard(S, q) /\ i < Len(q) + 1
  BY AddedReply
<1>6. \A i \in Heard(CallOps, msgs') : i = Len(q) + 1 /\ msgs'[i] = m
  BY <1>4, <1>5
<1>7. \A S \in SUBSET CallOps : \A i \in Heard(S, msgs') : i = Len(q) + 1 /\ msgs'[i] = m
  BY <1>6 DEF Heard
<1>8. ASSUME NEW i \in Heard({"CALL"}, msgs') PROVE i < Len(q) + 1 /\ Heard({"CALL"}, msgs) # {}
  <2>1. i \in Heard({"CALL"}, q) /\ i < Len(q) + 1
    <3>1. m.kind # "CALL"
      BY DEF CallOps, EacOps
    <3>2. msgs'[i].kind = "CALL"
      BY <1>8 DEF Heard
    <3> QED BY <1>5, <1>8, <3>1, <3>2
  <2>2. FewerReplies({"CALL"}, q, msgs)
    BY FewerPart, Parts
  <2> QED BY <2>1, <2>2, FewerNone
<1>9. OneCall'
  <2>1. Calls(m.kind, m.reader, m.id)'
    BY <1>3 DEF Calls
  <2> QED BY <1>2, <1>6, <2>1 DEF OneCall, Alone
<1>10. Fewer({"CREATE"}, cmds', cmds)
  BY <1>1, FewerCommands
<1>11. OldWishes'
  <2>1. conn # NoConn /\ st \notin {"ConnectCard", "UpdateRetryCounter"} => Heard({"CALL"}, msgs') = {}
    BY <1>8 DEF Orderly, OldWishes
  <2>2. ASSUME NEW i \in Heard({"UPDATE_RC"}, msgs'), NEW j \in Heard({"CALL"}, msgs') PROVE j < i
    <3>1. {"UPDATE_RC"} \in SUBSET CallOps
      BY DEF CallOps
    <3>2. i = Len(q) + 1
      BY <1>7, <2>2, <3>1
    <3> QED BY <1>8, <2>2, <3>2
  <2>3. Asked({"PACE"}, cmds') = {}
    BY <1>2 DEF Asked, CallOps
  <2>4. ASSUME NEW i \in Heard({"PACE"}, msgs') PROVE Asked({"CREATE"}, cmds') = {}
    <3>1. {"PACE"} \in SUBSET CallOps
      BY DEF CallOps
    <3>2. m.kind = "PACE"
      BY <1>7, <2>4, <3>1 DEF Heard
    <3>3. 1 \in Asked({"PACE"}, cmds)
      BY <1>2, <3>2 DEF Asked
    <3>4. ASSUME NEW j \in Asked({"CREATE"}, cmds) PROVE FALSE
      <4>1. j < 1
        BY <3>3, <3>4 DEF Orderly, OldWishes
      <4>2. j \in 1 .. Len(cmds) /\ Len(cmds) \in Nat
        BY <1>1, <3>4, LenProperties DEF Asked
      <4> QED BY <4>1, <4>2
    <3> QED BY <1>10, <3>4, FewerNone
  <2>5. st \in AtCard => conn # NoConn /\ Asked({"CREATE"}, cmds') = {}
    BY <1>10, FewerNone DEF Orderly, OldWishes
  <2> QED BY <2>1, <2>2, <2>3, <2>4, <2>5 DEF OldWishes
<1>12. Promised'
  <2>1. busy /\ st \in Caller(Head(cmds).op)
    BY <1>3 DEF Calls
  <2>2. ~Opening'
    BY <2>1, CallersApart DEF Opening, Runs
  <2>3. Authenticating' => Chip({"pace", "eac1"})'
    <3>1. Authenticating' => st = "DidAuthenticateEac1"
      BY <2>1, CallersApart DEF Authenticating, Runs, Waits
    <3>2. st = "DidAuthenticateEac1" => Head(cmds).op = "EAC1"
      BY <2>1 DEF Caller
    <3> QED BY <3>1, <3>2
  <2>4. st' \in Passed => Chip({"eac2"})'
    BY <2>1 DEF Caller, Passed
  <2>5. \A i \in Heard({"PACE"}, msgs') : msgs'[i] = m /\ m.kind = "PACE"
    <3>1. {"PACE"} \in SUBSET CallOps
      BY DEF CallOps
    <3> QED BY <1>7, <3>1 DEF Heard
  <2>6. \A i \in Heard({"EAC2"}, msgs') : msgs'[i] = m /\ m.kind = "EAC2"
    <3>1. {"EAC2"} \in SUBSET CallOps
      BY DEF CallOps, EacOps
    <3> QED BY <1>7, <3>1 DEF Heard
  <2> QED BY <2>2, <2>3, <2>4, <2>5, <2>6 DEF Promised, Opens
<1> QED BY <1>9, <1>11, <1>12 DEF Orderly

(* A step that moves nothing the call rests on.                            *)
LEMMA Undisturbed ==
  ASSUME CardTypeOK, Orderly, Calm, UNCHANGED <<st, busy>>, conn # NoConn => conn' # NoConn
  PROVE  Orderly'
<1>1. conn' # NoConn => conn # NoConn
  BY DEF Calm, SameCard
<1>2. Opening' <=> Opening
  BY DEF Opening, Runs
<1>3. Authenticating' <=> Authenticating
  BY DEF Authenticating, Runs, Waits
<1>4. Earned
  BY <1>1, <1>2, <1>3 DEF Earned, Orderly, OldWishes, Promised
<1> QED BY <1>4, Carried

-----------------------------------------------------------------------------
(* The reader thread. *)

LEMMA ExecutesOne ==
  ASSUME Execute
  PROVE  /\ Head(cmds).op \in {"CREATE", "DROP", "UPDATE_RC", "PACE", "UNBLOCK", "DESTROY", "SET_PIN"}
         /\ Head(cmds).op = "CREATE" => ExecuteCreate
         /\ Head(cmds).op = "DROP" => ExecuteDrop
         /\ Head(cmds).op = "UPDATE_RC" => ExecuteUpdateRetryCounter
         /\ Head(cmds).op = "SET_PIN" => ExecuteSetEidPin
BY DEF Execute, Executes, ExecuteCreate, ExecuteDrop, ExecuteUpdateRetryCounter,
       ExecuteEstablishPaceChannel, ExecuteUnblockPin, ExecuteDestroyPaceChannel, ExecuteSetEidPin

(* Only the commands of the PACE states and of the card selection touch    *)
(* the channel.                                                            *)
LEMMA OtherKept ==
  ASSUME CardTypeOK, ExecuteOther, Head(cmds).op \notin ChannelOps
  PROVE  Kept
<1>1. chan' = chan
  BY DEF ExecuteOther, ChannelAfter, ChannelOps
<1>2. Head(cmds).op \in {"DROP", "UPDATE_RC", "SET_PIN"}
  BY ExecutesOne DEF ExecuteOther, ChannelOps
<1>3. CASE Head(cmds).op = "DROP"
  <2>1. ExecuteDrop
    BY <1>3, ExecutesOne DEF ExecuteOther
  <2>2. slot' = slot /\ \A r \in Readers : rd'[r] = rd[r] \/ rd'[r].handle = "closed"
    BY <2>1 DEF ExecuteDrop, worldVars, CardTypeOK, ReaderData, Closed
  <2> QED BY <1>1, <2>2 DEF Kept, Reach
<1>4. CASE Head(cmds).op = "UPDATE_RC"
  <2>1. ExecuteUpdateRetryCounter
    BY <1>4, ExecutesOne DEF ExecuteOther
  <2>2. /\ slot' = slot
        /\ \A r \in Readers : rd'[r].obj = rd[r].obj /\ rd'[r].handle = rd[r].handle
    <3>1. slot' = slot /\ (rd' = rd \/ \E r, k : rd' = [rd EXCEPT ![r].rc = k])
      BY <2>1 DEF ExecuteUpdateRetryCounter, worldVars
    <3>2. \A r \in Readers : rd[r] \in ReaderData
      BY DEF CardTypeOK
    <3>3. ASSUME NEW s, NEW k, rd' = [rd EXCEPT ![s].rc = k], NEW r \in Readers
          PROVE  rd'[r].obj = rd[r].obj /\ rd'[r].handle = rd[r].handle
      <4>1. rd'[r] = rd[r] \/ rd'[r] = [rd[r] EXCEPT !.rc = k]
        BY <3>3 DEF CardTypeOK
      <4> QED BY <3>2, <4>1 DEF ReaderData
    <3> QED BY <3>1, <3>3
  <2> QED BY <1>1, <2>2 DEF Kept, Reach
<1>5. CASE Head(cmds).op = "SET_PIN"
  <2>1. ExecuteSetEidPin
    BY <1>5, ExecutesOne DEF ExecuteOther
  <2>2. slot' = slot /\ rd' = rd
    BY <2>1 DEF ExecuteSetEidPin, worldVars
  <2> QED BY <1>1, <2>2 DEF Kept, Reach
<1> QED BY <1>2, <1>3, <1>4, <1>5

(* The commands of the authentication. *)
LEMMA EacAnswered ==
  ASSUME CardTypeOK, NEW op, NEW needs, NEW becomes, NEW refusal \in Codes,
         ExecuteEac(op, needs, becomes, refusal)
  PROVE  /\ cmds # <<>> /\ Head(cmds).op = op /\ cmds' = Tail(cmds)
         /\ UNCHANGED <<slot, rd, conn>>
         /\ \E m \in Reply :
              /\ msgs' = Append(msgs, m)
              /\ m.kind = op /\ m.reader = Head(cmds).reader /\ m.id = Head(cmds).id
              /\ \/ chan' = chan /\ (m.code = "OK" => refusal = "OK")
                 \/ chan' = [chan EXCEPT ![Head(cmds).reader] = becomes]
<1>1. /\ cmds # <<>> /\ Head(cmds).op = op /\ UNCHANGED <<slot, rd, conn>>
  BY DEF ExecuteEac, Executes, UnchangedByCommand, worldVars
<1>2. PICK code \in Codes :
        /\ Finish(code)
        /\ \/ chan' = chan /\ (code = "OK" => refusal = "OK")
           \/ chan' = [chan EXCEPT ![Head(cmds).reader] = becomes]
  BY DEF ExecuteEac, Codes
<1>3. /\ Answer(Head(cmds), code) \in Reply /\ Answer(Head(cmds), code).code = code
      /\ Answer(Head(cmds), code).kind = op
      /\ Answer(Head(cmds), code).reader = Head(cmds).reader
      /\ Answer(Head(cmds), code).id = Head(cmds).id
  BY <1>1, FirstCommand DEF Answer, Command, Reply
<1>4. cmds' = Tail(cmds) /\ msgs' = Append(msgs, Answer(Head(cmds), code))
  BY <1>2 DEF Finish
<1> QED BY <1>1, <1>2, <1>3, <1>4

LEMMA EacExecuted ==
  ASSUME TypeOK, Orderly, NEW op \in EacOps, NEW needs, NEW becomes, NEW refusal \in Codes,
         ExecuteEac(op, needs, becomes, refusal), UNCHANGED <<st, busy>>,
         op = "EAC1" => becomes \in {"pace", "eac1"},
         op = "EAC2" => becomes = "eac2" /\ refusal # "OK",
         op = "TRANSMIT" => becomes = "eac2"
  PROVE  Orderly'
<1>1. CardTypeOK /\ chan \in [Readers -> Channels]
  BY DEF TypeOK, Channels
<1>2. PICK m \in Reply :
        /\ msgs' = Append(msgs, m)
        /\ m.kind = op /\ m.reader = Head(cmds).reader /\ m.id = Head(cmds).id
        /\ \/ chan' = chan /\ (m.code = "OK" => refusal = "OK")
           \/ chan' = [chan EXCEPT ![Head(cmds).reader] = becomes]
  BY <1>1, EacAnswered
<1>3. cmds # <<>> /\ Head(cmds).op = op /\ cmds' = Tail(cmds) /\ UNCHANGED <<slot, rd, conn>>
  BY <1>1, EacAnswered
<1>4. cmds \in Seq(Command) /\ msgs \in Seq(Messages)
  BY <1>1 DEF CardTypeOK, Messages
<1>5. Calls(op, Head(cmds).reader, Head(cmds).id)
  <2>1. 1 \in Asked(CallOps, cmds) /\ cmds[1] = Head(cmds)
    BY <1>3, <1>4, TakenAlone, Parts DEF Orderly, OneCall, Alone
  <2> QED BY <1>3, <2>1 DEF Orderly, OneCall
<1>6. conn # NoConn /\ Head(cmds).reader = conn.reader /\ conn.reader \in Readers
  BY <1>1, <1>5 DEF Calls, CardTypeOK, Connection
<1>7. \A S : becomes \in S /\ chan' # chan => Chip(S)'
  BY <1>1, <1>2, <1>3, <1>6 DEF Chip
<1>8. \A S : Chip(S) /\ chan' = chan => Chip(S)'
  BY <1>3, Zenon DEF Chip, Reach
<1>9. op = "EAC2" /\ m.code = "OK" => Chip({"eac2"})'
  <2>1. op = "EAC2" /\ m.code = "OK" => chan'[conn.reader] = "eac2"
    BY <1>1, <1>2, <1>6
  <2> QED BY <1>3, <1>6, <2>1 DEF Chip
<1>10. op = "EAC1" => Chip({"pace", "eac1"})'
  <2>1. op = "EAC1" => Chip({"pace", "eac1"})
    BY <1>5 DEF Calls, Caller, Orderly, Promised, Authenticating, Waits
  <2> QED BY <1>7, <1>8, <2>1
<1>11. op = "TRANSMIT" => Chip({"eac2"})'
  <2>1. op = "TRANSMIT" => Chip({"eac2"})
    BY <1>5 DEF Calls, Caller, Orderly, Promised, Passed
  <2> QED BY <1>7, <1>8, <2>1
<1>12. FewerReplies(Due, msgs, msgs)
  BY <1>4, FewerRepliesKept
<1>13. op # "PACE"
  BY DEF EacOps
<1> QED BY <1>1, <1>2, <1>3, <1>4, <1>9, <1>10, <1>11, <1>12, <1>13, Parts, CallExecuted

(* A handle that is asked for resets the chip: by then nothing rests on    *)
(* its channel.                                                            *)
LEMMA CreateExecuted ==
  ASSUME CardTypeOK, Orderly, Executes("CREATE"), Fewer(Sent, cmds', cmds),
         FewerReplies(Due, msgs', msgs), UNCHANGED <<st, busy, conn>>
  PROVE  Orderly'
<1>1. st \notin AtCard /\ Heard({"PACE"}, msgs) = {}
  <2>1. 1 \in DOMAIN cmds /\ cmds[1] = Head(cmds)
    BY HeadTailProperties, LenProperties DEF Executes, CardTypeOK
  <2>2. 1 \in Asked({"CREATE"}, cmds)
    BY <2>1 DEF Executes, Asked
  <2> QED BY <2>2 DEF Orderly, OldWishes
<1>2. Heard({"EAC2"}, msgs) = {}
  <2>1. ASSUME NEW i \in Heard({"EAC2"}, msgs) PROVE FALSE
    <3>1. i \in Heard(CallOps, msgs) /\ msgs[i].kind = "EAC2"
      BY <2>1 DEF Heard, CallOps, EacOps
    <3>2. st = "DidAuthenticateEac2"
      BY <3>1 DEF Orderly, OneCall, Calls, Caller
    <3> QED BY <1>1, <3>2 DEF AtCard, CardStates
  <2> QED BY <2>1
<1>3. Heard({"PACE"}, msgs') = {} /\ Heard({"EAC2"}, msgs') = {}
  BY <1>1, <1>2, FewerPart, FewerNone, Parts
<1>4. Earned
  BY <1>1 DEF Earned, Orderly, OldWishes, Opening, Authenticating, Runs, Waits, AtCard, CardStates
<1>5. OneCall'
  BY FewerPart, Parts, OneCallKept DEF Orderly, SameCard
<1>6. OldWishes'
  BY <1>4, OldWishesKept DEF Orderly
<1>7. Promised'
  BY <1>1, <1>3 DEF Promised, Opening, Authenticating, Runs, Waits, AtCard, CardStates
<1> QED BY <1>5, <1>6, <1>7 DEF Orderly

(* What an executed command leaves in the queues of what is sent and due.  *)
LEMMA OtherQueues ==
  ASSUME CardTypeOK, ExecuteOther
  PROVE  /\ cmds # <<>> /\ cmds' = Tail(cmds) /\ UNCHANGED conn
         /\ Fewer(Sent, cmds', cmds)
         /\ Head(cmds).op \notin CallOps => FewerReplies(Due, msgs', msgs)
         /\ Head(cmds).op \in CallOps =>
              \E q \in Seq(Messages), m \in Reply :
                /\ msgs' = Append(q, m) /\ FewerReplies(Due, q, msgs)
                /\ m.kind = Head(cmds).op /\ m.reader = Head(cmds).reader /\ m.id = Head(cmds).id
<1>1. Execute /\ cmds \in Seq(Command) /\ msgs \in Seq(Messages)
  BY DEF ExecuteOther, CardTypeOK, Messages
<1>2. cmds # <<>> /\ cmds' = Tail(cmds) /\ conn' = conn
  BY <1>1, Answered
<1>3. Fewer(Sent, cmds', cmds) /\ FewerReplies(Due, msgs, msgs)
  BY <1>1, <1>2, FewerCommands, FewerRepliesKept
<1>4. CASE msgs' = msgs /\ ExecuteDrop
  <2>1. Head(cmds).op \notin CallOps
    BY <1>4 DEF ExecuteDrop, Executes, CallOps, EacOps
  <2> QED BY <1>2, <1>3, <1>4, <2>1
<1>5. ASSUME NEW m \in Reply,
             m.kind = Head(cmds).op /\ m.reader = Head(cmds).reader /\ m.id = Head(cmds).id,
             msgs' = Append(msgs, m)
      PROVE  /\ Head(cmds).op \notin CallOps => FewerReplies(Due, msgs', msgs)
             /\ Head(cmds).op \in CallOps =>
                  \E q \in Seq(Messages), n \in Reply :
                    /\ msgs' = Append(q, n) /\ FewerReplies(Due, q, msgs)
                    /\ n.kind = Head(cmds).op /\ n.reader = Head(cmds).reader /\ n.id = Head(cmds).id
  <2>1. Head(cmds).op # "CALL"
    BY <1>1, <1>2, FirstCommand DEF Command, CommandOps, CardTypeOK
  <2>2. Head(cmds).op \notin CallOps => FewerReplies(Due, msgs', msgs)
    BY <1>1, <1>5, <2>1, FewerRepliesKept DEF Due
  <2> QED BY <1>1, <1>3, <1>5, <2>2
<1>6. ASSUME NEW m \in Reply, NEW e \in Event,
             m.kind = Head(cmds).op /\ m.reader = Head(cmds).reader /\ m.id = Head(cmds).id,
             ExecuteUpdateRetryCounter, msgs' = Append(Append(msgs, e), m)
      PROVE  /\ Head(cmds).op \in CallOps
             /\ \E q \in Seq(Messages), n \in Reply :
                  /\ msgs' = Append(q, n) /\ FewerReplies(Due, q, msgs)
                  /\ n.kind = Head(cmds).op /\ n.reader = Head(cmds).reader /\ n.id = Head(cmds).id
  <2>1. e \in Messages /\ e \notin Reply
    BY DEF Messages, Event, Reply, CommandOps
  <2>2. Append(msgs, e) \in Seq(Messages) /\ FewerReplies(Due, Append(msgs, e), msgs)
    BY <1>1, <2>1, Queues, FewerRepliesKept
  <2>3. Head(cmds).op \in CallOps
    BY <1>6 DEF ExecuteUpdateRetryCounter, Executes, CallOps
  <2> QED BY <1>6, <2>2, <2>3
<1> QED BY <1>1, <1>2, <1>3, <1>4, <1>5, <1>6, Answered

LEMMA OtherExecuted ==
  ASSUME TypeOK, Orderly, ExecuteOther, UNCHANGED <<st, busy>>
  PROVE  Orderly'
<1>1. CardTypeOK /\ chan \in [Readers -> Channels]
  BY DEF TypeOK, Channels
<1>2. cmds # <<>> /\ cmds' = Tail(cmds) /\ conn' = conn /\ Fewer(Sent, cmds', cmds)
  BY <1>1, OtherQueues
<1>3. Head(cmds).op \in {"CREATE", "DROP", "UPDATE_RC", "PACE", "UNBLOCK", "DESTROY", "SET_PIN"}
  BY ExecutesOne DEF ExecuteOther
<1>4. CASE Head(cmds).op \in CallOps
  <2>1. PICK q \in Seq(Messages), m \in Reply :
          /\ msgs' = Append(q, m) /\ FewerReplies(Due, q, msgs)
          /\ m.kind = Head(cmds).op /\ m.reader = Head(cmds).reader /\ m.id = Head(cmds).id
    BY <1>1, <1>4, OtherQueues
  <2>2. Head(cmds).op \notin EacOps
    BY <1>3 DEF EacOps
  <2>3. ASSUME Head(cmds).op = "PACE", m.code = "OK", Opens(m.id) PROVE Chip({"pace"})'
    <3>1. 1 \in Asked(CallOps, cmds) /\ cmds[1] = Head(cmds)
      BY <1>1, <1>2, <1>4, TakenAlone DEF Orderly, OneCall, Alone, CardTypeOK
    <3>2. conn # NoConn /\ Head(cmds).reader = conn.reader
      BY <3>1 DEF Orderly, OneCall, Calls
    <3>3. msgs'[Len(msgs')] = m
      BY <2>1, AppendProperties
    <3>4. chan' = [chan EXCEPT ![Head(cmds).reader] = "pace"]
      BY <2>1, <2>3, <3>3 DEF ExecuteOther, ChannelAfter, Opens
    <3>5. conn.reader \in Readers
      BY <1>1, <3>2 DEF CardTypeOK, Connection
    <3> QED BY <1>1, <1>2, <3>2, <3>4, <3>5 DEF Chip
  <2> QED BY <1>1, <1>2, <1>4, <2>1, <2>2, <2>3, CallExecuted DEF EacOps
<1>5. CASE Head(cmds).op = "CREATE"
  <2>1. FewerReplies(Due, msgs', msgs)
    BY <1>1, <1>5, OtherQueues DEF CallOps, EacOps
  <2> QED BY <1>1, <1>2, <1>5, <2>1, CreateExecuted DEF Executes
<1>6. CASE Head(cmds).op \in {"DROP", "SET_PIN"}
  <2>1. FewerReplies(Due, msgs', msgs) /\ Kept
    BY <1>1, <1>6, OtherQueues, OtherKept DEF CallOps, EacOps, ChannelOps
  <2> QED BY <1>1, <1>2, <2>1, Undisturbed DEF Calm, SameCard
<1> QED BY <1>3, <1>4, <1>5, <1>6 DEF CallOps

LEMMA ExecutingOrderly ==
  ASSUME TypeOK, Orderly, Executing
  PROVE  Orderly'
<1>1. UNCHANGED <<st, busy>>
  BY DEF Executing, paceVars, controlVars
<1>2. "OK" \in Codes /\ "PROTOCOL_ERROR" \in Codes /\ "UNEXPECTED_TRANSMIT_STATUS" \in Codes
  BY DEF Codes
<1>3. "EAC1" \in EacOps /\ "EAC2" \in EacOps /\ "TRANSMIT" \in EacOps
  BY DEF EacOps
<1>4. CASE ExecuteDidAuthenticateEAC1
  BY <1>1, <1>2, <1>3, <1>4, EacExecuted DEF ExecuteDidAuthenticateEAC1
<1>5. CASE ExecuteDidAuthenticateEAC2
  BY <1>1, <1>2, <1>3, <1>5, EacExecuted DEF ExecuteDidAuthenticateEAC2
<1>6. CASE ExecuteTransmit
  BY <1>1, <1>2, <1>3, <1>6, EacExecuted DEF ExecuteTransmit
<1> QED BY <1>1, <1>4, <1>5, <1>6, OtherExecuted DEF Executing

(* A handle is only open while its card is in the slot.                    *)
HandlesLive == \A r \in Readers : rd[r].handle = "open" => slot[r] # NoCard

(* The user's hands and the timer of the reader thread.                    *)
LEMMA EnvironmentCalm ==
  ASSUME CardTypeOK, HandlesLive, Environment
  PROVE  Calm /\ conn' = conn
<1>1. cmds \in Seq(Command) /\ msgs \in Seq(Messages)
  BY DEF CardTypeOK, Messages
<1>2. chan' = chan
  BY DEF Environment, authVars
<1>3. CASE World
  <2>1. cmds' = cmds /\ msgs' = msgs /\ conn' = conn
    BY <1>3 DEF World, TakeCard, PutCard, readerVars
  <2>2. ASSUME NEW r \in Readers, Reach(r)' PROVE Reach(r)
    <3>1. ASSUME NEW s \in Readers, TakeCard(s) PROVE Reach(r)
      BY <2>2, <3>1 DEF TakeCard, Reach, CardTypeOK, ReaderData, Broken
    <3>2. ASSUME NEW s \in Readers, NEW c \in Cards, PutCard(s, c) PROVE Reach(r)
      BY <2>2, <3>2 DEF PutCard, Reach, CardTypeOK, HandlesLive, readerVars
    <3> QED BY <1>3, <3>1, <3>2 DEF World
  <2> QED BY <1>1, <1>2, <2>1, <2>2, FewerCommands, FewerRepliesKept DEF Calm, Kept, SameCard
<1>4. ASSUME NEW s \in Readers, Update(s) PROVE Calm /\ conn' = conn
  <2>1. /\ cmds' = cmds /\ conn' = conn /\ slot' = slot
        /\ \E type, k : msgs' = Append(msgs, Signal(type, s, k))
    BY <1>4 DEF Update, worldVars
  <2>2. \A type, k : Signal(type, s, k) \notin Reply
    BY DEF Signal, Reply
  <2>3. \A r \in Readers : Reach(r)' => Reach(r)
    <3>1. \A r \in Readers : rd'[r].handle # "closed" => rd'[r] = rd[r]
      BY <1>4, UpdateHandles
    <3> QED BY <2>1, <3>1 DEF Reach
  <2>4. FewerReplies(Due, msgs', msgs)
    BY <1>1, <2>1, <2>2, FewerRepliesKept
  <2> QED BY <1>1, <1>2, <2>1, <2>3, <2>4, FewerCommands DEF Calm, Kept, SameCard
<1> QED BY <1>3, <1>4 DEF Environment

-----------------------------------------------------------------------------
(* The composite state. *)

(* A state that has run without a look at the card.                        *)
LEMMA IdleRun ==
  ASSUME Orderly, ~busy \/ st \notin Callers, UNCHANGED <<cmds, msgs, conn>>, st' \notin AtCard,
         \/ st' \in {"ConnectCard", "UpdateRetryCounter"}
         \/ conn = NoConn
         \/ st \notin {"ConnectCard", "UpdateRetryCounter"}
  PROVE  Orderly'
<1>1. Uncalled
  BY NothingCalled DEF Orderly
<1>2. Uncalled'
  BY <1>1 DEF Uncalled
<1> QED BY <1>2, Idle DEF Orderly, OldWishes

(* Closing the connection leaves nothing to rely on.                       *)
LEMMA ResetOrderly ==
  ASSUME TypeOK, NEW queue \in Seq(Messages), ResetCardConnection(queue),
         Heard(CallOps, queue) = {}, st' \notin AtCard
  PROVE  Orderly'
<1>1. CardTypeOK /\ readerName \in Readers \cup {NoReader}
  BY DEF TypeOK, ContextTypeOK
<1>2. FewerReplies(CallOps, msgs', queue)
  BY <1>1, ResetReplies
<1>3. Heard(CallOps, msgs') = {}
  BY <1>2, FewerNone
<1>4. conn' = NoConn /\ cmds' = <<>>
  BY DEF ResetCardConnection
<1>5. Uncalled'
  BY <1>3, <1>4 DEF Uncalled, Asked
<1> QED BY <1>4, <1>5, Idle

LEMMA PaceStatesApart ==
  /\ PaceStates \cap AtCard = {} /\ PaceStates \cap Callers \subseteq
       {"UpdateRetryCounter", "EstablishPaceChannel", "DestroyPaceAfterPuk"}
  /\ "PacePukEstablished" \notin AtCard /\ "CleanUpReaderManager" \notin AtCard
BY DEF PaceStates, AtCard, Opened, Between, Passed, CardStates, Callers

LEMMA RunPaceOrderly ==
  ASSUME TypeOK, Orderly, RunPace, UNCHANGED authVars,
         st \notin {"ClearPacePasswordsOnError", "PaceAbort"},
         status = "NoError", status' = "NoError"
  PROVE  Orderly' /\ st' \notin {"ClearPacePasswordsOnError", "PaceAbort"}
<1> DEFINE Fine == st' \notin {"ClearPacePasswordsOnError", "PaceAbort"}
<1> USE PaceStatesApart DEF Runs, Goto, Wait, UnchangedReader, cardVars
<1>0. CardTypeOK /\ msgs \in Seq(Messages) /\ chan' = chan
  BY DEF TypeOK, CardTypeOK, Messages, authVars
<1>1. CASE RunMaintainCardConnection
  <2>1. ~MaintainAborts
    BY DEF MaintainAborts, MustAbort, UpdateStatus, StatusOf, Unrecoverable
  <2>2. Uncalled
    BY <1>1, NothingCalled DEF RunMaintainCardConnection, Orderly
  <2>3. CASE MaintainAfterCardGone
    <3>1. st' = "SelectReader" /\ ResetCardConnection(msgs) /\ Heard(CallOps, msgs) = {}
      BY <2>2, <2>3 DEF MaintainAfterCardGone, Uncalled
    <3>2. st' \notin AtCard
      BY <3>1 DEF PaceStates
    <3> QED BY <1>0, <3>1, <3>2, ResetOrderly
  <2>4. CASE MaintainAfterWrongPassword \/ MaintainProceeds
    <3>1. /\ ~busy /\ st = "MaintainCardConnection" /\ UNCHANGED <<cmds, msgs, conn>>
          /\ st' \in {"UpdateRetryCounter", "SelectReader", "VerifyRetryCounter"}
      BY <1>1, <2>4 DEF RunMaintainCardConnection, MaintainAfterWrongPassword, MaintainProceeds
    <3>2. st' \in PaceStates /\ Fine
      BY <3>1 DEF PaceStates
    <3> QED BY <3>1, <3>2, IdleRun
  <2> QED BY <1>1, <2>1, <2>3, <2>4 DEF RunMaintainCardConnection
<1>2. CASE RunSelectReader
  <2>1. /\ ~busy /\ st = "SelectReader" /\ UNCHANGED <<cmds, msgs, conn>>
        /\ st' \in {"SelectReader", "ConnectCard"}
    BY <1>2 DEF RunSelectReader, SelectReaderNow
  <2>2. st' \in PaceStates /\ Fine
    BY <2>1 DEF PaceStates
  <2> QED BY <2>1, <2>2, IdleRun
<1>3. CASE RunConnectCard
  <2>1. /\ ~busy /\ st' = "ConnectCard" /\ cmds' = cmds
        /\ msgs' = msgs \/ msgs' = Append(msgs, CreateCall)
    BY <1>3 DEF RunConnectCard, ConnectIfCard
  <2>2. Uncalled
    BY <2>1, NothingCalled DEF Orderly
  <2>3. FewerReplies(CallOps, msgs', msgs)
    BY <1>0, <2>1, FewerRepliesKept DEF CreateCall, CallOps, EacOps
  <2>4. Uncalled'
    BY <2>1, <2>2, <2>3, FewerNone DEF Uncalled
  <2> QED BY <2>1, <2>4, Idle DEF PaceStates
<1>4. CASE FinishConnectCard
  <2>1. st = "ConnectCard" /\ st' = "UpdateRetryCounter" /\ cmds' = cmds /\ msgs' = Disown(msgs)
    BY <1>4 DEF FinishConnectCard
  <2>2. Uncalled
    BY <2>1, NothingCalled DEF Orderly, Callers, CardStates
  <2>3. FewerReplies(CallOps, msgs', msgs)
    BY <1>0, <2>1, FewerRepliesKept
  <2>4. Uncalled'
    BY <2>1, <2>2, <2>3, FewerNone DEF Uncalled
  <2> QED BY <2>1, <2>4, Idle DEF PaceStates
<1>5. CASE RunUpdateRetryCounter
  <2>1. CASE conn = NoConn /\ st' = "MaintainCardConnection" /\ UNCHANGED <<cmds, msgs, conn>>
    <3>1. ~busy /\ st' \in PaceStates
      BY <1>5, <2>1 DEF RunUpdateRetryCounter, RunUpdate, PaceStates
    <3> QED BY <2>1, <3>1, IdleRun
  <2>2. CASE conn # NoConn /\ PostUpdateRetryCounter /\ st' = st /\ busy'
    <3>1. ~busy /\ st = "UpdateRetryCounter"
      BY <1>5 DEF RunUpdateRetryCounter, RunUpdate
    <3>2. Uncalled
      BY <3>1, NothingCalled DEF Orderly
    <3>3. st' \notin AtCard /\ st' \in Caller("UPDATE_RC") /\ "UPDATE_RC" \in CallOps
      BY <2>2, <3>1 DEF PaceStates, Caller, CallOps
    <3>4. Earned
      BY <2>2, <3>1, <3>3 DEF Earned, Opening, Authenticating, Runs, Waits, AtCard, CardStates
    <3>5. Post("UPDATE_RC", "UNKNOWN", NoPassword)
      BY <2>2 DEF PostUpdateRetryCounter
    <3> QED BY <1>0, <2>2, <3>1, <3>2, <3>3, <3>4, <3>5, Posted
  <2> QED BY <1>5, <2>1, <2>2 DEF RunUpdateRetryCounter, RunUpdate
<1>6. CASE RunVerifyRetryCounter \/ RunPreparePace \/ RunUnfortunateCardPosition
           \/ RunClearPacePasswordsBeforeDestroy
  <2>1. /\ ~busy /\ st \notin {"ConnectCard", "UpdateRetryCounter"}
        /\ UNCHANGED <<cmds, msgs, conn>>
        /\ st' \in {"MaintainCardConnection", "PreparePace", "EnterPacePassword",
                   "EstablishPaceChannel", "DestroyPaceAfterPuk"}
    BY <1>6
       DEF RunVerifyRetryCounter, RunPreparePace, Demand, RunUnfortunateCardPosition,
           RunClearPacePasswordsBeforeDestroy
  <2>2. st' \in PaceStates /\ Fine
    BY <2>1 DEF PaceStates
  <2> QED BY <2>1, <2>2, IdleRun
<1>7. CASE RunEstablishPaceChannel
  <2>1. ~busy /\ st = "EstablishPaceChannel"
    BY <1>7 DEF RunEstablishPaceChannel
  <2>2. CASE st' = "MaintainCardConnection" /\ UNCHANGED <<cmds, msgs, conn>>
    <3>1. st' \in PaceStates
      BY <2>2 DEF PaceStates
    <3> QED BY <2>1, <2>2, <3>1, IdleRun
  <2>3. CASE conn # NoConn /\ EstablishWithPassword
    <3>1. PICK op \in {"UNBLOCK", "PACE"} :
            Post(op, idType, Secret) /\ (op = "UNBLOCK" => idType = "PUK")
      BY <2>3 DEF EstablishWithPassword
    <3>2. busy' /\ st' = st
      BY <2>3 DEF EstablishWithPassword
    <3>3. Uncalled
      BY <2>1, NothingCalled DEF Orderly
    <3>4. st' \notin AtCard /\ st' \in Caller(op) /\ op \in CallOps
      BY <2>1, <3>2 DEF PaceStates, Caller, CallOps
    <3>5. Earned
      BY <2>1, <3>1, <3>2, <3>4
         DEF Earned, Opening, Authenticating, Runs, Waits, AtCard, CardStates, Post, Orderly, OldWishes
    <3> QED BY <1>0, <2>1, <2>3, <3>1, <3>2, <3>3, <3>4, <3>5, Posted
  <2> QED BY <1>7, <2>2, <2>3 DEF RunEstablishPaceChannel, EstablishWithoutPassword
<1>8. CASE RunDestroyPaceAfterPuk
  <2>1. /\ ~busy /\ st = "DestroyPaceAfterPuk" /\ busy' /\ st' = st /\ conn # NoConn
        /\ Post("DESTROY", "UNKNOWN", NoPassword)
    BY <1>8 DEF RunDestroyPaceAfterPuk, RunDestroy
  <2>2. Uncalled
    BY <2>1, NothingCalled DEF Orderly
  <2>3. st' \notin AtCard /\ st' \in Caller("DESTROY") /\ "DESTROY" \in CallOps
    BY <2>1 DEF PaceStates, Caller, CallOps
  <2>4. Earned
    BY <2>1, <2>3
       DEF Earned, Opening, Authenticating, Runs, Waits, AtCard, CardStates, Post, Orderly, OldWishes
  <2> QED BY <1>0, <2>1, <2>2, <2>3, <2>4, Posted
<1>9. ~RunClearPacePasswordsOnError
  BY DEF RunClearPacePasswordsOnError
<1> QED BY <1>1, <1>2, <1>3, <1>4, <1>5, <1>6, <1>7, <1>8, <1>9 DEF RunPace

(* A reply to its caller, or the news that nobody waits for.               *)
LEMMA TakenQueues ==
  ASSUME CardTypeOK, msgs # <<>>
  PROVE  /\ cmds \in Seq(Command) /\ Tail(msgs) \in Seq(Messages)
         /\ Fewer(Sent, cmds, cmds) /\ FewerReplies(Due, Tail(msgs), msgs)
         /\ Heard({"CALL"}, msgs) = {} => Heard({"CALL"}, Tail(msgs)) = {}
<1>1. /\ cmds \in Seq(Command) /\ Tail(msgs) \in Seq(Messages)
      /\ FewerReplies(Due, Tail(msgs), msgs) /\ FewerReplies({"CALL"}, Tail(msgs), msgs)
  BY FirstMessage, TakenMessage DEF CardTypeOK
<1> QED BY <1>1, FewerCommands, FewerNone

(* A caller that goes on where nothing is taken for granted. *)
LEMMA IdleReply ==
  ASSUME CardTypeOK, Orderly, msgs # <<>>, Head(msgs).kind \in CallOps,
         cmds' = cmds, msgs' = Tail(msgs), conn' # NoConn => conn # NoConn, st' \notin AtCard
  PROVE  Orderly'
<1>1. Uncalled'
  BY Taken DEF Uncalled
<1>2. Calls(Head(msgs).kind, Head(msgs).reader, Head(msgs).id)
  BY Taken
<1>3. st = "UpdateRetryCounter" => Head(msgs).kind = "UPDATE_RC"
  BY <1>2 DEF Calls, Caller, CardStates, CallOps, EacOps
<1>4. st # "ConnectCard"
  BY <1>2, CallersApart DEF Calls
<1>5. conn' # NoConn => Heard({"CALL"}, msgs) = {}
  BY <1>3, <1>4, Taken DEF Orderly, OldWishes
<1>6. conn' # NoConn => Heard({"CALL"}, msgs') = {}
  BY <1>5, TakenQueues
<1> QED BY <1>1, <1>6, Idle

LEMMA DeliverCallOrderly ==
  ASSUME TypeOK, Orderly, DeliverCall, UNCHANGED authVars
  PROVE  Orderly'
<1>1. CardTypeOK /\ msgs \in Seq(Messages) /\ cmds \in Seq(Command) /\ msgs # <<>>
  BY DEF TypeOK, CardTypeOK, Messages, DeliverCall
<1>2. /\ cmds' = Append(cmds, ReaderCommand("CREATE", Head(msgs).reader, Head(msgs).mine))
      /\ msgs' = Tail(msgs) /\ UNCHANGED <<conn, st, busy>>
  BY DEF DeliverCall, paceVars, controlVars
<1>3. ReaderCommand("CREATE", Head(msgs).reader, Head(msgs).mine).op = "CREATE"
  BY DEF ReaderCommand
<1>4. "CREATE" \notin CallOps
  BY DEF CallOps, EacOps
<1>5. Fewer(CallOps, cmds', cmds) /\ FewerReplies(Due, msgs', msgs)
  BY <1>1, <1>2, <1>3, <1>4, FewerCommands, TakenQueues
<1>6. FewerReplies(CallOps, msgs', msgs)
  BY <1>5, FewerPart, Parts
<1>7. OneCall'
  BY <1>2, <1>5, <1>6, OneCallKept DEF Orderly, SameCard
<1>8. conn = NoConn \/ st \in {"ConnectCard", "UpdateRetryCounter"}
  <2>1. Head(msgs) \in Reply /\ msgs[1] = Head(msgs) /\ 1 \in DOMAIN msgs
    BY <1>1, FirstMessage, HeadTailProperties, LenProperties DEF DeliverCall
  <2>2. 1 \in Heard({"CALL"}, msgs)
    BY <2>1 DEF Heard, DeliverCall
  <2> QED BY <2>2 DEF Orderly, OldWishes
<1>9. st \notin AtCard
  BY <1>8, CallersApart DEF Orderly, OldWishes, AtCard, Opened, Between, Passed, CardStates
<1>10. \A op, r, id : Calls(op, r, id) => op = "UPDATE_RC" \/ op \notin CallOps
  BY <1>8 DEF Calls, Caller, CallOps, EacOps
<1>11. Asked({"PACE"}, cmds') = {} /\ Heard({"PACE"}, msgs') = {} /\ Heard({"EAC2"}, msgs') = {}
  <2>1. \A i \in Asked(CallOps, cmds') : cmds'[i].op = "UPDATE_RC"
    BY <1>2, <1>7, <1>10 DEF OneCall, Calls, Asked
  <2>2. \A i \in Heard(CallOps, msgs') : msgs'[i].kind = "UPDATE_RC"
    BY <1>2, <1>7, <1>10 DEF OneCall, Calls, Heard
  <2> QED BY <2>1, <2>2 DEF Asked, Heard, CallOps, EacOps
<1>12. OldWishes'
  BY <1>2, <1>5, <1>8, <1>9, <1>11, OldCallKept DEF OldWishes, Orderly
<1>13. Promised'
  BY <1>2, <1>9, <1>11 DEF Promised, Opening, Authenticating, Runs, Waits, AtCard, CardStates
<1> QED BY <1>7, <1>12, <1>13 DEF Orderly

LEMMA DeliverCreateOrderly ==
  ASSUME TypeOK, SelectsFree, Orderly, DeliverCreate, UNCHANGED authVars
  PROVE  Orderly' /\ (st' = st \/ st' = "MaintainCardConnection")
<1> DEFINE m == Head(msgs)
<1>1. CardTypeOK /\ msgs \in Seq(Messages) /\ cmds \in Seq(Command) /\ msgs # <<>>
  BY DEF TypeOK, CardTypeOK, Messages, DeliverCreate
<1>2. UNCHANGED <<slot, rd, chan>> /\ AtRest
  BY DEF DeliverCreate, worldVars, authVars
<1>3. CASE ~m.mine /\ cmds' = DropUnclaimed(cmds, m) /\ msgs' = Tail(msgs)
           /\ UNCHANGED <<st, busy, conn>>
  <2>1. cmds' = cmds \/ cmds' = Append(cmds, ReaderCommand("DROP", m.reader, FALSE))
    BY <1>3 DEF DropUnclaimed
  <2>2. ReaderCommand("DROP", m.reader, FALSE).op \notin Sent
    BY DEF ReaderCommand, Sent, CallOps, EacOps
  <2>3. Fewer(Sent, cmds', cmds)
    BY <1>1, <2>1, <2>2, FewerCommands
  <2>4. Calm
    BY <1>1, <1>2, <1>3, <2>3, TakenQueues DEF Calm, Kept, Reach, SameCard
  <2> QED BY <1>1, <1>3, <2>4, Undisturbed
<1>4. CASE /\ Waits("ConnectCard") /\ st' = "MaintainCardConnection"
           /\ cmds' = Disown(cmds) /\ msgs' = Disown(Tail(msgs)) /\ conn' = conn
  <2>1. Uncalled
    BY <1>4, NothingCalled DEF Orderly, Waits, Callers, CardStates
  <2>2. Fewer(CallOps, cmds', cmds) /\ FewerReplies(CallOps, msgs', msgs)
    BY <1>1, <1>4, FewerCommands, TakenMessage
  <2>3. Uncalled'
    BY <2>1, <2>2, FewerNone DEF Uncalled
  <2>4. conn' = NoConn
    BY <1>2, <1>4 DEF SelectsFree, AtRest, Waits
  <2>5. st' \notin AtCard
    BY <1>4, PaceStatesApart DEF PaceStates
  <2> QED BY <1>4, <2>3, <2>4, <2>5, Idle
<1>5. CASE Waits("ConnectCard") /\ msgs' = Tail(msgs) /\ UNCHANGED <<st, busy, cmds>>
  <2>1. Uncalled
    BY <1>5, NothingCalled DEF Orderly, Waits, Callers, CardStates
  <2>2. FewerReplies(CallOps, msgs', msgs)
    BY <1>1, <1>5, TakenMessage
  <2>3. Uncalled'
    BY <1>5, <2>1, <2>2, FewerNone DEF Uncalled
  <2> QED BY <1>5, <2>3, Idle, CallersApart DEF Waits
<1> QED BY <1>3, <1>4, <1>5 DEF DeliverCreate, Goto

(* A signal changes what the connection remembers, not the card it is to.  *)
LEMMA SignalSameCard ==
  ASSUME CardTypeOK, msgs # <<>>, Head(msgs).kind \in {"inserted", "removed", "counter"},
         conn' = IF Head(msgs).conn /\ conn # NoConn THEN [conn EXCEPT !.rc = Head(msgs).rc]
                 ELSE conn
  PROVE  SameCard /\ (conn # NoConn <=> conn' # NoConn)
<1>1. conn # NoConn => conn \in Connection
  BY DEF CardTypeOK
<1>2. conn # NoConn /\ conn' = [conn EXCEPT !.rc = Head(msgs).rc]
        => conn' \in Connection /\ conn'.reader = conn.reader
  <2>1. Head(msgs).rc \in RetryCounters
    BY FirstMessage
  <2> QED BY <1>1, <2>1 DEF Connection
<1> QED BY <1>2, ConnectionAssumption DEF SameCard

LEMMA DeliverEventOrderly ==
  ASSUME TypeOK, Orderly, DeliverEvent, UNCHANGED authVars
  PROVE  Orderly' /\ (st' = st \/ st' = "ConnectCard")
<1>1. CardTypeOK /\ msgs \in Seq(Messages) /\ cmds \in Seq(Command) /\ msgs # <<>>
  BY DEF TypeOK, CardTypeOK, Messages, DeliverEvent
<1>2. UNCHANGED <<slot, rd, chan, cmds>>
  BY DEF DeliverEvent, worldVars, authVars
<1>3. SameCard /\ (conn # NoConn <=> conn' # NoConn)
  BY <1>1, SignalSameCard DEF DeliverEvent
<1>4. CASE st = "SelectReader" /\ msgs' = Tail(msgs) /\ st' \in {"SelectReader", "ConnectCard"}
  <2>1. Uncalled
    BY <1>4, NothingCalled DEF Orderly, Callers, CardStates
  <2>2. FewerReplies(CallOps, msgs', msgs)
    BY <1>1, <1>4, TakenMessage
  <2>3. Uncalled'
    BY <1>2, <2>1, <2>2, FewerNone DEF Uncalled
  <2>4. conn' # NoConn => Heard({"CALL"}, msgs') = {}
    BY <1>1, <1>3, <1>4, TakenQueues DEF Orderly, OldWishes
  <2> QED BY <1>4, <2>3, <2>4, Idle, CallersApart
<1>5. CASE st = "ConnectCard" /\ ConnectIfCard(Tail(msgs)) /\ UNCHANGED <<st, busy>>
  <2>1. Uncalled
    BY <1>5, NothingCalled DEF Orderly, Callers, CardStates
  <2>2. msgs' = Tail(msgs) \/ msgs' = Append(Tail(msgs), CreateCall)
    BY <1>5 DEF ConnectIfCard
  <2>3. FewerReplies(CallOps, msgs', msgs)
    BY <1>1, <2>2, TakenMessage DEF CreateCall, CallOps, EacOps
  <2>4. Uncalled'
    BY <1>2, <2>1, <2>3, FewerNone DEF Uncalled
  <2> QED BY <1>5, <2>4, Idle, CallersApart
<1>6. CASE msgs' = Tail(msgs) /\ UNCHANGED <<st, busy>>
  <2>1. Calm
    BY <1>1, <1>2, <1>3, <1>6, TakenQueues DEF Calm, Kept, Reach
  <2> QED BY <1>1, <1>3, <1>6, <2>1, Undisturbed
<1> QED BY <1>4, <1>5, <1>6 DEF DeliverEvent, SelectReaderNow, Goto, Wait

(* The result of a channel changes what the connection remembers, not the  *)
(* card it is to.                                                          *)
LEMMA ResultSameCard ==
  ASSUME CardTypeOK, NEW m, conn' = WithPaceResult(conn, m)
  PROVE  SameCard /\ (conn # NoConn <=> conn' # NoConn)
<1>1. CASE conn = NoConn
  BY <1>1 DEF WithPaceResult, SameCard
<1>2. CASE conn # NoConn
  <2>1. conn \in Connection
    BY <1>2 DEF CardTypeOK
  <2>2. conn' = conn \/ conn' = [conn EXCEPT !.can = (m.code = "OK")]
        \/ conn' = [conn EXCEPT !.pin = (m.code = "OK"), !.can = @ /\ m.code = "OK"]
    BY <1>2 DEF WithPaceResult
  <2>3. conn' \in Connection /\ conn'.reader = conn.reader
    <3>1. (m.code = "OK") \in BOOLEAN /\ (conn.can /\ m.code = "OK") \in BOOLEAN
      OBVIOUS
    <3> QED BY <2>1, <2>2, <3>1 DEF Connection
  <2> QED BY <1>2, <2>3, ConnectionAssumption DEF SameCard
<1> QED BY <1>1, <1>2

LEMMA DeliverPaceOrderly ==
  ASSUME TypeOK, Orderly, DeliverPace, UNCHANGED authVars
  PROVE  Orderly' /\ st' \notin {"ClearPacePasswordsOnError", "PaceAbort"}
<1> DEFINE m == Head(msgs)
<1>1. CardTypeOK /\ msgs # <<>> /\ m.kind \in {"PACE", "UNBLOCK"} /\ m.kind \in CallOps
  BY DEF TypeOK, DeliverPace, DeliversPace, PaceReply, CallOps
<1>2. Calls(m.kind, m.reader, m.id) /\ Tail(msgs) \in Seq(Messages)
  BY <1>1, Taken, TakenQueues
<1>3. CASE PaceCardGone
  <2>1. ResetCardConnection(Tail(msgs)) /\ st' \in {"MaintainCardConnection", "UnfortunateCardPosition"}
    BY <1>3 DEF PaceCardGone, Goto
  <2>2. st' \notin AtCard
    BY <2>1, PaceStatesApart DEF PaceStates
  <2> QED BY <1>1, <1>2, <2>1, <2>2, Taken, ResetOrderly
<1>4. CASE PaceDone \/ PaceFailed
  <2>1. /\ UNCHANGED <<cmds, slot, rd, chan>> /\ msgs' = Tail(msgs) /\ conn' = WithPaceResult(conn, m)
        /\ st' \in {"MaintainCardConnection", "ClearPacePasswordsBeforeDestroy", "PaceChannelEstablished"}
        /\ st' = "PaceChannelEstablished" => m.code = "OK" /\ Opens(m.id) /\ m.id # "PUK"
    BY <1>4 DEF PaceDone, PaceFailed, Goto, worldVars, authVars, Opens
  <2>2. SameCard /\ (conn # NoConn <=> conn' # NoConn)
    BY <1>1, <2>1, ResultSameCard
  <2>3. CASE st' = "PaceChannelEstablished"
    <3>1. m.kind = "PACE"
      BY <1>1, <1>2, <2>1, <2>3 DEF Calls
    <3>2. st = "EstablishPaceChannel" /\ conn # NoConn
      BY <1>2, <3>1 DEF Calls, Caller
    <3>3. Earned
      <4>1. Heard({"CALL"}, msgs) = {}
        BY <3>2 DEF Orderly, OldWishes
      <4>2. Asked({"CREATE"}, cmds) = {} /\ Chip({"pace"})
        BY <1>1, <2>1, <2>3, <3>1, Taken
      <4>3. ~Authenticating' /\ st' \notin Passed
        BY <2>3 DEF Authenticating, Runs, Waits, Between, Passed
      <4> QED BY <2>2, <3>2, <4>1, <4>2, <4>3 DEF Earned
    <3>4. Calm
      BY <1>1, <2>1, <2>2, TakenQueues DEF Calm, Kept, Reach
    <3>5. Uncalled'
      BY <1>1, <2>1, Taken DEF Uncalled
    <3> QED BY <1>1, <2>3, <3>3, <3>4, <3>5, Carried
  <2>4. CASE st' # "PaceChannelEstablished"
    <3>1. st' \notin AtCard
      BY <2>1, <2>4, PaceStatesApart DEF PaceStates
    <3> QED BY <1>1, <2>1, <2>2, <3>1, IdleReply
  <2> QED BY <2>3, <2>4
<1> QED BY <1>3, <1>4 DEF DeliverPace

LEMMA DeliverUpdateOrderly ==
  ASSUME TypeOK, Orderly, NEW s, NEW onContinue \in States \ AtCard, NEW onAbort \in States \ AtCard,
         DeliverUpdate(s, onContinue, onAbort)
  PROVE  Orderly'
<1>1. CardTypeOK /\ msgs # <<>> /\ Head(msgs).kind = "UPDATE_RC" /\ Head(msgs).kind \in CallOps
  BY DEF TypeOK, DeliverUpdate, Delivers, CallOps
<1>2. CASE msgs' = Tail(msgs) /\ UNCHANGED <<cmds, conn>> /\ st' = onContinue
  BY <1>1, <1>2, IdleReply
<1>3. CASE ResetCardConnection(Tail(msgs)) /\ st' = onAbort
  BY <1>1, <1>3, Taken, TakenQueues, ResetOrderly
<1> QED BY <1>2, <1>3 DEF DeliverUpdate, Goto

LEMMA DeliverStaleOrderly ==
  ASSUME TypeOK, Orderly, DeliverStale, UNCHANGED authVars
  PROVE  Orderly'
<1>1. CardTypeOK /\ msgs # <<>>
  BY DEF TypeOK, DeliverStale
<1>2. /\ UNCHANGED <<cmds, slot, rd, chan, st, busy>> /\ msgs' = Tail(msgs)
      /\ conn' = WithPaceResult(conn, Head(msgs))
  BY DEF DeliverStale, worldVars, authVars, paceVars, controlVars
<1>3. SameCard /\ (conn # NoConn <=> conn' # NoConn)
  BY <1>1, <1>2, ResultSameCard
<1>4. Calm
  BY <1>1, <1>2, <1>3, TakenQueues DEF Calm, Kept, Reach
<1> QED BY <1>1, <1>2, <1>3, <1>4, Undisturbed

LEMMA PaceOrderly ==
  ASSUME TypeOK, SelectsFree, Orderly, RunPace \/ DeliverToPace, UNCHANGED authVars,
         st \notin {"ClearPacePasswordsOnError", "PaceAbort"},
         status = "NoError", status' = "NoError"
  PROVE  Orderly' /\ st' \notin {"ClearPacePasswordsOnError", "PaceAbort"}
<1>1. CASE RunPace
  BY <1>1, RunPaceOrderly
<1>2. CASE DeliverCall \/ DeliverStale
  BY <1>2, DeliverCallOrderly, DeliverStaleOrderly
     DEF DeliverCall, DeliverStale, paceVars, controlVars
<1>3. CASE DeliverCreate \/ DeliverEvent \/ DeliverPace
  BY <1>3, DeliverCreateOrderly, DeliverEventOrderly, DeliverPaceOrderly
<1>4. CASE DeliverUpdateRetryCounter
  <2>1. {"VerifyRetryCounter", "MaintainCardConnection"} \subseteq States \ AtCard
    BY PaceStatesApart DEF States, PaceStates
  <2>2. Orderly'
    BY <1>4, <2>1, DeliverUpdateOrderly DEF DeliverUpdateRetryCounter
  <2> QED BY <1>4, <2>2 DEF DeliverUpdateRetryCounter, DeliverUpdate, Goto
<1>5. CASE DeliverDestroyPaceAfterPuk
  <2>1. /\ msgs # <<>> /\ Head(msgs).kind \in CallOps /\ msgs' = Tail(msgs)
        /\ UNCHANGED <<cmds, conn>> /\ st' = "PacePukEstablished"
    BY <1>5 DEF DeliverDestroyPaceAfterPuk, DeliverDestroy, Delivers, Goto, CallOps
  <2> QED BY <2>1, IdleReply, PaceStatesApart DEF TypeOK
<1> QED BY <1>1, <1>2, <1>3, <1>4, <1>5 DEF DeliverToPace

-----------------------------------------------------------------------------
(* The workflow around the composite state. *)

(* The steps that neither touch the card nor its queues.                   *)
Elsewhere ==
  \/ Start
  \/ Talk
  \/ RunStartPaosResponse
  \/ Prepare
  \/ LeavePace
  \/ RunClearPacePasswords
  \/ RunCheckError
  \/ RunCheckRefreshAddress
  \/ RunActivateStoreFeedbackDialog
  \/ RunWriteHistory
  \/ RunSelfAuthenticationEnd
  \/ RunRedirectBrowser
  \/ Network
  \/ ApproveAccessRights
  \/ (EnterPacePassword \/ RunFinalState \/ Kill) /\ UNCHANGED authVars

LEMMA ElsewhereCard ==
  ASSUME Elsewhere
  PROVE  UNCHANGED <<slot, rd, cmds, msgs, conn, chan>>
<1> USE DEF UnchangedReader, cardVars, readerVars, worldVars, UnchangedPaos, authVars, Leads, Checks,
            Requests, Replies, Fails
<1>1. CASE Start
  BY <1>1
     DEF Start, RunProcessing, RunParseTcTokenUrl, RunLoadTcTokenUrl, RunGetTcToken, RunStartPaos
<1>2. CASE Prepare
  BY <1>2
     DEF Prepare, RunInitializeFramework, RunDidList, RunExtractCvcsFromEac1InputType,
         RunPreVerification, RunCertificateDescriptionCheck, RunCheckCertificates,
         RunEACAdditionalInputType, RunProcessCertificatesFromEac2
<1>3. CASE Talk \/ RunStartPaosResponse \/ LeavePace \/ RunClearPacePasswords
  BY <1>3 DEF Talk, SendMessage, RunStartPaosResponse, LeavePace, RunClearPacePasswords
<1>4. CASE RunCheckError \/ RunCheckRefreshAddress \/ RunActivateStoreFeedbackDialog
           \/ RunWriteHistory \/ RunSelfAuthenticationEnd \/ RunRedirectBrowser
  BY <1>4
     DEF RunCheckError, RunCheckRefreshAddress, RunActivateStoreFeedbackDialog, RunWriteHistory,
         RunSelfAuthenticationEnd, RunGetSelfAuthenticationData, RunShowSelfInfo,
         RunSendWhitelistSurvey, RunRedirectBrowser
<1>5. CASE Network
  BY <1>5
     DEF Network, ReceiveTcToken, ReceiveMessage, ReceiveRefreshAddress,
         ReceiveSelfAuthenticationData
<1>6. CASE ApproveAccessRights \/ ((EnterPacePassword \/ RunFinalState \/ Kill) /\ UNCHANGED authVars)
  BY <1>6 DEF ApproveAccessRights, EnterPacePassword, RunFinalState, Kill
<1> QED BY <1>1, <1>2, <1>3, <1>4, <1>5, <1>6 DEF Elsewhere

(* The states once the card has been turned to, up to the end.             *)
Late ==
  CardStates \cup Between \cup Passed \cup Ending \cup {"SendDisconnectResponse", "StartPaosResponse"}

(* What the next state takes for granted this one has, too. *)
Onward ==
  /\ st' \in AtCard => st \in AtCard
  /\ Opening' => Opening
  /\ Authenticating' => Authenticating
  /\ st' \in Passed => st \in Passed

Looking == {"SelectReader", "ConnectCard"}
Aborting == {"ClearPacePasswordsOnError", "PaceAbort"}

LEMMA ElsewhereLeads ==
  ASSUME Elsewhere
  PROVE  /\ st' = st \/ st' \notin Looking
         /\ st \in Late => st' \in Late
         /\ status' = "NoError" =>
              /\ status = "NoError"
              /\ st \notin {"ConnectCard", "UpdateRetryCounter"} /\ (~busy \/ st \notin Callers)
              /\ st \notin Aborting => st' \notin Aborting /\ Onward
<1> USE DEF Late, Onward, Looking, Aborting, AtCard, Opening, Authenticating, Opened, Between,
            Passed, Callers, CardStates, SendStates, Ending, Runs, Waits, Goto, Wait, UpdateStatus,
            contextVars
<1>1. CASE Start
  BY <1>1
     DEF Start, RunProcessing, RunParseTcTokenUrl, RunLoadTcTokenUrl, RunGetTcToken, RunStartPaos,
         Checks, Leads, Requests
<1>2. CASE Prepare
  BY <1>2
     DEF Prepare, RunInitializeFramework, RunDidList, RunExtractCvcsFromEac1InputType,
         RunPreVerification, RunCertificateDescriptionCheck, RunCheckCertificates,
         RunEACAdditionalInputType, RunProcessCertificatesFromEac2, Checks, Leads
<1>3. CASE Talk
  BY <1>3 DEF Talk, SendMessage, Requests
<1>4. CASE RunStartPaosResponse \/ LeavePace \/ RunClearPacePasswords
  BY <1>4 DEF RunStartPaosResponse, LeavePace, RunClearPacePasswords, Leads
<1>5. CASE RunCheckError \/ RunCheckRefreshAddress \/ RunActivateStoreFeedbackDialog \/ RunWriteHistory
  BY <1>5
     DEF RunCheckError, RunCheckRefreshAddress, RunActivateStoreFeedbackDialog, RunWriteHistory,
         Leads, Requests
<1>6. CASE RunSelfAuthenticationEnd \/ RunRedirectBrowser
  BY <1>6
     DEF RunSelfAuthenticationEnd, RunGetSelfAuthenticationData, RunShowSelfInfo,
         RunSendWhitelistSurvey, RunRedirectBrowser, Leads, Requests
<1>7. CASE Network
  <2>1. CASE ReceiveTcToken \/ ReceiveRefreshAddress \/ ReceiveSelfAuthenticationData
    BY <2>1
       DEF ReceiveTcToken, ReceiveRefreshAddress, ReceiveSelfAuthenticationData, Replies, Fails,
           AbortTarget
  <2>2. ASSUME NEW s \in SendStates, ReceiveMessage(s)
        PROVE  /\ st' \notin Looking \cup Aborting /\ st \notin Looking \cup Callers
               /\ st \in Late => st' \in Late
               /\ status' = "NoError" => status = "NoError" /\ Onward
    <3>1. ASSUME NEW type \in DOMAIN Accepts[s], Replies(s, Accepts[s][type])
          PROVE  /\ st' \notin Looking \cup Aborting /\ st \notin Looking \cup Callers
                 /\ st \in Late => st' \in Late
                 /\ status' = "NoError" => status = "NoError" /\ Onward
      BY <3>1 DEF Replies, Accepts
    <3>2. CASE Fails(s, IF s \in {"SendStartPaos", "SendInitializeFrameworkResponse",
                                  "SendDIDListResponse"}
                        THEN "CleanUpReaderManager" ELSE "UpdateRetryCounterFinal")
      BY <3>2 DEF Fails
    <3> QED BY <2>2, <3>1, <3>2 DEF ReceiveMessage
  <2> QED BY <1>7, <2>1, <2>2 DEF Network
<1>8. CASE ApproveAccessRights \/ EnterPacePassword \/ RunFinalState \/ Kill
  BY <1>8 DEF ApproveAccessRights, EnterPacePassword, RunFinalState, Kill, Leads
<1> QED BY <1>1, <1>2, <1>3, <1>4, <1>5, <1>6, <1>7, <1>8 DEF Elsewhere

LEMMA ElsewhereOrderly ==
  ASSUME TypeOK, Orderly, Elsewhere, st \notin Aborting, status' = "NoError"
  PROVE  Orderly' /\ st' \notin Aborting
<1>1. CardTypeOK /\ UNCHANGED <<slot, rd, cmds, msgs, conn, chan>>
  BY ElsewhereCard DEF TypeOK
<1>2. /\ st \notin {"ConnectCard", "UpdateRetryCounter"} /\ (~busy \/ st \notin Callers)
      /\ st' \notin Aborting /\ Onward
  BY ElsewhereLeads
<1>3. Uncalled'
  BY <1>1, <1>2, NothingCalled DEF Orderly, Uncalled
<1>4. Calm
  BY <1>1, FewerCommands, FewerRepliesKept DEF Calm, Kept, Reach, SameCard, CardTypeOK, Messages
<1>5. Earned
  BY <1>1, <1>2 DEF Earned, Onward, Orderly, OldWishes, Promised
<1> QED BY <1>1, <1>2, <1>3, <1>4, <1>5, Carried

LEMMA CallCardOrderly ==
  ASSUME TypeOK, Orderly, NEW s \in CardStates, CallCard(s)
  PROVE  Orderly'
<1>1. /\ CardTypeOK /\ st = s /\ ~busy /\ st' = s /\ busy' /\ conn # NoConn
      /\ Post(OpOf[s], "UNKNOWN", NoPassword) /\ chan' = chan /\ conn' = conn
  BY DEF CallCard, Runs, Wait, UnchangedPaos, TypeOK, Post
<1>2. Uncalled
  BY <1>1, NothingCalled DEF Orderly
<1>3. OpOf[s] \in CallOps /\ st' \in Caller(OpOf[s]) /\ OpOf[s] # "UNBLOCK"
  BY <1>1 DEF OpOf, CardStates, Caller, CallOps, EacOps
<1>4. Earned
  <2>1. Heard({"CALL"}, msgs) = {} /\ Asked({"CREATE"}, cmds) = {}
    BY <1>1 DEF Orderly, OldWishes, AtCard, CardStates
  <2>2. ~Opening' /\ (Authenticating' => Opening) /\ (st' \in Passed => st \in Passed)
    BY <1>1
       DEF Opening, Authenticating, Runs, Waits, CardStates, Opened, Between
  <2>3. Chip({"pace"}) => Chip({"pace", "eac1"})
    BY DEF Chip
  <2> QED BY <1>1, <2>1, <2>2, <2>3 DEF Earned, Orderly, Promised
<1> QED BY <1>1, <1>2, <1>3, <1>4, Posted

LEMMA CardAnswersOrderly ==
  ASSUME TypeOK, Orderly, NEW s \in CardStates, CardAnswers(s), status' = "NoError"
  PROVE  Orderly'
<1>1. /\ CardTypeOK /\ msgs # <<>> /\ Head(msgs).kind = OpOf[s] /\ Waits(s)
      /\ UNCHANGED <<cmds, conn, slot, rd, chan>> /\ msgs' = Tail(msgs)
      /\ st' = ResponseState[s]
  BY DEF CardAnswers, Delivers, Goto, TypeOK, worldVars
<1>2. OpOf[s] \in CallOps /\ (s = "DidAuthenticateEac2" => OpOf[s] = "EAC2")
  BY DEF OpOf, CardStates, CallOps, EacOps
<1>3. s = "DidAuthenticateEac2" => Head(msgs).code = "OK"
  BY DEF CardAnswers, StatusOfCommand, UpdateStatus
<1>4. conn # NoConn /\ Heard({"CALL"}, msgs) = {} /\ Asked({"CREATE"}, cmds) = {}
  BY <1>1 DEF Orderly, OldWishes, AtCard, CardStates, Waits
<1>5. ~Opening'
  BY <1>1 DEF Opening, Opened, Runs, ResponseState, CardStates
<1>6. Authenticating' => Chip({"pace", "eac1"})
  <2>1. Authenticating' => Authenticating
    BY <1>1 DEF Authenticating, Between, Runs, Waits, ResponseState, CardStates
  <2> QED BY <2>1 DEF Orderly, Promised
<1>7. st' \in Passed => Chip({"eac2"})
  <2>1. st' \in Passed => s = "DidAuthenticateEac2" \/ st \in Passed
    BY <1>1 DEF Passed, Waits, ResponseState, CardStates
  <2> QED BY <1>1, <1>2, <1>3, <2>1, Taken DEF Orderly, Promised
<1>8. Earned
  BY <1>1, <1>4, <1>5, <1>6, <1>7 DEF Earned
<1>9. Calm
  BY <1>1, TakenQueues DEF Calm, Kept, Reach, SameCard
<1>10. Uncalled'
  BY <1>1, <1>2, Taken DEF Uncalled
<1> QED BY <1>1, <1>8, <1>9, <1>10, Carried

LEMMA RunUpdateFinalOrderly ==
  ASSUME TypeOK, Orderly, RunUpdateRetryCounterFinal
  PROVE  Orderly'
<1>1. CardTypeOK /\ ~busy /\ st = "UpdateRetryCounterFinal" /\ chan' = chan
  BY DEF RunUpdateRetryCounterFinal, RunUpdate, Runs, UnchangedPaos, TypeOK
<1>2. CASE conn = NoConn /\ st' = "CleanUpReaderManager" /\ UNCHANGED <<cmds, msgs, conn>>
  BY <1>1, <1>2, IdleRun, PaceStatesApart
<1>3. CASE conn # NoConn /\ PostUpdateRetryCounter /\ st' = st /\ busy'
  <2>1. Uncalled
    BY <1>1, NothingCalled DEF Orderly
  <2>2. st' \in Caller("UPDATE_RC") /\ "UPDATE_RC" \in CallOps
    BY <1>1, <1>3 DEF Caller, CallOps
  <2>3. Post("UPDATE_RC", "UNKNOWN", NoPassword)
    BY <1>3 DEF PostUpdateRetryCounter
  <2>4. Heard({"CALL"}, msgs) = {}
    BY <1>1, <1>3 DEF Orderly, OldWishes
  <2>5. Earned
    BY <1>1, <1>3, <2>4
       DEF Earned, Opening, Authenticating, Runs, Waits, AtCard, Opened, Between, Passed, CardStates
  <2> QED BY <1>1, <1>3, <2>1, <2>2, <2>3, <2>5, Posted
<1> QED BY <1>2, <1>3 DEF RunUpdateRetryCounterFinal, RunUpdate, Goto, Wait, UnchangedReader, cardVars

LEMMA CleanUpOrderly ==
  ASSUME TypeOK, Orderly, RunCleanUpReaderManager
  PROVE  Orderly'
<1>1. /\ ~busy /\ cmds' = <<>> /\ msgs' = Detach(msgs) /\ conn' = NoConn
      /\ st' \in {"CheckRefreshAddress", "CheckError"}
  BY DEF RunCleanUpReaderManager, CleanUpReaderManager, Runs, Goto
<1>2. Uncalled
  BY <1>1, NothingCalled DEF Orderly
<1>3. FewerReplies(CallOps, msgs', msgs)
  BY <1>1, FewerRepliesKept DEF TypeOK, CardTypeOK, Messages
<1>4. Uncalled'
  BY <1>1, <1>2, <1>3, FewerNone DEF Uncalled, Asked
<1>5. st' \notin AtCard
  BY <1>1 DEF AtCard, Opened, Between, Passed, CardStates
<1> QED BY <1>1, <1>4, <1>5, Idle

LEMMA RetryOrderly ==
  ASSUME TypeOK, SelectsFree, Orderly, RetryCardSelection
  PROVE  Orderly'
<1>1. /\ st \in Looking /\ cmds' = Disown(cmds) /\ msgs' = Disown(msgs) /\ conn' = NoConn
      /\ st' = "SelectReader"
  BY DEF RetryCardSelection, AtRest, SelectsFree, Looking, Goto
<1>2. Uncalled
  BY <1>1, NothingCalled, CallersApart DEF Orderly, Looking
<1>3. Fewer(CallOps, cmds', cmds) /\ FewerReplies(CallOps, msgs', msgs)
  BY <1>1, FewerCommands, FewerRepliesKept DEF TypeOK, CardTypeOK, Messages
<1>4. Uncalled'
  BY <1>2, <1>3, FewerNone DEF Uncalled
<1> QED BY <1>1, <1>4, Idle, CallersApart

(* The first error stays on record. *)
LEMMA ErrorKept ==
  ASSUME [Next]_allVars, status' = "NoError"
  PROVE  status = "NoError"
<1> USE DEF UpdateStatus, contextVars
<1>1. CASE Pace
  <2>1. CASE RunPace
    BY <2>1
       DEF RunPace, RunMaintainCardConnection, MaintainAborts, MaintainAfterWrongPassword,
           MaintainAfterCardGone, MaintainProceeds, RunClearPacePasswordsOnError,
           RunSelectReader, RunConnectCard, FinishConnectCard, RunUpdateRetryCounter, RunUpdate,
           RunVerifyRetryCounter, RunPreparePace, RunEstablishPaceChannel,
           RunUnfortunateCardPosition, RunClearPacePasswordsBeforeDestroy,
           RunDestroyPaceAfterPuk, RunDestroy
  <2>2. CASE DeliverToPace
    BY <2>2
       DEF DeliverToPace, DeliverCall, DeliverCreate, DeliverEvent,
           DeliverUpdateRetryCounter, DeliverUpdate, DeliverDestroyPaceAfterPuk, DeliverDestroy,
           DeliverStale, DeliverPace, PaceDone, PaceCardGone, PaceFailed, paceVars
  <2> QED BY <1>1, <2>1, <2>2 DEF Pace
<1>2. CASE Elsewhere
  BY <1>2, ElsewhereLeads
<1>3. CASE Cancel \/ CancelKilled \/ DeliverCardRemoved
  BY <1>3
     DEF Cancel, CancelKilled, UserCancels, KillCancels, OnUserCancelled, DeliverCardRemoved
<1>4. CASE (\E s \in CardStates : CallCard(s) \/ CardAnswers(s))
           \/ RunUpdateRetryCounterFinal \/ DeliverUpdateRetryCounterFinal
           \/ RunCleanUpReaderManager \/ RetryCardSelection
  BY <1>4
     DEF CallCard, CardAnswers, RunUpdateRetryCounterFinal, RunUpdate, DeliverUpdateRetryCounterFinal,
         DeliverUpdate, RunCleanUpReaderManager, CleanUpReaderManager, RetryCardSelection
<1>5. CASE Executing \/ Environment \/ Terminated \/ UNCHANGED allVars
  BY <1>5 DEF Executing, Environment, Terminated, allVars, paceVars
<1> QED BY <1>1, <1>2, <1>3, <1>4, <1>5
     DEF Next, MainThread, RunAuth, DeliverToAuth, User, Elsewhere

(* Until something goes wrong everything is in order.                      *)
NoError == status = "NoError" => st \notin Aborting /\ Orderly

LEMMA NextNoError ==
  ASSUME TypeOK, HandlesLive, SelectsFree, NoError, [Next]_allVars
  PROVE  NoError'
<1> SUFFICES ASSUME status' = "NoError" PROVE Orderly' /\ st' \notin Aborting
  BY DEF NoError
<1>1. status = "NoError" /\ Orderly /\ st \notin Aborting
  BY ErrorKept DEF NoError
<1>2. CASE Pace
  BY <1>1, <1>2, PaceOrderly DEF Pace, Aborting
<1>3. CASE Elsewhere
  BY <1>1, <1>3, ElsewhereOrderly
<1>4. CASE Cancel \/ CancelKilled \/ DeliverCardRemoved
  BY <1>1, <1>4
     DEF Cancel, CancelKilled, UserCancels, KillCancels, OnUserCancelled, DeliverCardRemoved,
         UpdateStatus
<1>5. ASSUME NEW s \in CardStates, CallCard(s) \/ CardAnswers(s)
      PROVE  Orderly' /\ st' \notin Aborting
  <2>1. st' \notin Aborting
    BY <1>5
       DEF CallCard, CardAnswers, Runs, Wait, Goto, Aborting, CardStates, ResponseState
  <2> QED BY <1>1, <1>5, <2>1, CallCardOrderly, CardAnswersOrderly
<1>6. CASE RunUpdateRetryCounterFinal \/ RunCleanUpReaderManager
  <2>1. st' \notin Aborting
    BY <1>6
       DEF RunUpdateRetryCounterFinal, RunUpdate, RunCleanUpReaderManager, CleanUpReaderManager,
           Runs, Wait, Goto, Aborting
  <2> QED BY <1>1, <1>6, <2>1, RunUpdateFinalOrderly, CleanUpOrderly
<1>7. CASE DeliverUpdateRetryCounterFinal
  <2>1. "CleanUpReaderManager" \in States \ AtCard /\ "CleanUpReaderManager" \notin Aborting
    BY PaceStatesApart DEF States, AuthStates, Aborting
  <2>2. st' = "CleanUpReaderManager"
    BY <1>7 DEF DeliverUpdateRetryCounterFinal, DeliverUpdate, Goto
  <2> QED BY <1>1, <1>7, <2>1, <2>2, DeliverUpdateOrderly DEF DeliverUpdateRetryCounterFinal
<1>8. CASE RetryCardSelection
  BY <1>1, <1>8, RetryOrderly DEF RetryCardSelection, Goto, Aborting
<1>9. CASE Executing
  BY <1>1, <1>9, ExecutingOrderly DEF Executing, paceVars, controlVars
<1>10. CASE Environment
  BY <1>1, <1>10, EnvironmentCalm, Undisturbed DEF TypeOK, Environment, paceVars, controlVars
<1>11. CASE Terminated \/ UNCHANGED allVars
  <2>1. /\ UNCHANGED <<st, busy, slot, rd, cmds, msgs, conn, chan>>
    BY <1>11 DEF Terminated, allVars, cardVars, paceVars, controlVars, authVars
  <2>2. Calm
    BY <2>1, FewerCommands, FewerRepliesKept
       DEF Calm, Kept, Reach, SameCard, TypeOK, CardTypeOK, Messages
  <2> QED BY <1>1, <2>1, <2>2, Undisturbed DEF TypeOK
<1> QED BY <1>2, <1>3, <1>4, <1>5, <1>6, <1>7, <1>8, <1>9, <1>10, <1>11
        DEF Next, MainThread, RunAuth, DeliverToAuth, User, Elsewhere

-----------------------------------------------------------------------------
(* What the order rests on: the handles and the card selection.            *)

(* A handle is open behind a step of the reader thread if it was before,   *)
(* or if it was just opened on a card.                                     *)
LEMMA ExecuteHandles ==
  ASSUME CardTypeOK, HandlesLive, Execute
  PROVE  HandlesLive'
<1> USE DEF HandlesLive
<1>1. \A r \in Readers : rd[r] \in ReaderData
  BY DEF CardTypeOK
<1>2. CASE UNCHANGED <<slot, rd>>
  BY <1>2
<1>3. CASE ExecuteCreate
  <2>1. PICK r : /\ rd' = rd \/ (rd' = [rd EXCEPT ![r].handle = "open"] /\ slot[r] # NoCard)
                 /\ slot' = slot
    BY <1>3 DEF ExecuteCreate, worldVars
  <2> QED BY <2>1 DEF CardTypeOK
<1>4. CASE ExecuteDrop
  <2>1. PICK r : rd' = [rd EXCEPT ![r] = Closed(@)] /\ slot' = slot
    BY <1>4 DEF ExecuteDrop, worldVars
  <2> QED BY <1>1, <2>1 DEF CardTypeOK, Closed, ReaderData
<1>5. CASE ExecuteUpdateRetryCounter
  <2>1. CASE rd' = rd
    BY <1>5, <2>1 DEF ExecuteUpdateRetryCounter, worldVars
  <2>2. ASSUME NEW r, NEW k, rd' = [rd EXCEPT ![r].rc = k]
        PROVE  HandlesLive'
    <3>1. \A s \in Readers : rd'[s] = rd[s] \/ rd'[s] = [rd[s] EXCEPT !.rc = k]
      BY <2>2 DEF CardTypeOK
    <3>2. \A s \in Readers : rd'[s].handle = rd[s].handle
      BY <1>1, <3>1 DEF ReaderData
    <3> QED BY <1>5, <3>2 DEF ExecuteUpdateRetryCounter, worldVars
  <2> QED BY <1>5, <2>1, <2>2 DEF ExecuteUpdateRetryCounter
<1>6. ASSUME NEW r \in Readers, NEW id, NEW word, ChipWorks(r, id, word)
      PROVE  HandlesLive'
  <2>1. CASE UNCHANGED <<worldVars, rd>>
    BY <1>2, <2>1 DEF worldVars
  <2>2. CASE slot' = [slot EXCEPT ![r] = NoCard] /\ rd' = [rd EXCEPT ![r] = Broken(@)]
    BY <1>1, <2>2 DEF CardTypeOK, Broken, ReaderData
  <2> QED BY <1>6, <2>1, <2>2 DEF ChipWorks
<1>7. CASE ExecuteEstablishPaceChannel \/ ExecuteUnblockPin
  <2>1. Head(cmds).reader \in Readers
    BY <1>7, FirstCommand DEF ExecuteEstablishPaceChannel, ExecuteUnblockPin, Executes
  <2> QED BY <1>2, <1>6, <1>7, <2>1
          DEF ExecuteEstablishPaceChannel, ExecuteUnblockPin, UnchangedByCommand, worldVars
<1>8. CASE ExecuteDestroyPaceChannel \/ ExecuteSetEidPin
  BY <1>2, <1>8 DEF ExecuteDestroyPaceChannel, ExecuteSetEidPin, worldVars
<1> QED BY <1>3, <1>4, <1>5, <1>7, <1>8 DEF Execute

LEMMA NextHandles ==
  ASSUME TypeOK, HandlesLive, [Next]_allVars
  PROVE  HandlesLive'
<1>1. CardTypeOK /\ readerName \in Readers \cup {NoReader}
  BY DEF TypeOK, ContextTypeOK
<1>2. CASE UNCHANGED <<slot, rd>>
  BY <1>2 DEF HandlesLive
<1>3. ASSUME slot' = slot, \A r \in Readers : rd'[r].handle # "closed" => rd'[r] = rd[r]
      PROVE  HandlesLive'
  BY <1>3 DEF HandlesLive
<1>4. ASSUME NEW queue, ResetCardConnection(queue) PROVE HandlesLive'
  BY <1>1, <1>3, <1>4, ResetHandles DEF ResetCardConnection, worldVars
<1>5. CASE Pace
  <2>1. CASE RunPace
    BY <1>2, <1>4, <2>1
       DEF RunPace, RunMaintainCardConnection, MaintainAborts, MaintainAfterWrongPassword,
           MaintainAfterCardGone, MaintainProceeds, RunClearPacePasswordsOnError,
           RunSelectReader, RunConnectCard, FinishConnectCard, RunUpdateRetryCounter, RunUpdate,
           PostUpdateRetryCounter, RunVerifyRetryCounter, RunPreparePace, RunEstablishPaceChannel,
           EstablishWithoutPassword, EstablishWithPassword, RunUnfortunateCardPosition,
           RunClearPacePasswordsBeforeDestroy, RunDestroyPaceAfterPuk, RunDestroy, Post,
           UnchangedReader, cardVars, worldVars
  <2>2. CASE DeliverToPace
    BY <1>2, <1>4, <2>2
       DEF DeliverToPace, DeliverCall, DeliverCreate, DeliverEvent,
           DeliverUpdateRetryCounter, DeliverUpdate, DeliverDestroyPaceAfterPuk, DeliverDestroy,
           DeliverStale, DeliverPace, PaceDone, PaceCardGone, PaceFailed, worldVars
  <2> QED BY <1>5, <2>1, <2>2 DEF Pace
<1>6. CASE Elsewhere
  BY <1>2, <1>6, ElsewhereCard
<1>7. CASE Cancel \/ CancelKilled \/ DeliverCardRemoved \/ RetryCardSelection
           \/ (\E s \in CardStates : CallCard(s) \/ CardAnswers(s))
           \/ RunUpdateRetryCounterFinal \/ Terminated \/ UNCHANGED allVars
  BY <1>2, <1>7
     DEF Cancel, CancelKilled, UserCancels, KillCancels, OnUserCancelled, DeliverCardRemoved,
         RetryCardSelection, CallCard, CardAnswers, RunUpdateRetryCounterFinal, RunUpdate,
         PostUpdateRetryCounter, Post, UnchangedReader, Terminated, allVars, cardVars, worldVars
<1>8. CASE DeliverUpdateRetryCounterFinal
  BY <1>2, <1>4, <1>8 DEF DeliverUpdateRetryCounterFinal, DeliverUpdate, worldVars
<1>9. CASE RunCleanUpReaderManager
  BY <1>9 DEF RunCleanUpReaderManager, CleanUpReaderManager, NoCardInfo, HandlesLive
<1>10. CASE Environment
  <2>1. CASE World
    BY <1>1, <2>1
       DEF World, TakeCard, PutCard, readerVars, Broken, HandlesLive, CardTypeOK, ReaderData,
           ReaderAssumption
  <2>2. ASSUME NEW r \in Readers, Update(r) PROVE HandlesLive'
    BY <1>1, <1>3, <2>2, UpdateHandles DEF Update, worldVars
  <2> QED BY <1>10, <2>1, <2>2 DEF Environment
<1>11. CASE Executing
  <2>1. CASE ExecuteOther
    BY <1>1, <2>1, ExecuteHandles DEF ExecuteOther
  <2>2. CASE ExecuteDidAuthenticateEAC1 \/ ExecuteDidAuthenticateEAC2 \/ ExecuteTransmit
    BY <1>2, <2>2
       DEF ExecuteDidAuthenticateEAC1, ExecuteDidAuthenticateEAC2, ExecuteTransmit, ExecuteEac,
           UnchangedByCommand, worldVars
  <2> QED BY <1>11, <2>1, <2>2 DEF Executing
<1> QED BY <1>5, <1>6, <1>7, <1>8, <1>9, <1>10, <1>11
        DEF Next, MainThread, RunAuth, DeliverToAuth, User, Elsewhere

LEMMA HardwareConnection ==
  ASSUME TypeOK, HandlesLive, Executing \/ Environment \/ Terminated \/ UNCHANGED allVars
  PROVE  UNCHANGED <<conn, paceVars>>
<1>1. CASE Executing
  BY <1>1, OtherQueues
     DEF Executing, ExecuteDidAuthenticateEAC1, ExecuteDidAuthenticateEAC2, ExecuteTransmit,
         ExecuteEac, UnchangedByCommand, TypeOK
<1>2. CASE Environment
  BY <1>2, EnvironmentCalm DEF Environment, TypeOK
<1>3. CASE Terminated \/ UNCHANGED allVars
  BY <1>3 DEF Terminated, allVars, cardVars
<1> QED BY <1>1, <1>2, <1>3

LEMMA NextSelects ==
  ASSUME TypeOK, HandlesLive, SelectsFree, [Next]_allVars
  PROVE  SelectsFree'
<1>1. CASE st' \notin Looking
  BY <1>1 DEF SelectsFree, Looking
<1>2. CASE UNCHANGED <<st, conn>>
  BY <1>2 DEF SelectsFree
<1>3. CASE Pace
  BY <1>3, PaceSelectsFree DEF Pace
<1>4. CASE Elsewhere
  BY <1>1, <1>2, <1>4, ElsewhereCard, ElsewhereLeads
<1>5. CASE Cancel \/ CancelKilled \/ DeliverCardRemoved
  <2>1. st \in CancellableStates /\ st' = AbortTarget(st)
    BY <1>5
       DEF Cancel, CancelKilled, UserCancels, KillCancels, OnUserCancelled, DeliverCardRemoved,
           GivesUp, ConnectedOnCardRemoved, CancellableStates, Goto
  <2>2. AbortTarget(st) \notin Looking
    BY <2>1
       DEF AbortTarget, PaceAbortTarget, ResponseState, CancellableStates, SendStates, CardStates,
           Looking
  <2> QED BY <1>1, <2>1, <2>2
<1>6. CASE (\E s \in CardStates : CallCard(s) \/ CardAnswers(s))
           \/ RunUpdateRetryCounterFinal \/ DeliverUpdateRetryCounterFinal
           \/ RunCleanUpReaderManager
  <2>1. st' \notin Looking
    BY <1>6
       DEF CallCard, CardAnswers, RunUpdateRetryCounterFinal, RunUpdate,
           DeliverUpdateRetryCounterFinal, DeliverUpdate, RunCleanUpReaderManager,
           CleanUpReaderManager, Runs, Goto, Wait, CardStates, ResponseState, Looking
  <2> QED BY <1>1, <2>1
<1>7. CASE RetryCardSelection
  <2>1. conn' = NoConn
    BY <1>7 DEF RetryCardSelection, AtRest, SelectsFree
  <2> QED BY <2>1 DEF SelectsFree
<1>8. CASE Executing \/ Environment \/ Terminated \/ UNCHANGED allVars
  BY <1>2, <1>8, HardwareConnection DEF paceVars, controlVars
<1> QED BY <1>3, <1>4, <1>5, <1>6, <1>7, <1>8
        DEF Next, MainThread, RunAuth, DeliverToAuth, User, Elsewhere

-----------------------------------------------------------------------------
(* A quit request that no state has taken yet.                             *)

(* The states it may still run through up to the next one that waits.      *)
Unheeding ==
  { "EnterPacePassword", "EditAccessRights", "EstablishPaceChannel", "MaintainCardConnection",
    "ClearPacePasswordsOnError", "PaceAbort", "SendDIDAuthenticateResponseEAC1", "FinalState" }

KillWaits ==
  cancelPending =>
    /\ status # "NoError"
    /\ conn # NoConn => conn.listening
    /\ busy \/ st \in Unheeding

(* Until then the workflow runs without a look at its events.              *)
LEMMA KillStep ==
  ASSUME TypeOK, HandlesLive, KillWaits, cancelPending, cancelPending', [Next]_allVars
  PROVE  (conn' # NoConn => conn'.listening) /\ (busy' \/ st' \in Unheeding)
<1> USE DEF Runs, Goto, Wait
<1>0. /\ ~AtRest /\ status # "NoError" /\ (conn # NoConn => conn.listening)
      /\ busy \/ st \in Unheeding
  BY DEF AtRest, KillWaits
<1>1. CASE RunPace
  <2>1. ~FinishConnectCard /\ ~busy
    BY <1>0, <1>1
       DEF FinishConnectCard, RunPace, RunMaintainCardConnection, RunClearPacePasswordsOnError,
           RunSelectReader, RunConnectCard, RunUpdateRetryCounter, RunUpdate,
           RunVerifyRetryCounter, RunPreparePace, RunEstablishPaceChannel,
           RunUnfortunateCardPosition, RunClearPacePasswordsBeforeDestroy,
           RunDestroyPaceAfterPuk, RunDestroy
  <2>2. RunMaintainCardConnection \/ RunClearPacePasswordsOnError \/ RunEstablishPaceChannel
    BY <1>0, <1>1, <2>1
       DEF RunPace, Unheeding, RunSelectReader, RunConnectCard, RunUpdateRetryCounter, RunUpdate,
           RunVerifyRetryCounter, RunPreparePace, RunUnfortunateCardPosition,
           RunClearPacePasswordsBeforeDestroy, RunDestroyPaceAfterPuk, RunDestroy
  <2> QED BY <1>0, <2>2
          DEF RunMaintainCardConnection, MaintainAborts, MaintainAfterWrongPassword,
              MaintainAfterCardGone, MaintainProceeds, MustAbort, RunClearPacePasswordsOnError,
              RunEstablishPaceChannel, EstablishWithoutPassword, EstablishWithPassword, Post,
              UnchangedReader, cardVars, Unheeding
<1>2. ~DeliverToPace /\ ~DeliverToAuth /\ ~Network /\ ~Cancel /\ ~RetryCardSelection /\ ~Kill
  BY <1>0
     DEF DeliverToPace, DeliverCall, DeliverCreate, DeliverEvent, DeliverUpdateRetryCounter,
         DeliverUpdate, Delivers, DeliverPace, DeliversPace, DeliverDestroyPaceAfterPuk,
         DeliverDestroy, DeliverStale, DeliverToAuth, CardAnswers, DeliverCardRemoved,
         DeliverUpdateRetryCounterFinal, Network, ReceiveTcToken, ReceiveMessage,
         ReceiveRefreshAddress, ReceiveSelfAuthenticationData, Replies, Fails, Cancel, UserCancels,
         RetryCardSelection, Kill
<1>3. ~CancelKilled /\ ~RunFinalState
  BY DEF CancelKilled, KillCancels, RunFinalState
<1>4. CASE Elsewhere
  <2>1. conn' = conn
    BY <1>4, ElsewhereCard
  <2>2. CASE Talk
    BY <1>0, <2>1, <2>2 DEF Talk, SendMessage, Requests
  <2>3. CASE LeavePace \/ ApproveAccessRights \/ EnterPacePassword
    BY <1>0, <2>1, <2>3 DEF LeavePace, ApproveAccessRights, EnterPacePassword, Leads, Unheeding
  <2>4. ~Start /\ ~Prepare
    BY <1>0
       DEF Start, RunProcessing, RunParseTcTokenUrl, RunLoadTcTokenUrl, RunGetTcToken,
           RunStartPaos, Prepare, RunInitializeFramework, RunDidList,
           RunExtractCvcsFromEac1InputType, RunPreVerification, RunCertificateDescriptionCheck,
           RunCheckCertificates, RunEACAdditionalInputType, RunProcessCertificatesFromEac2,
           Leads, Checks, Requests, Unheeding
  <2>5. /\ ~RunStartPaosResponse /\ ~RunClearPacePasswords /\ ~RunCheckError
        /\ ~RunCheckRefreshAddress /\ ~RunActivateStoreFeedbackDialog /\ ~RunWriteHistory
        /\ ~RunSelfAuthenticationEnd /\ ~RunRedirectBrowser
    BY <1>0
       DEF RunStartPaosResponse, RunClearPacePasswords, RunCheckError, RunCheckRefreshAddress,
           RunActivateStoreFeedbackDialog, RunWriteHistory, RunSelfAuthenticationEnd,
           RunGetSelfAuthenticationData, RunShowSelfInfo, RunSendWhitelistSurvey,
           RunRedirectBrowser, Leads, Requests, Unheeding
  <2> QED BY <1>2, <1>3, <1>4, <2>2, <2>3, <2>4, <2>5 DEF Elsewhere
<1>5. /\ ~RunUpdateRetryCounterFinal /\ ~RunCleanUpReaderManager
      /\ \A s \in CardStates : ~CallCard(s)
  BY <1>0
     DEF RunUpdateRetryCounterFinal, RunUpdate, RunCleanUpReaderManager, CleanUpReaderManager,
         CallCard, CardStates, Unheeding
<1>6. CASE Executing \/ Environment \/ Terminated \/ UNCHANGED allVars
  BY <1>0, <1>6, HardwareConnection DEF paceVars, controlVars
<1> QED BY <1>1, <1>2, <1>3, <1>4, <1>5, <1>6
        DEF Next, MainThread, Pace, RunAuth, User, Elsewhere

LEMMA ElsewhereControl ==
  ASSUME Elsewhere, cancelPending'
  PROVE  Kill \/ cancelPending' = cancelPending
<1> USE DEF UnchangedControl, Leads, Checks, Requests, Replies, Fails
<1>1. CASE Start \/ Prepare \/ Talk
  BY <1>1
     DEF Start, RunProcessing, RunParseTcTokenUrl, RunLoadTcTokenUrl, RunGetTcToken, RunStartPaos,
         Prepare, RunInitializeFramework, RunDidList,
         RunExtractCvcsFromEac1InputType, RunPreVerification, RunCertificateDescriptionCheck,
         RunCheckCertificates, RunEACAdditionalInputType, RunProcessCertificatesFromEac2,
         Talk, SendMessage
<1>2. CASE RunStartPaosResponse \/ LeavePace \/ RunClearPacePasswords \/ RunCheckError
           \/ RunCheckRefreshAddress \/ RunActivateStoreFeedbackDialog \/ RunWriteHistory
           \/ RunSelfAuthenticationEnd \/ RunRedirectBrowser
  BY <1>2
     DEF RunStartPaosResponse, LeavePace, RunClearPacePasswords, RunCheckError,
         RunCheckRefreshAddress, RunActivateStoreFeedbackDialog, RunWriteHistory,
         RunSelfAuthenticationEnd, RunGetSelfAuthenticationData, RunShowSelfInfo,
         RunSendWhitelistSurvey, RunRedirectBrowser
<1>3. CASE Network
  BY <1>3
     DEF Network, ReceiveTcToken, ReceiveMessage, ReceiveRefreshAddress,
         ReceiveSelfAuthenticationData
<1>4. CASE ApproveAccessRights \/ EnterPacePassword \/ RunFinalState
  BY <1>4 DEF ApproveAccessRights, EnterPacePassword, RunFinalState
<1> QED BY <1>1, <1>2, <1>3, <1>4 DEF Elsewhere

LEMMA NextKillWaits ==
  ASSUME TypeOK, HandlesLive, KillWaits, [Next]_allVars
  PROVE  KillWaits'
<1> SUFFICES ASSUME cancelPending'
             PROVE  /\ status' # "NoError"
                    /\ conn' # NoConn => conn'.listening
                    /\ busy' \/ st' \in Unheeding
  BY DEF KillWaits
<1>1. CASE cancelPending
  BY <1>1, ErrorKept, KillStep DEF KillWaits
<1>2. CASE Kill
  BY <1>2
     DEF Kill, AtRest, Interactive, UnchangedReader, cardVars, Unheeding, TypeOK, PaceStates,
         PaceSignals, AuthStates, SendStates, CardStates
<1>3. CASE ~cancelPending /\ ~Kill
  <2> USE DEF UnchangedControl, controlVars, paceVars
  <2>1. CASE Pace
    BY <1>3, <2>1
       DEF Pace, RunPace, RunMaintainCardConnection, RunClearPacePasswordsOnError, RunSelectReader,
           RunConnectCard, FinishConnectCard, RunUpdateRetryCounter, RunUpdate,
           RunVerifyRetryCounter, RunPreparePace, RunEstablishPaceChannel,
           RunUnfortunateCardPosition, RunClearPacePasswordsBeforeDestroy,
           RunDestroyPaceAfterPuk, RunDestroy, DeliverToPace, DeliverCall, DeliverCreate,
           DeliverEvent, DeliverUpdateRetryCounter, DeliverUpdate, DeliverPace,
           DeliverDestroyPaceAfterPuk, DeliverDestroy, DeliverStale
  <2>2. CASE Elsewhere
    BY <1>3, <2>2, ElsewhereControl
  <2>3. CASE Cancel \/ CancelKilled \/ DeliverCardRemoved \/ RetryCardSelection
             \/ (\E s \in CardStates : CallCard(s) \/ CardAnswers(s))
             \/ RunUpdateRetryCounterFinal \/ DeliverUpdateRetryCounterFinal
             \/ RunCleanUpReaderManager
    BY <1>3, <2>3
       DEF Cancel, CancelKilled, UserCancels, KillCancels, DeliverCardRemoved, RetryCardSelection,
           CallCard, CardAnswers, RunUpdateRetryCounterFinal, RunUpdate,
           DeliverUpdateRetryCounterFinal, DeliverUpdate, RunCleanUpReaderManager,
           CleanUpReaderManager
  <2>4. CASE Executing \/ Environment \/ Terminated \/ UNCHANGED allVars
    BY <1>3, <2>4, HardwareConnection
  <2> QED BY <1>3, <2>1, <2>2, <2>3, <2>4
          DEF Next, MainThread, RunAuth, DeliverToAuth, User, Elsewhere
<1> QED BY <1>1, <1>2, <1>3

-----------------------------------------------------------------------------
(* A command of the authentication stays true once it is on its way,       *)
(* whatever happens to the workflow: nothing that changes the channel is   *)
(* under way with it, and nothing of that kind can be posted behind it     *)
(* before the reader thread is done with it.                               *)

(* How far the chip may be for a command. *)
Needs(op) ==
  CASE op = "EAC1" -> {"pace"}
    [] op = "EAC2" -> {"pace", "eac1"}
    [] OTHER       -> {"eac2"}

EacUnderWay ==
  Asked(EacOps, cmds) # {} =>
    /\ st \in Late /\ conn # NoConn
    /\ Asked(ChannelOps, cmds) = {} /\ Heard({"CALL"}, msgs) = {}
    /\ \A i \in Asked(EacOps, cmds) : cmds[i].reader = conn.reader /\ Chip(Needs(cmds[i].op))
    /\ \A i, j \in Asked(EacOps, cmds) : i = j

LEMMA EacGone ==
  ASSUME Asked(EacOps, cmds) = {}, Fewer(EacOps, cmds', cmds) \/ NoneAdded(EacOps)
  PROVE  EacUnderWay'
<1>1. Asked(EacOps, cmds') = {}
  BY FewerNone DEF NoneAdded, Asked
<1> QED BY <1>1 DEF EacUnderWay

LEMMA EacKept ==
  ASSUME CardTypeOK, EacUnderWay, Fewer(EacOps \cup ChannelOps, cmds', cmds),
         FewerReplies({"CALL"}, msgs', msgs), Kept, SameCard, conn # NoConn => conn' # NoConn,
         st \in Late => st' \in Late
  PROVE  EacUnderWay'
<1>1. Fewer(EacOps, cmds', cmds) /\ Fewer(ChannelOps, cmds', cmds)
  BY FewerPart
<1>2. SUFFICES ASSUME Asked(EacOps, cmds) # {} PROVE EacUnderWay'
  BY <1>1, EacGone
<1>3. st' \in Late /\ conn' # NoConn /\ Asked(ChannelOps, cmds') = {} /\ Heard({"CALL"}, msgs') = {}
  BY <1>1, <1>2, FewerNone DEF EacUnderWay
<1>4. PICK k \in Nat : \A i \in Asked(EacOps, cmds') :
        i \in Nat /\ i + k \in Asked(EacOps, cmds) /\ SameCommand(cmds'[i], cmds[i + k])
  BY <1>1 DEF Fewer
<1>5. ASSUME NEW i \in Asked(EacOps, cmds')
      PROVE  (cmds[i].reader = conn.reader /\ Chip(Needs(cmds[i].op)))'
  <2>1. PICK op : op = cmds[i + k].op
    OBVIOUS
  <2>2. cmds[i + k].reader = conn.reader /\ Chip(Needs(op))
    BY <1>2, <1>4, <1>5, <2>1 DEF EacUnderWay
  <2>3. cmds'[i].reader = cmds[i + k].reader /\ cmds'[i].op = op
    BY <1>4, <1>5, <2>1 DEF SameCommand
  <2>4. Chip(Needs(op))'
    BY <1>3, <2>2, ChipKept
  <2>5. Needs(op) = Needs(cmds'[i].op)
    BY <2>3
  <2> QED BY <1>3, <2>2, <2>3, <2>4, <2>5 DEF SameCard, Chip
<1>6. ASSUME NEW i \in Asked(EacOps, cmds'), NEW j \in Asked(EacOps, cmds') PROVE i = j
  <2>1. i + k = j + k /\ i \in Nat /\ j \in Nat
    BY <1>2, <1>4, <1>6 DEF EacUnderWay
  <2> QED BY <2>1
<1> QED BY <1>3, <1>5, <1>6 DEF EacUnderWay

(* Nothing of the kind is under way while the card is looked for or a      *)
(* channel is opened.                                                      *)
LEMMA LateApart ==
  /\ Late \cap PaceStates = {} /\ Looking \cap Late = {}
  /\ CardStates \subseteq Late /\ \A s \in CardStates : ResponseState[s] \in Late
  /\ "UpdateRetryCounterFinal" \in Late /\ "CleanUpReaderManager" \in Late
BY DEF Late, PaceStates, Looking, CardStates, Between, Passed, Ending, ResponseState

LEMMA RunPaceEac ==
  ASSUME TypeOK, EacUnderWay, RunPace
  PROVE  EacUnderWay'
<1>1. CardTypeOK /\ cmds \in Seq(Command) /\ EacOps \cap OwnOps = {}
  BY DEF TypeOK, CardTypeOK, EacOps, OwnOps
<1>2. st \in PaceStates
  BY DEF RunPace, RunMaintainCardConnection, RunClearPacePasswordsOnError, RunSelectReader,
         RunConnectCard, FinishConnectCard, RunUpdateRetryCounter, RunUpdate,
         RunVerifyRetryCounter, RunPreparePace, RunEstablishPaceChannel,
         RunUnfortunateCardPosition, RunClearPacePasswordsBeforeDestroy,
         RunDestroyPaceAfterPuk, RunDestroy, Runs, PaceStates
<1>3. Asked(EacOps, cmds) = {}
  BY <1>2, LateApart DEF EacUnderWay
<1>4. CASE st # "EstablishPaceChannel"
  BY <1>1, <1>3, <1>4, RunPaceSilent, EacGone
<1>5. CASE st = "EstablishPaceChannel"
  <2>1. RunEstablishPaceChannel
    BY <1>5
       DEF RunPace, RunMaintainCardConnection, RunClearPacePasswordsOnError, RunSelectReader,
           RunConnectCard, FinishConnectCard, RunUpdateRetryCounter, RunUpdate,
           RunVerifyRetryCounter, RunPreparePace, RunUnfortunateCardPosition,
           RunClearPacePasswordsBeforeDestroy, RunDestroyPaceAfterPuk, RunDestroy, Runs
  <2>2. \/ cmds' = cmds
        \/ \E c : c.op \notin EacOps /\ cmds' = Append(cmds, c)
    <3>1. CASE UnchangedReader
      BY <3>1 DEF UnchangedReader, cardVars
    <3>2. ASSUME NEW op \in {"UNBLOCK", "PACE"}, Post(op, idType, Secret)
          PROVE  \E c : c.op \notin EacOps /\ cmds' = Append(cmds, c)
      <4> DEFINE c == [op |-> op, reader |-> conn.reader, id |-> idType, pw |-> Secret,
                       mine |-> TRUE, conn |-> TRUE]
      <4>1. c.op \notin EacOps /\ cmds' = Append(cmds, c)
        BY <3>2 DEF Post, EacOps
      <4> QED BY <4>1
    <3> QED BY <2>1, <3>1, <3>2
            DEF RunEstablishPaceChannel, EstablishWithoutPassword, EstablishWithPassword
  <2>3. Fewer(EacOps, cmds', cmds)
    BY <1>1, <2>2, FewerCommands
  <2> QED BY <1>3, <2>3, EacGone
<1> QED BY <1>4, <1>5

LEMMA DeliverPaceEac ==
  ASSUME TypeOK, EacUnderWay, DeliverToPace, UNCHANGED authVars
  PROVE  EacUnderWay'
<1>1. /\ CardTypeOK /\ cmds \in Seq(Command) /\ msgs \in Seq(Messages) /\ EacOps \cap OwnOps = {}
      /\ chan' = chan
  BY DEF TypeOK, CardTypeOK, Messages, EacOps, OwnOps, authVars
<1>2. CASE Asked(EacOps, cmds) = {}
  BY <1>1, <1>2, DeliverPaceSilent, EacGone
<1>3. CASE Asked(EacOps, cmds) # {}
  <2>1. st \in Late /\ Heard({"CALL"}, msgs) = {}
    BY <1>3 DEF EacUnderWay
  <2>2. ~DeliverCall
    <3>1. SUFFICES ASSUME DeliverCall PROVE FALSE
      OBVIOUS
    <3>2. Head(msgs) \in Reply /\ msgs[1] = Head(msgs) /\ 1 \in DOMAIN msgs
      BY <1>1, <3>1, FirstMessage, HeadTailProperties, LenProperties DEF DeliverCall
    <3> QED BY <2>1, <3>1, <3>2 DEF Heard, DeliverCall
  <2>3. ~DeliverUpdateRetryCounter /\ ~DeliverPace /\ ~DeliverDestroyPaceAfterPuk
    BY <2>1, LateApart
       DEF DeliverUpdateRetryCounter, DeliverUpdate, DeliverPace, DeliversPace,
           DeliverDestroyPaceAfterPuk, DeliverDestroy, Delivers, Waits, PaceStates
  <2>4. msgs # <<>> /\ msgs' = Tail(msgs) /\ UNCHANGED <<slot, rd, st>>
    BY <1>3, <2>1, <2>2, <2>3, LateApart
       DEF DeliverToPace, DeliverCreate, DeliverEvent, DeliverStale, worldVars, Waits, PaceStates,
           paceVars, controlVars
  <2>5. Fewer(EacOps \cup ChannelOps, cmds', cmds)
    <3>1. CASE cmds' = cmds
      BY <1>1, <3>1, FewerCommands
    <3>2. CASE DeliverCreate
      <4>1. cmds' = DropUnclaimed(cmds, Head(msgs))
        BY <2>1, <3>2, LateApart DEF DeliverCreate, Waits, PaceStates
      <4>2. ReaderCommand("DROP", Head(msgs).reader, FALSE).op \notin EacOps \cup ChannelOps
        BY DEF ReaderCommand, EacOps, ChannelOps
      <4> QED BY <1>1, <4>1, <4>2, FewerCommands DEF DropUnclaimed
    <3> QED BY <2>2, <2>3, <3>1, <3>2 DEF DeliverToPace, DeliverEvent, DeliverStale
  <2>6. SameCard /\ (conn # NoConn => conn' # NoConn)
    <3>1. CASE DeliverCreate
      BY <2>1, <3>1, LateApart DEF DeliverCreate, Waits, PaceStates, SameCard
    <3>2. CASE DeliverEvent
      BY <1>1, <2>4, <3>2, SignalSameCard DEF DeliverEvent
    <3>3. CASE DeliverStale
      BY <1>1, <3>3, ResultSameCard DEF DeliverStale
    <3> QED BY <2>2, <2>3, <3>1, <3>2, <3>3 DEF DeliverToPace
  <2>7. Kept
    BY <1>1, <2>4 DEF Kept, Reach
  <2> QED BY <1>1, <2>4, <2>5, <2>6, <2>7, TakenMessage, EacKept
<1> QED BY <1>2, <1>3

(* The states that are given up lead on towards the end.                   *)
LEMMA AbortEac ==
  ASSUME TypeOK, EacUnderWay, Cancel \/ CancelKilled \/ DeliverCardRemoved
  PROVE  EacUnderWay'
<1>1. CardTypeOK /\ cmds \in Seq(Command) /\ msgs \in Seq(Messages)
  BY DEF TypeOK, CardTypeOK, Messages
<1>2. /\ st \in CancellableStates /\ st' = AbortTarget(st) /\ cmds' = Disown(cmds)
      /\ UNCHANGED <<slot, rd, chan>>
  BY DEF Cancel, CancelKilled, UserCancels, KillCancels, OnUserCancelled, DeliverCardRemoved,
         GivesUp, ConnectedOnCardRemoved, CancellableStates, Goto, worldVars, authVars,
         UnchangedPaos
<1>3. st \in Late => st' \in Late
  BY <1>2
     DEF AbortTarget, PaceAbortTarget, ResponseState, CancellableStates, SendStates, CardStates,
         Late, Between, Passed, Ending
<1>4. FewerReplies({"CALL"}, msgs', msgs) /\ SameCard /\ (conn # NoConn => conn' # NoConn)
  <2>1. CASE Cancel \/ CancelKilled
    BY <1>1, <2>1, FewerRepliesKept
       DEF Cancel, CancelKilled, UserCancels, KillCancels, OnUserCancelled, SameCard
  <2>2. CASE DeliverCardRemoved
    BY <1>1, <2>2, TakenMessage, SignalSameCard DEF DeliverCardRemoved, GivesUp
  <2> QED BY <2>1, <2>2
<1>5. Kept /\ Fewer(EacOps \cup ChannelOps, cmds', cmds)
  BY <1>1, <1>2, FewerCommands DEF Kept, Reach
<1> QED BY <1>1, <1>3, <1>4, <1>5, EacKept

(* The command is true when it is called. *)
LEMMA CallCardEac ==
  ASSUME TypeOK, ErrorTold, KillWaits, NoError, NEW s \in CardStates, CallCard(s)
  PROVE  EacUnderWay'
<1>1. /\ CardTypeOK /\ st = s /\ ~busy /\ st' = s /\ conn # NoConn
      /\ Post(OpOf[s], "UNKNOWN", NoPassword) /\ UNCHANGED <<slot, rd, chan, conn, msgs>>
  BY DEF CallCard, Runs, Wait, UnchangedPaos, TypeOK, Post, worldVars
<1>2. Orderly
  <2>1. ~cancelPending
    BY <1>1 DEF KillWaits, Unheeding, CardStates
  <2>2. status = "NoError"
    BY <1>1, <2>1 DEF ErrorTold, AfterError, CardStates, SendStates, Ending
  <2> QED BY <2>2 DEF NoError
<1>3. Uncalled
  BY <1>1, <1>2, NothingCalled DEF Orderly
<1> DEFINE c == [op |-> OpOf[s], reader |-> conn.reader, id |-> "UNKNOWN", pw |-> NoPassword,
                 mine |-> TRUE, conn |-> TRUE]
<1>4. cmds' = Append(cmds, c) /\ cmds \in Seq(Command)
  BY <1>1 DEF Post, CardTypeOK
<1>5. c.op = OpOf[s] /\ c.reader = conn.reader
  OBVIOUS
<1> HIDE DEF c
<1>6. \A S : \A i \in Asked(S, cmds') :
        (i = Len(cmds) + 1 /\ cmds'[i] = c /\ c.op \in S) \/ i \in Asked(S, cmds)
  <2>1. ASSUME NEW S, NEW i \in Asked(S, cmds')
        PROVE  (i = Len(cmds) + 1 /\ cmds'[i] = c /\ c.op \in S) \/ i \in Asked(S, cmds)
    <3>1. (i = Len(cmds) + 1 /\ cmds'[i] = c) \/ i \in Asked(S, cmds)
      BY <1>4, <2>1, AddedCommand
    <3>2. cmds'[i].op \in S
      BY <2>1 DEF Asked
    <3> QED BY <3>1, <3>2
  <2> QED BY <2>1
<1>7. Heard({"CALL"}, msgs') = {} /\ Asked({"CREATE"}, cmds) = {}
  BY <1>1, <1>2 DEF Orderly, OldWishes, AtCard, CardStates
<1>8. Asked(EacOps, cmds) = {} /\ Asked(ChannelOps, cmds) = {}
  BY <1>3, <1>7 DEF Uncalled, Asked, CallOps, EacOps, ChannelOps
<1>9. Asked(ChannelOps, cmds') = {}
  <2>1. OpOf[s] \notin ChannelOps
    BY DEF OpOf, CardStates, ChannelOps
  <2> QED BY <1>5, <1>6, <1>8, <2>1
<1>10. Chip(Needs(OpOf[s]))
  <2>1. CASE s = "DidAuthenticateEac1"
    <3>1. Opening /\ Needs(OpOf[s]) = {"pace"}
      BY <1>1, <2>1 DEF Opening, Runs, Needs, OpOf
    <3> QED BY <1>2, <3>1 DEF Orderly, Promised
  <2>2. CASE s = "DidAuthenticateEac2"
    <3>1. Authenticating /\ Needs(OpOf[s]) = {"pace", "eac1"}
      BY <1>1, <2>2 DEF Authenticating, Runs, Needs, OpOf
    <3> QED BY <1>2, <3>1 DEF Orderly, Promised
  <2>3. CASE s = "Transmit"
    <3>1. st \in Passed /\ Needs(OpOf[s]) = {"eac2"}
      BY <1>1, <2>3 DEF Passed, Needs, OpOf
    <3> QED BY <1>2, <3>1 DEF Orderly, Promised
  <2> QED BY <2>1, <2>2, <2>3 DEF CardStates
<1>11. ASSUME NEW i \in Asked(EacOps, cmds')
       PROVE  i = Len(cmds) + 1 /\ (cmds[i].reader = conn.reader /\ Chip(Needs(cmds[i].op)))'
  <2>1. i = Len(cmds) + 1 /\ cmds'[i] = c
    BY <1>6, <1>8, <1>11
  <2>2. cmds'[i].op = OpOf[s] /\ cmds'[i].reader = conn.reader
    BY <1>5, <2>1
  <2>3. Needs(cmds'[i].op) = Needs(OpOf[s])
    BY <2>2
  <2> QED BY <1>1, <1>10, <2>1, <2>2, <2>3, Zenon DEF Chip, Reach
<1>12. st' \in Late
  BY <1>1, LateApart
<1> QED BY <1>1, <1>7, <1>9, <1>11, <1>12 DEF EacUnderWay

LEMMA RunUpdateFinalEac ==
  ASSUME TypeOK, EacUnderWay, RunUpdateRetryCounterFinal
  PROVE  EacUnderWay'
<1>1. CardTypeOK /\ cmds \in Seq(Command) /\ msgs \in Seq(Messages)
  BY DEF TypeOK, CardTypeOK, Messages
<1>2. UNCHANGED <<slot, rd, chan, conn, msgs>> /\ st' \in Late
  BY LateApart
     DEF RunUpdateRetryCounterFinal, RunUpdate, PostUpdateRetryCounter, Post, Runs, Goto, Wait,
         UnchangedReader, cardVars, worldVars, UnchangedPaos
<1>3. Fewer(EacOps \cup ChannelOps, cmds', cmds)
  <2>1. CASE UnchangedReader
    BY <1>1, <2>1, FewerCommands DEF UnchangedReader, cardVars
  <2>2. CASE PostUpdateRetryCounter
    <3> DEFINE c == [op |-> "UPDATE_RC", reader |-> conn.reader, id |-> "UNKNOWN",
                     pw |-> NoPassword, mine |-> TRUE, conn |-> TRUE]
    <3>1. cmds' = Append(cmds, c)
      BY <2>2 DEF PostUpdateRetryCounter, Post
    <3>2. c.op \notin EacOps \cup ChannelOps
      BY DEF EacOps, ChannelOps
    <3> HIDE DEF c
    <3> QED BY <1>1, <3>1, <3>2, FewerCommands
  <2> QED BY <2>1, <2>2 DEF RunUpdateRetryCounterFinal, RunUpdate
<1>4. FewerReplies({"CALL"}, msgs', msgs) /\ Kept /\ SameCard
  BY <1>1, <1>2, FewerRepliesKept DEF Kept, Reach, SameCard
<1> QED BY <1>1, <1>2, <1>3, <1>4, EacKept

LEMMA ExecutingEac ==
  ASSUME TypeOK, EacUnderWay, Executing
  PROVE  EacUnderWay'
<1>1. CardTypeOK /\ cmds \in Seq(Command) /\ msgs \in Seq(Messages)
  BY DEF TypeOK, CardTypeOK, Messages
<1>2. CASE cmds # <<>> /\ Head(cmds).op \in EacOps /\ cmds' = Tail(cmds)
  <2>1. 1 \in DOMAIN cmds /\ cmds[1] = Head(cmds)
    BY <1>1, <1>2, HeadTailProperties, LenProperties
  <2>2. 1 \in Asked(EacOps, cmds)
    BY <1>2, <2>1 DEF Asked
  <2>3. \A i, j \in Asked(EacOps, cmds) : i = j
    BY <2>2 DEF EacUnderWay
  <2>4. Asked(EacOps, cmds') = {}
    BY <1>1, <1>2, <2>3, TakenAlone
  <2> QED BY <2>4 DEF EacUnderWay
<1>3. CASE ExecuteOther
  <2>1. /\ cmds # <<>> /\ cmds' = Tail(cmds) /\ conn' = conn /\ st' = st
        /\ Fewer(EacOps \cup ChannelOps, cmds', cmds)
    BY <1>1, <1>3, OtherQueues, FewerPart, Parts DEF Executing, paceVars, controlVars
  <2>2. CASE Head(cmds).op \in ChannelOps
    <3>1. 1 \in DOMAIN cmds /\ cmds[1] = Head(cmds)
      BY <1>1, <2>1, HeadTailProperties, LenProperties
    <3>2. 1 \in Asked(ChannelOps, cmds)
      BY <2>2, <3>1 DEF Asked
    <3>3. Asked(EacOps, cmds) = {}
      BY <3>2 DEF EacUnderWay
    <3> QED BY <2>1, <3>3, FewerPart, EacGone
  <2>3. CASE Head(cmds).op \notin ChannelOps
    <3>1. Kept
      BY <1>1, <1>3, <2>3, OtherKept
    <3>2. FewerReplies({"CALL"}, msgs', msgs)
      <4>1. CASE Head(cmds).op \notin CallOps
        BY <1>1, <1>3, <4>1, OtherQueues, FewerPart, Parts
      <4>2. CASE Head(cmds).op \in CallOps
        <5>1. PICK q \in Seq(Messages), m \in Reply :
                msgs' = Append(q, m) /\ FewerReplies(Due, q, msgs) /\ m.kind = Head(cmds).op
          BY <1>1, <1>3, <4>2, OtherQueues
        <5>2. m.kind \notin {"CALL"}
          BY <4>2, <5>1 DEF CallOps, EacOps
        <5>3. FewerReplies({"CALL"}, msgs', q)
          BY <5>1, <5>2, FewerRepliesKept
        <5>4. FewerReplies({"CALL"}, q, msgs)
          BY <5>1, FewerPart, Parts
        <5> QED BY <5>3, <5>4, FewerStill
      <4> QED BY <4>1, <4>2
    <3>3. SameCard
      BY <2>1 DEF SameCard
    <3> QED BY <1>1, <2>1, <3>1, <3>2, <3>3, EacKept
  <2> QED BY <2>2, <2>3
<1>4. CASE ExecuteDidAuthenticateEAC1 \/ ExecuteDidAuthenticateEAC2 \/ ExecuteTransmit
  BY <1>2, <1>4
     DEF ExecuteDidAuthenticateEAC1, ExecuteDidAuthenticateEAC2, ExecuteTransmit, ExecuteEac,
         Executes, Finish, EacOps
<1> QED BY <1>3, <1>4 DEF Executing

LEMMA NextEacUnderWay ==
  ASSUME TypeOK, ErrorTold, HandlesLive, KillWaits, NoError, EacUnderWay, [Next]_allVars
  PROVE  EacUnderWay'
<1>1. CardTypeOK /\ cmds \in Seq(Command) /\ msgs \in Seq(Messages)
  BY DEF TypeOK, CardTypeOK, Messages
<1>2. ASSUME UNCHANGED <<slot, rd, chan, cmds, conn>>, msgs' = msgs \/ (msgs # <<>> /\ msgs' = Tail(msgs)),
             st \in Late => st' \in Late
      PROVE  EacUnderWay'
  <2>1. Fewer(EacOps \cup ChannelOps, cmds', cmds) /\ FewerReplies({"CALL"}, msgs', msgs)
    BY <1>1, <1>2, FewerCommands, FewerRepliesKept
  <2>2. Kept /\ SameCard
    BY <1>2 DEF Kept, Reach, SameCard
  <2> QED BY <1>1, <1>2, <2>1, <2>2, EacKept
<1>3. CASE cmds' = <<>>
  BY <1>3 DEF EacUnderWay, Asked
<1>4. CASE Pace
  BY <1>4, RunPaceEac, DeliverPaceEac DEF Pace
<1>5. CASE Elsewhere
  BY <1>2, <1>5, ElsewhereCard, ElsewhereLeads
<1>6. CASE Cancel \/ CancelKilled \/ DeliverCardRemoved
  BY <1>6, AbortEac
<1>7. ASSUME NEW s \in CardStates, CallCard(s) \/ CardAnswers(s)
      PROVE  EacUnderWay'
  <2>1. CASE CardAnswers(s)
    BY <1>2, <2>1, LateApart DEF CardAnswers, Delivers, Goto, worldVars
  <2> QED BY <1>7, <2>1, CallCardEac
<1>8. CASE RunUpdateRetryCounterFinal
  BY <1>8, RunUpdateFinalEac
<1>9. CASE DeliverUpdateRetryCounterFinal
  BY <1>2, <1>3, <1>9, LateApart
     DEF DeliverUpdateRetryCounterFinal, DeliverUpdate, Delivers, Goto, ResetCardConnection,
         UnchangedPaos, worldVars
<1>10. CASE RunCleanUpReaderManager
  BY <1>3, <1>10 DEF RunCleanUpReaderManager, CleanUpReaderManager
<1>11. CASE RetryCardSelection
  <2>1. Asked(EacOps, cmds) = {}
    BY <1>11, LateApart DEF RetryCardSelection, EacUnderWay, Looking
  <2>2. Fewer(EacOps, cmds', cmds)
    BY <1>1, <1>11, FewerCommands DEF RetryCardSelection
  <2> QED BY <2>1, <2>2, EacGone
<1>12. CASE Executing
  BY <1>12, ExecutingEac
<1>13. CASE Environment
  <2>1. Calm /\ conn' = conn
    BY <1>1, <1>13, EnvironmentCalm
  <2>2. Fewer(EacOps \cup ChannelOps, cmds', cmds) /\ FewerReplies({"CALL"}, msgs', msgs)
    BY <2>1, FewerPart, Parts DEF Calm
  <2>3. st' = st
    BY <1>13 DEF Environment, paceVars, controlVars
  <2> QED BY <1>1, <2>1, <2>2, <2>3, EacKept DEF Calm
<1>14. CASE Terminated \/ UNCHANGED allVars
  BY <1>2, <1>14 DEF Terminated, allVars, cardVars, paceVars, controlVars, authVars
<1> QED BY <1>4, <1>5, <1>6, <1>7, <1>8, <1>9, <1>10, <1>11, <1>12, <1>13, <1>14
        DEF Next, MainThread, RunAuth, DeliverToAuth, User, Elsewhere

-----------------------------------------------------------------------------
(* All that the order rests on. Beyond TypeOK and ErrorTold it needs to    *)
(* know of errors and of quit requests, as both end the waiting that keeps *)
(* the commands apart.                                                     *)
OrderInv == HandlesLive /\ SelectsFree /\ KillWaits /\ NoError /\ EacUnderWay

LEMMA InitOrder == Init => OrderInv
<1> SUFFICES ASSUME Init PROVE OrderInv
  OBVIOUS
<1>1. cmds = <<>> /\ msgs = <<>> /\ st \in {"Processing", "LoadTcTokenUrl"} /\ ~cancelPending
  BY DEF Init, CardInit, ContextInit
<1>2. Asked(EacOps, cmds) = {} /\ Uncalled /\ Heard({"CALL"}, msgs) = {}
      /\ Asked({"PACE"}, cmds) = {} /\ Heard({"PACE"}, msgs) = {}
      /\ Heard({"UPDATE_RC"}, msgs) = {} /\ Heard({"EAC2"}, msgs) = {}
  BY <1>1 DEF Asked, Heard, Uncalled
<1>3. st \notin AtCard \cup Looking \cup Aborting
  BY <1>1 DEF AtCard, Opened, Between, Passed, CardStates, Looking, Aborting
<1>4. Orderly
  <2>1. OneCall
    BY <1>2 DEF OneCall, Alone, Uncalled
  <2>2. OldWishes
    BY <1>2, <1>3 DEF OldWishes
  <2>3. Promised
    BY <1>2, <1>3 DEF Promised, Opening, Authenticating, Runs, Waits, AtCard, CardStates
  <2> QED BY <2>1, <2>2, <2>3 DEF Orderly
<1>5. HandlesLive
  BY DEF Init, CardInit, NoCardInfo, HandlesLive
<1> QED BY <1>1, <1>2, <1>3, <1>4, <1>5
        DEF OrderInv, SelectsFree, Looking, KillWaits, NoError, EacUnderWay

(* A command that the reader thread takes is true: the card behind the     *)
(* open handle is the one whose password was verified, and its chip has    *)
(* come as far as the command needs it.                                    *)
LEMMA TakenInOrder ==
  ASSUME TypeOK, EacUnderWay, cmds # <<>>, Reach(Head(cmds).reader)
  PROVE  LET c == Head(cmds)
         IN /\ c.op = "EAC1" => chan[c.reader] = "pace"
            /\ c.op = "EAC2" => chan[c.reader] \in {"pace", "eac1"}
            /\ c.op = "TRANSMIT" => chan[c.reader] = "eac2"
<1>1. 1 \in DOMAIN cmds /\ cmds[1] = Head(cmds)
  BY HeadTailProperties, LenProperties DEF TypeOK, CardTypeOK
<1>2. Head(cmds).op \in EacOps => chan[Head(cmds).reader] \in Needs(Head(cmds).op)
  <2>1. SUFFICES ASSUME Head(cmds).op \in EacOps
                 PROVE  chan[Head(cmds).reader] \in Needs(Head(cmds).op)
    OBVIOUS
  <2>2. 1 \in Asked(EacOps, cmds)
    BY <1>1, <2>1 DEF Asked
  <2>3. Head(cmds).reader = conn.reader /\ Chip(Needs(Head(cmds).op))
    BY <1>1, <2>2 DEF EacUnderWay
  <2> QED BY <2>3 DEF Chip
<1> QED BY <1>2 DEF EacOps, Needs

(* The card that gets the commands of the authentication is the one whose  *)
(* password was verified, and the commands come in their order, whatever   *)
(* is done to the card, the readers and the workflow in between.           *)
THEOREM CommandsInOrder == Spec => EacInOrder
<1>1. OrderInv /\ TypeOK /\ ErrorTold /\ [Next]_allVars => OrderInv'
  BY NextHandles, NextSelects, NextKillWaits, NextNoError, NextEacUnderWay DEF OrderInv
<1>2. TypeOK /\ OrderInv
        => [(cmds # <<>> /\ cmds' = Tail(cmds) /\ Reach(Head(cmds).reader)) =>
              LET c == Head(cmds)
              IN /\ c.op = "EAC1" => chan[c.reader] = "pace"
                 /\ c.op = "EAC2" => chan[c.reader] \in {"pace", "eac1"}
                 /\ c.op = "TRANSMIT" => chan[c.reader] = "eac2"]_allVars
  BY TakenInOrder DEF OrderInv
<1>3. Spec => []OrderInv
  BY InitOrder, <1>1, TypeCorrect, ServerHearsOfError, PTL DEF Spec
<1> QED BY <1>2, <1>3, TypeCorrect, PTL DEF Spec, EacInOrder
=============================================================================
