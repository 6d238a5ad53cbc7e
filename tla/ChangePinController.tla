------------------------ MODULE ChangePinController ------------------------
(***************************************************************************)
(* The PIN management workflow (ChangePinController): open a PACE channel  *)
(* with the PIN and set a new one, or unblock the PIN with the PUK; then   *)
(* forget the passwords, read the retry counter once more and close the    *)
(* connection. The states PaceChannelEstablished, PacePukEstablished and   *)
(* PaceAbort are the signals of CompositeStatePace.                        *)
(***************************************************************************)
EXTENDS CompositeStatePace

(* Nothing sets mCanAllowedMode for a ChangePinContext.                    *)
ASSUME PinModeAssumption == ~CanAllowedMode

allVars == <<cardVars, paceVars>>

ChangePinStates ==
  { "PrepareChangePin", "EnterNewPacePin", "ChangePin", "ClearPacePasswords",
    "DestroyPace", "UpdateRetryCounterFinal", "CleanUpReaderManager", "FinalState",
    "Stopped" }

TypeOK ==
  /\ CardTypeOK
  /\ ContextTypeOK
  /\ st \in PaceStates \cup PaceSignals \cup ChangePinStates

Init == CardInit /\ ContextInit /\ st = "MaintainCardConnection"

-----------------------------------------------------------------------------
(* The transitions on firePaceChannelEstablished, firePacePukEstablished   *)
(* and fireAbort of the composite state.                                   *)
PaceChannelEstablished == Leads("PaceChannelEstablished", "PrepareChangePin")
PacePukEstablished     == Leads("PacePukEstablished", "ClearPacePasswords")
PaceAbort              == Leads("PaceAbort", "ClearPacePasswords")

(* StatePrepareChangePin::run *)
RunPrepareChangePin ==
  Leads("PrepareChangePin",
        IF pw["NEW_PIN"] = NoPassword THEN "EnterNewPacePin" ELSE "ChangePin")

(* The user enters the new PIN, with a PIN pad only later on the reader;   *)
(* a killed workflow approves the state as it is.                          *)
EnterNewPacePin ==
  /\ Runs("EnterNewPacePin")
  /\ Goto("ChangePin")
  /\ pw' = IF killed \/ conn.reader \notin BasicReaders THEN pw
           ELSE [pw EXCEPT !["NEW_PIN"] = NewPin]
  /\ UNCHANGED <<idType, readerName, expReader, expRc, lastPace, status, vanished>>
  /\ UnchangedReader /\ UnchangedControl

(* StateChangePin::run *)
RunChangePin ==
  /\ Runs("ChangePin")
  /\ conn # NoConn
  /\ Post("SET_PIN", "UNKNOWN", pw["NEW_PIN"])
  /\ Wait
  /\ UNCHANGED contextVars /\ UnchangedControl

(* StateChangePin::onSetEidPinDone *)
DeliverSetEidPin ==
  /\ Delivers("ChangePin", "SET_PIN")
  /\ LET code == Head(msgs).code
     IN /\ lastPace' = code
        /\ \/ /\ code = "OK"
              /\ Goto("DestroyPace") /\ status' = status
           \/ /\ code = "CANCELLATION_BY_USER"
              /\ Goto("MaintainCardConnection") /\ UpdateStatus("Cancelled")
           \/ /\ code = "NEW_PIN_MISMATCH"
              /\ Goto("ClearPacePasswords") /\ UpdateStatus("Error")
           \/ /\ code \notin {"OK", "CANCELLATION_BY_USER", "NEW_PIN_MISMATCH"}
              /\ Goto("MaintainCardConnection") /\ status' = status
  /\ msgs' = Tail(msgs)
  /\ UNCHANGED <<worldVars, chipVars, rd, failures, cmds, conn>>
  /\ UNCHANGED <<pw, idType, readerName, expReader, expRc, vanished>>
  /\ UnchangedControl

RunDestroyPace     == RunDestroy("DestroyPace")
DeliverDestroyPace == DeliverDestroy("DestroyPace", "ClearPacePasswords")

(* StateClearPacePasswords::run, ChangePinContext::resetPacePasswords *)
RunClearPacePasswords ==
  /\ Runs("ClearPacePasswords")
  /\ ResetPacePasswords
  /\ Goto("UpdateRetryCounterFinal")
  /\ UNCHANGED <<idType, readerName, expReader, expRc, lastPace, status, vanished>>
  /\ UnchangedReader /\ UnchangedControl

RunUpdateRetryCounterFinal == RunUpdate("UpdateRetryCounterFinal", "CleanUpReaderManager")

DeliverUpdateRetryCounterFinal ==
  DeliverUpdate("UpdateRetryCounterFinal", "CleanUpReaderManager", "CleanUpReaderManager")

RunCleanUpReaderManager == CleanUpReaderManager("FinalState")

-----------------------------------------------------------------------------
CancellableStates ==
  { "SelectReader", "ConnectCard", "UpdateRetryCounter", "EnterPacePassword",
    "EstablishPaceChannel", "DestroyPaceAfterPuk", "EnterNewPacePin", "ChangePin",
    "DestroyPace", "UpdateRetryCounterFinal" }

AbortTarget(s) ==
  CASE s = "DestroyPace" -> "ClearPacePasswords"
    [] s = "UpdateRetryCounterFinal" -> "CleanUpReaderManager"
    [] OTHER -> PaceAbortTarget(s)

Cancel == UserCancels(CancellableStates, AbortTarget)
CancelKilled == KillCancels(CancellableStates, AbortTarget)

RunChangePinWorkflow ==
  \/ PaceChannelEstablished
  \/ PacePukEstablished
  \/ PaceAbort
  \/ RunPrepareChangePin
  \/ RunChangePin
  \/ RunDestroyPace
  \/ RunClearPacePasswords
  \/ RunUpdateRetryCounterFinal
  \/ RunCleanUpReaderManager
  \/ CancelKilled

DeliverToChangePin ==
  \/ DeliverSetEidPin
  \/ DeliverDestroyPace
  \/ DeliverUpdateRetryCounterFinal

MainThread == RunPace \/ RunChangePinWorkflow \/ DeliverToPace \/ DeliverToChangePin

User ==
  \/ EnterPacePassword
  \/ EnterNewPacePin
  \/ RunFinalState
  \/ RetryCardSelection
  \/ Cancel
  \/ Kill

(* The reader thread and the user's hands do not touch the workflow. *)
Executing   == Execute /\ UNCHANGED paceVars
Environment == (ReaderThread \/ World) /\ UNCHANGED paceVars

(* The workflow is over and nothing is left to deliver. *)
Terminated == st = "Stopped" /\ cmds = <<>> /\ msgs = <<>> /\ UNCHANGED allVars

Next == MainThread \/ User \/ Environment \/ Terminated

(* The main thread and the reader thread keep working; a killed workflow   *)
(* approves its states itself. Of the user nothing is assumed.             *)
ApprovedByKill == killed /\ (EnterPacePassword \/ EnterNewPacePin \/ RunFinalState)

Fairness ==
  /\ WF_allVars(MainThread)
  /\ WF_allVars(ApprovedByKill)
  /\ WF_allVars(Executing)

Spec == Init /\ [][Next]_allVars /\ Fairness

-----------------------------------------------------------------------------
(* A PIN is only sent to a chip that will look at it: with its counter at  *)
(* 1 the CAN channel is open, and never with its counter at 0.             *)
LastAttemptBehindCan ==
  [][ (cmds # <<>> /\ cmds' = Tail(cmds) /\ Head(cmds).op = "PACE" /\ Head(cmds).id = "PIN"
         /\ OwnCard(Head(cmds).reader))
      => LET k == slot[Head(cmds).reader]
         IN chipRc[k] > 1 \/ (chipRc[k] = 1 /\ canOpen[k]) ]_allVars

(* The user is asked for the password the card in the reader needs.        *)
RightPasswordAsked ==
  (st = "EnterPacePassword" /\ OwnCard(conn.reader))
    => LET k == slot[conn.reader]
       IN CASE idType = "PUK" -> chipRc[k] = 0
            [] idType = "CAN" -> chipRc[k] = 1 /\ ~canOpen[k]
            [] OTHER -> chipRc[k] > 1 \/ (chipRc[k] = 1 /\ canOpen[k])

(* One entry of the PIN costs the card it is sent to over the connection's *)
(* own handle at most one attempt, also when the card was taken away       *)
(* before it could answer.                                                 *)
RejectedOnce == \A c \in Cards : blame[c] <= 1

(* The message about a wrong PIN names the attempt the chip has counted.   *)
AttemptReportedRight ==
  [][ (Waits("EstablishPaceChannel") /\ ~Waits("EstablishPaceChannel")'
         /\ OwnCard(conn.reader) /\ lastPace' \in {"INVALID_PIN", "INVALID_PIN_2", "INVALID_PIN_3"})
      => chipRc[slot[conn.reader]] =
           (CASE lastPace' = "INVALID_PIN" -> 2 [] lastPace' = "INVALID_PIN_2" -> 1 [] OTHER -> 0)
    ]_allVars

(* No password outlives the composite state when it fails, nor the         *)
(* workflow.                                                               *)
PasswordsForgotten ==
  st \in {"PaceAbort", "PacePukEstablished", "UpdateRetryCounterFinal",
          "CleanUpReaderManager", "FinalState", "Stopped"} => pw = NoPasswords

(* Once an error or a cancellation is on record the card gets no further   *)
(* password, no PUK and no new PIN (after the quit request: once it has    *)
(* cancelled the state that was waiting).                                  *)
SilentAfterError ==
  [][ (status # "NoError" /\ ~cancelPending) =>
        \A i \in DOMAIN cmds' :
          cmds'[i].op \in {"PACE", "UNBLOCK", "SET_PIN"} =>
            \E j \in DOMAIN cmds : cmds[j].op = cmds'[i].op ]_allVars

(* A workflow that ends without an error has done what it reports.         *)
SuccessMeansDone ==
  (st = "FinalState" /\ status = "NoError") =>
    \/ lastPace = "OK_PUK" /\ done = "unblocked"
    \/ lastPace = "OK" /\ done = "changed"

(* A handle on a card belongs to the connection, or is on its way to it,   *)
(* or is about to be closed: none is leaked.                               *)
HandleOwned ==
  \A r \in Readers : rd[r].handle # "closed" =>
    \/ conn # NoConn /\ conn.reader = r
    \/ \E i \in DOMAIN msgs : msgs[i].kind = "CREATE" /\ msgs[i].code = "OK" /\ msgs[i].reader = r
    \/ \E i \in DOMAIN cmds : cmds[i].op = "DROP" /\ cmds[i].reader = r

(* The first error stays on record; only the quit request overwrites it.   *)
FirstErrorStays ==
  [][status # "NoError" => status' \in {status, "Killed"}]_allVars

(* The quit request ends the workflow without the user.                    *)
KilledStops == killed ~> st = "Stopped"

(* An error or a cancellation leads to the result screen.                  *)
ErrorEnds == status # "NoError" ~> st \in {"FinalState", "Stopped"}

(* After the workflow every card is released: no handle stays open.        *)
CardsReleased == st = "Stopped" ~> \A r \in Readers : rd[r].handle = "closed"

-----------------------------------------------------------------------------
(* What assertions in the source say and the code does not keep. *)

(* Q_ASSERT(!pNewPin.isEmpty()) (CardConnectionWorker::setEidPin)          *)
NewPinEntered ==
  \A i \in DOMAIN cmds :
    cmds[i].op = "SET_PIN" /\ cmds[i].reader \in BasicReaders => cmds[i].pw # NoPassword

(* "Retry counter must be intialized if command has succeeded."            *)
(* (StateUpdateRetryCounter::onUpdateRetryCounterDone)                     *)
RetryCounterInitialised == st = "VerifyRetryCounter" /\ conn # NoConn => conn.rc # -1
=============================================================================
