-------------------------- MODULE ChangePinProofs --------------------------
(***************************************************************************)
(* The PIN workflow with any readers and cards, any number of card         *)
(* movements and any behaviour of the user: what is proved here needs no   *)
(* bound.                                                                  *)
(***************************************************************************)
EXTENDS ChangePinController, PaceProofs

-----------------------------------------------------------------------------
(* Control: where passwords are gone, and where an error leads. *)

(* From these states on no password is asked for any more. *)
Forgotten ==
  { "PaceAbort", "DestroyPaceAfterPuk", "PacePukEstablished", "UpdateRetryCounterFinal",
    "CleanUpReaderManager", "FinalState", "Stopped" }

PasswordsGone == st \in Forgotten => pw = NoPasswords

(* The states an error leads to. *)
AfterError ==
  { "MaintainCardConnection", "ClearPacePasswordsOnError", "PaceAbort", "ClearPacePasswords",
    "UpdateRetryCounterFinal", "CleanUpReaderManager", "FinalState", "Stopped" }

ErrorIsTakenAway == (status # "NoError" /\ ~cancelPending) => st \in AfterError

ControlInv == PasswordsGone /\ ErrorIsTakenAway /\ ReaderSelected

LEMMA RunPaceControl ==
  ASSUME ControlInv, RunPace
  PROVE  ControlInv'
<1> USE DEF ControlInv, PasswordsGone, ErrorIsTakenAway, ReaderSelected, Forgotten, AfterError,
            Runs, Goto, Wait, UnchangedControl, contextVars, ResetPacePasswords
<1>1. CASE RunMaintainCardConnection
  BY <1>1 DEF RunMaintainCardConnection, MaintainAborts, MaintainAfterWrongPassword,
              MaintainAfterCardGone, MaintainProceeds, MustAbort
<1>2. CASE RunClearPacePasswordsOnError
  BY <1>2 DEF RunClearPacePasswordsOnError
<1>3. CASE RunSelectReader
  BY <1>3 DEF RunSelectReader, SelectReaderNow
<1>4. CASE RunConnectCard
  BY <1>4 DEF RunConnectCard
<1>5. CASE FinishConnectCard
  BY <1>5 DEF FinishConnectCard
<1>6. CASE RunUpdateRetryCounter
  BY <1>6 DEF RunUpdateRetryCounter, RunUpdate
<1>7. CASE RunVerifyRetryCounter
  BY <1>7 DEF RunVerifyRetryCounter
<1>8. CASE RunPreparePace
  BY <1>8 DEF RunPreparePace, Demand
<1>9. CASE RunEstablishPaceChannel
  BY <1>9 DEF RunEstablishPaceChannel, EstablishWithoutPassword, EstablishWithPassword
<1>10. CASE RunUnfortunateCardPosition
  BY <1>10 DEF RunUnfortunateCardPosition
<1>11. CASE RunClearPacePasswordsBeforeDestroy
  BY <1>11 DEF RunClearPacePasswordsBeforeDestroy
<1>12. CASE RunDestroyPaceAfterPuk
  BY <1>12 DEF RunDestroyPaceAfterPuk, RunDestroy
<1> QED BY <1>1, <1>2, <1>3, <1>4, <1>5, <1>6, <1>7, <1>8, <1>9, <1>10, <1>11, <1>12
        DEF RunPace

LEMMA DeliverControl ==
  ASSUME ControlInv, DeliverToPace \/ DeliverToChangePin
  PROVE  ControlInv'
<1> USE DEF ControlInv, PasswordsGone, ErrorIsTakenAway, ReaderSelected, Forgotten, AfterError,
            Runs, Waits, Goto, Wait, UnchangedControl, contextVars, controlVars, paceVars,
            Delivers
<1>1. CASE DeliverCall \/ DeliverStale
  BY <1>1 DEF DeliverCall, DeliverStale
<1>2. CASE DeliverCreate
  BY <1>2 DEF DeliverCreate
<1>3. CASE DeliverEvent
  BY <1>3 DEF DeliverEvent, SelectReaderNow
<1>4. CASE DeliverUpdateRetryCounter
  BY <1>4 DEF DeliverUpdateRetryCounter, DeliverUpdate
<1>5. CASE DeliverPace
  <2> USE DEF DeliverPace, DeliversPace
  <2>1. CASE PaceDone
    BY <1>5, <2>1 DEF PaceDone
  <2>2. CASE PaceCardGone
    BY <1>5, <2>2 DEF PaceCardGone
  <2>3. CASE PaceFailed
    BY <1>5, <2>3 DEF PaceFailed
  <2> QED BY <1>5, <2>1, <2>2, <2>3
<1>6. CASE DeliverDestroyPaceAfterPuk
  BY <1>6 DEF DeliverDestroyPaceAfterPuk, DeliverDestroy
<1>7. CASE DeliverSetEidPin
  BY <1>7 DEF DeliverSetEidPin
<1>8. CASE DeliverDestroyPace
  BY <1>8 DEF DeliverDestroyPace, DeliverDestroy
<1>9. CASE DeliverUpdateRetryCounterFinal
  BY <1>9 DEF DeliverUpdateRetryCounterFinal, DeliverUpdate
<1> QED BY <1>1, <1>2, <1>3, <1>4, <1>5, <1>6, <1>7, <1>8, <1>9
        DEF DeliverToPace, DeliverToChangePin

LEMMA CancelControl ==
  ASSUME ControlInv, Cancel \/ CancelKilled
  PROVE  ControlInv'
<1>1. /\ st \in CancellableStates /\ st' = AbortTarget(st) /\ pw' = pw
      /\ (status # "NoError" => status' = status) /\ cancelPending' = FALSE
  BY DEF Cancel, CancelKilled, UserCancels, KillCancels, OnUserCancelled, UpdateStatus, Goto,
         AtRest, UnchangedControl
<1>2. st' \in AfterError
  BY <1>1 DEF CancellableStates, AbortTarget, PaceAbortTarget, AfterError
<1>3. st' \in Forgotten => st \in Forgotten
  BY <1>1 DEF CancellableStates, AbortTarget, PaceAbortTarget, Forgotten
<1>4. st' # "ConnectCard"
  BY <1>2 DEF AfterError
<1> QED BY <1>1, <1>2, <1>3, <1>4 DEF ControlInv, PasswordsGone, ErrorIsTakenAway, ReaderSelected

LEMMA RunChangePinControl ==
  ASSUME ControlInv, RunChangePinWorkflow
  PROVE  ControlInv'
<1> USE DEF ControlInv, PasswordsGone, ErrorIsTakenAway, ReaderSelected, Forgotten, AfterError,
            Runs, Goto, Wait, UnchangedControl, contextVars, ResetPacePasswords, Leads
<1>1. CASE PaceChannelEstablished
  BY <1>1 DEF PaceChannelEstablished
<1>2. CASE PacePukEstablished \/ PaceAbort
  BY <1>2 DEF PacePukEstablished, PaceAbort
<1>3. CASE RunPrepareChangePin
  BY <1>3 DEF RunPrepareChangePin
<1>4. CASE RunChangePin
  BY <1>4 DEF RunChangePin
<1>5. CASE RunDestroyPace
  BY <1>5 DEF RunDestroyPace, RunDestroy
<1>6. CASE RunClearPacePasswords
  BY <1>6 DEF RunClearPacePasswords
<1>7. CASE RunUpdateRetryCounterFinal
  BY <1>7 DEF RunUpdateRetryCounterFinal, RunUpdate
<1>8. CASE RunCleanUpReaderManager
  BY <1>8 DEF RunCleanUpReaderManager, CleanUpReaderManager
<1>9. CASE CancelKilled
  BY <1>9, CancelControl
<1> QED BY <1>1, <1>2, <1>3, <1>4, <1>5, <1>6, <1>7, <1>8, <1>9 DEF RunChangePinWorkflow

LEMMA UserControl ==
  ASSUME ControlInv, User
  PROVE  ControlInv'
<1> USE DEF ControlInv, PasswordsGone, ErrorIsTakenAway, ReaderSelected, Forgotten, AfterError,
            Runs, Goto, UnchangedControl, contextVars
<1>1. CASE EnterPacePassword
  BY <1>1 DEF EnterPacePassword
<1>2. CASE EnterNewPacePin
  BY <1>2 DEF EnterNewPacePin
<1>3. CASE RunFinalState
  BY <1>3 DEF RunFinalState
<1>4. CASE RetryCardSelection
  BY <1>4 DEF RetryCardSelection
<1>5. CASE Cancel
  BY <1>5, CancelControl
<1>6. CASE Kill
  BY <1>6 DEF Kill
<1> QED BY <1>1, <1>2, <1>3, <1>4, <1>5, <1>6 DEF User

LEMMA NextControl ==
  ASSUME ControlInv, [Next]_allVars
  PROVE  ControlInv'
<1>1. CASE RunPace
  BY <1>1, RunPaceControl
<1>2. CASE RunChangePinWorkflow
  BY <1>2, RunChangePinControl
<1>3. CASE DeliverToPace \/ DeliverToChangePin
  BY <1>3, DeliverControl
<1>4. CASE User
  BY <1>4, UserControl
<1>5. CASE UNCHANGED paceVars
  BY <1>5 DEF ControlInv, PasswordsGone, ErrorIsTakenAway, ReaderSelected, paceVars, contextVars, controlVars
<1>6. Environment \/ Terminated \/ UNCHANGED allVars => UNCHANGED paceVars
  BY DEF Environment, Terminated, allVars
<1> QED BY <1>1, <1>2, <1>3, <1>4, <1>5, <1>6 DEF Next, MainThread

LEMMA InitControl == Init => ControlInv
BY DEF Init, ContextInit, ControlInv, PasswordsGone, ErrorIsTakenAway, ReaderSelected, Forgotten

THEOREM Control == Spec => []ControlInv
<1>1. ControlInv /\ [Next]_allVars => ControlInv'
  BY NextControl
<1> QED BY InitControl, <1>1, PTL DEF Spec

(* ClearPacePasswords runs on every way out of the composite state and of  *)
(* the workflow: no password is kept behind.                               *)
THEOREM NoPasswordKept == Spec => []PasswordsForgotten
<1>1. ControlInv => PasswordsForgotten
  BY DEF ControlInv, PasswordsGone, Forgotten, PasswordsForgotten
<1> QED BY <1>1, Control, PTL

-----------------------------------------------------------------------------
(* AbstractState::updateStatus and every other writer of the status keep   *)
(* the first error.                                                        *)

LEMMA StatusStep ==
  ASSUME [Next]_allVars, status # "NoError"
  PROVE  status' \in {status, "Killed"}
<1> USE DEF UpdateStatus
<1>1. CASE RunPace
  BY <1>1
     DEF RunPace, contextVars, RunMaintainCardConnection, MaintainAborts, MaintainAfterWrongPassword,
         MaintainAfterCardGone, MaintainProceeds, RunClearPacePasswordsOnError, RunSelectReader,
         RunConnectCard, FinishConnectCard, RunUpdateRetryCounter, RunUpdate,
         RunVerifyRetryCounter, RunPreparePace, RunEstablishPaceChannel,
         RunUnfortunateCardPosition, RunClearPacePasswordsBeforeDestroy,
         RunDestroyPaceAfterPuk, RunDestroy
<1>2. CASE DeliverToPace \/ DeliverToChangePin
  BY <1>2
     DEF DeliverToPace, DeliverToChangePin, contextVars, paceVars, DeliverCall, DeliverStale,
         DeliverCreate, DeliverEvent, DeliverUpdateRetryCounter, DeliverUpdate, DeliverPace,
         PaceDone, PaceCardGone, PaceFailed, DeliverDestroyPaceAfterPuk, DeliverDestroy,
         DeliverSetEidPin, DeliverDestroyPace, DeliverUpdateRetryCounterFinal
<1>3. CASE Cancel \/ CancelKilled
  BY <1>3 DEF Cancel, CancelKilled, UserCancels, KillCancels, OnUserCancelled
<1>4. CASE RunChangePinWorkflow
  BY <1>3, <1>4
     DEF RunChangePinWorkflow, contextVars, Leads, PaceChannelEstablished, PacePukEstablished,
         PaceAbort, RunPrepareChangePin, RunChangePin, RunDestroyPace, RunDestroy,
         RunClearPacePasswords, RunUpdateRetryCounterFinal, RunUpdate, RunCleanUpReaderManager,
         CleanUpReaderManager
<1>5. CASE User
  BY <1>3, <1>5
     DEF User, contextVars, EnterPacePassword, EnterNewPacePin, RunFinalState,
         RetryCardSelection, Kill
<1>6. CASE Environment \/ Terminated \/ UNCHANGED allVars
  BY <1>6 DEF Environment, Terminated, allVars, paceVars, contextVars
<1> QED BY <1>1, <1>2, <1>4, <1>5, <1>6 DEF Next, MainThread

(* What the result screen shows is the first thing that went wrong.        *)
THEOREM FirstErrorKept == Spec => FirstErrorStays
<1>1. [Next]_allVars => [status # "NoError" => status' \in {status, "Killed"}]_allVars
  BY StatusStep
<1> QED BY <1>1, PTL DEF Spec, FirstErrorStays
-----------------------------------------------------------------------------
(* Types: the steps of the workflow itself, and all together. *)

LEMMA DeliverSetEidPinType ==
  ASSUME PaceTypeOK, DeliverSetEidPin
  PROVE  PaceTypeOK'
<1>1. CardTypeOK /\ ModeTypeOK /\ DataTypeOK
  BY TypeParts
<1>2. CardTypeOK'
  <2>1. Tail(msgs) \in Seq(Messages)
    BY <1>1, FirstMessage DEF DeliverSetEidPin, Delivers
  <2> QED BY <1>1, <2>1 DEF DeliverSetEidPin, CardTypeOK, Messages, worldVars, chipVars
<1>3. ModeTypeOK'
  BY <1>1, StepControl DEF DeliverSetEidPin
<1>4. DataTypeOK'
  <2>1. lastPace' \in Codes
    <3>1. msgs # <<>> /\ Head(msgs).kind = "SET_PIN" /\ lastPace' = Head(msgs).code
      BY DEF DeliverSetEidPin, Delivers
    <3> QED BY <1>1, <3>1, FirstMessage
  <2>2. status' \in {"NoError", "Cancelled", "Killed", "Error", "CardRemoved", "NoPermission"}
    BY <1>1 DEF DeliverSetEidPin, UpdateStatus, DataTypeOK
  <2> QED BY <1>1, <2>1, <2>2 DEF DeliverSetEidPin, DataTypeOK
<1> QED BY <1>2, <1>3, <1>4, TypePartsNext

LEMMA EnterNewPacePinType ==
  ASSUME PaceTypeOK, EnterNewPacePin
  PROVE  PaceTypeOK'
<1>1. CardTypeOK /\ ModeTypeOK /\ DataTypeOK
  BY TypeParts
<1>2. CardTypeOK'
  BY <1>1, UnchangedReaderType DEF EnterNewPacePin
<1>3. ModeTypeOK'
  BY <1>1, StepControl DEF EnterNewPacePin
<1>4. DataTypeOK'
  BY <1>1 DEF EnterNewPacePin, DataTypeOK, NewPin, Passwords
<1> QED BY <1>2, <1>3, <1>4, TypePartsNext

LEMMA RunChangePinType ==
  ASSUME PaceTypeOK, RunChangePin
  PROVE  PaceTypeOK'
<1>1. CardTypeOK /\ ModeTypeOK /\ DataTypeOK
  BY TypeParts
<1>2. CardTypeOK'
  <2>1. /\ "SET_PIN" \in CommandOps /\ "UNKNOWN" \in PaceIds
        /\ pw["NEW_PIN"] \in Passwords \cup {NoPassword}
    BY <1>1 DEF CommandOps, PaceIds, DataTypeOK, Secrets
  <2> QED BY <1>1, <2>1, PostType DEF RunChangePin
<1>3. ModeTypeOK'
  BY <1>1, StepControl DEF RunChangePin
<1>4. DataTypeOK'
  BY <1>1, UnchangedData DEF RunChangePin
<1> QED BY <1>2, <1>3, <1>4, TypePartsNext

LEMMA RunClearPacePasswordsType ==
  ASSUME PaceTypeOK, RunClearPacePasswords
  PROVE  PaceTypeOK'
<1>1. CardTypeOK /\ ModeTypeOK /\ DataTypeOK
  BY TypeParts
<1>2. CardTypeOK'
  BY <1>1, UnchangedReaderType DEF RunClearPacePasswords
<1>3. ModeTypeOK'
  BY <1>1, StepControl DEF RunClearPacePasswords
<1>4. DataTypeOK'
  BY <1>1, ResetType DEF RunClearPacePasswords, DataTypeOK
<1> QED BY <1>2, <1>3, <1>4, TypePartsNext

States == PaceStates \cup PaceSignals \cup ChangePinStates

LEMMA WorkflowTypeParts == TypeOK <=> PaceTypeOK /\ st \in States
BY DEF TypeOK, PaceTypeOK, States

LEMMA NextData ==
  ASSUME PaceTypeOK, ControlInv, [Next]_allVars
  PROVE  PaceTypeOK'
<1>1. CASE RunPace \/ DeliverToPace
  BY <1>1, PaceType DEF ControlInv
<1>2. CASE DeliverToChangePin
  BY <1>2, DeliverUpdateType, DeliverDestroyType, DeliverSetEidPinType
     DEF DeliverToChangePin, DeliverUpdateRetryCounterFinal, DeliverDestroyPace
<1>3. CASE Cancel \/ CancelKilled
  BY <1>3, CancelType DEF Cancel, CancelKilled, UserCancels, KillCancels, UnchangedControl
<1>4. CASE RunChangePinWorkflow
  <2>1. CASE PaceChannelEstablished \/ PacePukEstablished \/ PaceAbort \/ RunPrepareChangePin
    BY <2>1, LeadsType
       DEF PaceChannelEstablished, PacePukEstablished, PaceAbort, RunPrepareChangePin
  <2>2. CASE RunChangePin \/ RunDestroyPace \/ RunClearPacePasswords
    BY <2>2, RunChangePinType, RunDestroyType, RunClearPacePasswordsType DEF RunDestroyPace
  <2>3. CASE RunUpdateRetryCounterFinal \/ RunCleanUpReaderManager
    BY <2>3, RunUpdateType, CleanUpReaderManagerType
       DEF RunUpdateRetryCounterFinal, RunCleanUpReaderManager
  <2> QED BY <1>3, <1>4, <2>1, <2>2, <2>3 DEF RunChangePinWorkflow
<1>5. CASE User
  BY <1>3, <1>5, EnterPacePasswordType, EnterNewPacePinType, RunFinalStateType,
     RetryCardSelectionType, KillType
     DEF User
<1>6. CASE Environment
  BY <1>6, HardwareType DEF Environment
<1>7. CASE Terminated \/ UNCHANGED allVars
  BY <1>7, UnchangedType DEF Terminated, allVars
<1> QED BY <1>1, <1>2, <1>4, <1>5, <1>6, <1>7 DEF Next, MainThread

LEMMA NextStates ==
  ASSUME st \in States, [Next]_allVars
  PROVE  st' \in States
<1> USE DEF States, Goto, Wait
<1>1. CASE RunPace \/ DeliverToPace
  BY <1>1, PaceStays
<1>2. CASE DeliverToChangePin
  BY <1>2
     DEF DeliverToChangePin, DeliverSetEidPin, DeliverDestroyPace, DeliverDestroy, PaceStates,
         DeliverUpdateRetryCounterFinal, DeliverUpdate, ChangePinStates
<1>3. CASE Cancel \/ CancelKilled
  BY <1>3
     DEF Cancel, CancelKilled, UserCancels, KillCancels, OnUserCancelled, AbortTarget,
         PaceAbortTarget, PaceStates, PaceSignals, ChangePinStates
<1>4. CASE RunChangePinWorkflow
  BY <1>3, <1>4
     DEF RunChangePinWorkflow, Leads, PaceChannelEstablished, PacePukEstablished, PaceAbort,
         RunPrepareChangePin, RunChangePin, RunDestroyPace, RunDestroy, RunClearPacePasswords,
         RunUpdateRetryCounterFinal, RunUpdate, RunCleanUpReaderManager, CleanUpReaderManager,
         ChangePinStates
<1>5. CASE User
  BY <1>3, <1>5
     DEF User, EnterPacePassword, EnterNewPacePin, RunFinalState, RetryCardSelection, Kill,
         PaceStates, ChangePinStates
<1>6. CASE Environment \/ Terminated \/ UNCHANGED allVars
  BY <1>6 DEF Environment, Terminated, allVars, paceVars, controlVars
<1> QED BY <1>1, <1>2, <1>4, <1>5, <1>6 DEF Next, MainThread

(* Every variable of the workflow, its context, the reader thread and the  *)
(* queues between them stays in its type, whatever the user, the cards and *)
(* the threads do.                                                         *)
THEOREM TypeCorrect == Spec => []TypeOK
<1>1. Init => TypeOK
  <2>1. ASSUME Init PROVE st \in States
    BY <2>1 DEF Init, States, PaceStates
  <2> QED BY <2>1, InitPaceType, WorkflowTypeParts DEF Init
<1>2. TypeOK /\ ControlInv /\ [Next]_allVars => TypeOK'
  <2>1. TypeOK' <=> PaceTypeOK' /\ st' \in States
    BY DEF TypeOK, PaceTypeOK, States
  <2> QED BY <2>1, NextData, NextStates, WorkflowTypeParts
<1> QED BY <1>1, <1>2, Control, PTL DEF Spec

-----------------------------------------------------------------------------
(* The commands that bring a password, a PUK or a new PIN to the card. *)
SecretOps == {"PACE", "UNBLOCK", "SET_PIN"}

Erred == status # "NoError" /\ ~cancelPending

LEMMA WorkflowSilent ==
  ASSUME CardTypeOK, st \in AfterError, ~cancelPending, RunChangePinWorkflow \/ DeliverToChangePin
  PROVE  NoneAdded(SecretOps)
<1>1. CASE RunUpdateRetryCounterFinal
  <2>1. "UPDATE_RC" \in CommandOps \ SecretOps
    BY DEF CommandOps, SecretOps
  <2> QED BY <1>1, <2>1, KeptQueue, HarmlessPost
      DEF RunUpdateRetryCounterFinal, RunUpdate, PostUpdateRetryCounter, UnchangedReader, cardVars
<1>2. CASE ~RunUpdateRetryCounterFinal
  <2>1. cmds' = cmds
    BY <1>2
       DEF RunChangePinWorkflow, AfterError, Runs, Leads, PaceChannelEstablished,
           PacePukEstablished, PaceAbort, RunPrepareChangePin, RunChangePin, RunDestroyPace,
           RunDestroy, RunClearPacePasswords, RunCleanUpReaderManager, CleanUpReaderManager,
           CancelKilled, KillCancels, DeliverToChangePin, DeliverSetEidPin, DeliverDestroyPace,
           DeliverDestroy, DeliverUpdateRetryCounterFinal, DeliverUpdate, ResetCardConnection,
           UnchangedReader, cardVars
  <2> QED BY <2>1, KeptQueue
<1> QED BY <1>1, <1>2

LEMMA UserSilent ==
  ASSUME CardTypeOK, User
  PROVE  NoneAdded(SecretOps)
<1>1. cmds' = cmds \/ cmds' = Disown(cmds)
  BY DEF User, EnterPacePassword, EnterNewPacePin, RunFinalState, RetryCardSelection,
         Cancel, UserCancels, OnUserCancelled, Kill, UnchangedReader, cardVars, readerVars
<1> QED BY <1>1, KeptQueue, DisownedQueue

LEMMA EnvironmentSilent ==
  ASSUME CardTypeOK, Environment \/ Terminated \/ UNCHANGED allVars
  PROVE  NoneAdded(SecretOps)
<1>1. CASE Execute
  BY <1>1, ExecuteSilent
<1>2. CASE ~Execute
  <2>1. cmds' = cmds
    BY <1>2
       DEF Environment, ReaderThread, Update, World, TakeCard, PutCard, readerVars, Terminated,
           allVars, cardVars
  <2> QED BY <2>1, KeptQueue
<1> QED BY <1>1, <1>2

LEMMA SilentStep ==
  ASSUME TypeOK, ControlInv, Erred, [Next]_allVars
  PROVE  NoneAdded(SecretOps)
<1>1. CardTypeOK /\ st \in AfterError /\ ~cancelPending
  BY DEF TypeOK, ControlInv, ErrorIsTakenAway, Erred
<1>2. SecretOps \cap OwnOps = {} /\ st # "EstablishPaceChannel"
  BY <1>1 DEF SecretOps, OwnOps, AfterError
<1> QED BY <1>1, <1>2, RunPaceSilent, DeliverPaceSilent, WorkflowSilent, UserSilent, EnvironmentSilent
    DEF Next, MainThread

(* After the first error or cancellation the card is not sent a password,  *)
(* a PUK or a new PIN any more.                                            *)
THEOREM NothingSentAfterError == Spec => SilentAfterError
<1>1. TypeOK /\ ControlInv /\ [Next]_allVars
        => [(status # "NoError" /\ ~cancelPending) =>
              \A i \in DOMAIN cmds' :
                cmds'[i].op \in {"PACE", "UNBLOCK", "SET_PIN"} =>
                  \E j \in DOMAIN cmds : cmds[j].op = cmds'[i].op]_allVars
  BY SilentStep DEF Erred, NoneAdded, SecretOps
<1> QED BY <1>1, TypeCorrect, Control, PTL DEF Spec, SilentAfterError

-----------------------------------------------------------------------------
(* Who owns the handle on a card. A connection is only made for a workflow *)
(* that has none, so no handle is lost when its CardConnection is replaced. *)

Announced(q, r) ==
  \E i \in DOMAIN q : q[i].kind = "CREATE" /\ q[i].code = "OK" /\ q[i].reader = r
Dropped(q, r) == \E i \in DOMAIN q : q[i].op = "DROP" /\ q[i].reader = r

HandleInv == HandleOwned /\ SelectsFree

(* A queue loses no announced handle unless it is the one delivered.       *)
LEMMA AnnouncedStays ==
  ASSUME NEW q \in Seq(Messages), NEW r
  PROVE  /\ Announced(q, r) => Announced(Disown(q), r) /\ Announced(Detach(q), r)
         /\ \A m : Announced(q, r) => Announced(Append(q, m), r)
         /\ \A m \in Messages : m.kind = "CREATE" /\ m.code = "OK" /\ m.reader = r
              => Announced(Append(q, m), r)
         /\ \A p \in Seq(Messages) : Announced(q, r) => Announced(q \o p, r)
         /\ q # <<>> /\ Announced(q, r) =>
              \/ Announced(Tail(q), r)
              \/ Head(q).kind = "CREATE" /\ Head(q).code = "OK" /\ Head(q).reader = r
<1>1. Len(q) \in Nat /\ DOMAIN q = 1 .. Len(q) /\ \A i \in 1 .. Len(q) : q[i] \in Messages
  BY LenProperties, ElementOfSeq
<1>2. ASSUME Announced(q, r) PROVE Announced(Disown(q), r) /\ Announced(Detach(q), r)
  <2>1. PICK i \in DOMAIN q : q[i].kind = "CREATE" /\ q[i].code = "OK" /\ q[i].reader = r
    BY <1>2 DEF Announced
  <2>2. q[i] \in Reply
    BY <1>1, <2>1 DEF Messages, Event
  <2>3. /\ i \in DOMAIN Disown(q) /\ Disown(q)[i] = [q[i] EXCEPT !.mine = FALSE]
        /\ i \in DOMAIN Detach(q) /\ Detach(q)[i] = [q[i] EXCEPT !.conn = FALSE]
    BY <2>1 DEF Disown, Detach
  <2>4. /\ Disown(q)[i].kind = "CREATE" /\ Disown(q)[i].code = "OK" /\ Disown(q)[i].reader = r
        /\ Detach(q)[i].kind = "CREATE" /\ Detach(q)[i].code = "OK" /\ Detach(q)[i].reader = r
    BY <2>1, <2>2, <2>3 DEF Reply
  <2> QED BY <2>3, <2>4 DEF Announced
<1>3. ASSUME NEW m PROVE Announced(q, r) => Announced(Append(q, m), r)
  <2>1. ASSUME NEW i \in DOMAIN q PROVE i \in DOMAIN Append(q, m) /\ Append(q, m)[i] = q[i]
    BY <1>1, <2>1
  <2> QED BY <2>1 DEF Announced
<1>4. ASSUME NEW m \in Messages, m.kind = "CREATE" /\ m.code = "OK" /\ m.reader = r
      PROVE  Announced(Append(q, m), r)
  <2>1. Len(q) + 1 \in DOMAIN Append(q, m) /\ Append(q, m)[Len(q) + 1] = m
    BY <1>1, AppendProperties
  <2> QED BY <1>4, <2>1 DEF Announced
<1>5. ASSUME NEW p \in Seq(Messages), Announced(q, r) PROVE Announced(q \o p, r)
  <2>1. PICK i \in DOMAIN q : q[i].kind = "CREATE" /\ q[i].code = "OK" /\ q[i].reader = r
    BY <1>5 DEF Announced
  <2>2. i \in DOMAIN (q \o p) /\ (q \o p)[i] = q[i]
    BY <1>1, <2>1, ConcatProperties, LenProperties
  <2> QED BY <2>1, <2>2 DEF Announced
<1>6. ASSUME q # <<>>, Announced(q, r), ~Announced(Tail(q), r)
      PROVE  Head(q).kind = "CREATE" /\ Head(q).code = "OK" /\ Head(q).reader = r
  <2>1. PICK i \in DOMAIN q : q[i].kind = "CREATE" /\ q[i].code = "OK" /\ q[i].reader = r
    BY <1>6 DEF Announced
  <2>2. i # 1 => i - 1 \in DOMAIN Tail(q) /\ Tail(q)[i - 1] = q[i]
    BY <1>1, <1>6, HeadTailProperties, LenProperties
  <2>3. i = 1
    BY <1>6, <2>1, <2>2 DEF Announced
  <2> QED BY <2>1, <2>3
<1> QED BY <1>2, <1>3, <1>4, <1>5, <1>6

LEMMA DroppedStays ==
  ASSUME NEW q \in Seq(Command), NEW r
  PROVE  /\ Dropped(q, r) => Dropped(Disown(q), r)
         /\ \A c : Dropped(q, r) => Dropped(Append(q, c), r)
         /\ \A c : c.op = "DROP" /\ c.reader = r => Dropped(Append(q, c), r)
         /\ q # <<>> /\ Dropped(q, r) =>
              Dropped(Tail(q), r) \/ (Head(q).op = "DROP" /\ Head(q).reader = r)
<1>1. Len(q) \in Nat /\ DOMAIN q = 1 .. Len(q) /\ \A i \in 1 .. Len(q) : q[i] \in Command
  BY LenProperties, ElementOfSeq
<1>2. ASSUME Dropped(q, r) PROVE Dropped(Disown(q), r)
  <2>1. PICK i \in DOMAIN q : q[i].op = "DROP" /\ q[i].reader = r
    BY <1>2 DEF Dropped
  <2>2. i \in DOMAIN Disown(q) /\ Disown(q)[i] = [q[i] EXCEPT !.mine = FALSE] /\ q[i] \in Command
    BY <1>1, <2>1 DEF Disown
  <2>3. Disown(q)[i].op = "DROP" /\ Disown(q)[i].reader = r
    BY <2>1, <2>2 DEF Command
  <2> QED BY <2>2, <2>3 DEF Dropped
<1>3. ASSUME NEW c PROVE Dropped(q, r) => Dropped(Append(q, c), r)
  <2>1. ASSUME NEW i \in DOMAIN q PROVE i \in DOMAIN Append(q, c) /\ Append(q, c)[i] = q[i]
    BY <1>1, <2>1
  <2> QED BY <2>1 DEF Dropped
<1>4. ASSUME NEW c, c.op = "DROP" /\ c.reader = r PROVE Dropped(Append(q, c), r)
  <2>1. Len(q) + 1 \in DOMAIN Append(q, c) /\ Append(q, c)[Len(q) + 1] = c
    BY <1>1
  <2> QED BY <1>4, <2>1 DEF Dropped
<1>5. ASSUME q # <<>>, Dropped(q, r), ~Dropped(Tail(q), r)
      PROVE  Head(q).op = "DROP" /\ Head(q).reader = r
  <2>1. PICK i \in DOMAIN q : q[i].op = "DROP" /\ q[i].reader = r
    BY <1>5 DEF Dropped
  <2>2. i # 1 => i - 1 \in DOMAIN Tail(q) /\ Tail(q)[i - 1] = q[i]
    BY <1>1, <1>5, HeadTailProperties, LenProperties
  <2>3. i = 1
    BY <1>5, <2>1, <2>2 DEF Dropped
  <2> QED BY <2>1, <2>3
<1> QED BY <1>2, <1>3, <1>4, <1>5

(* What keeps every handle with its owner.                                 *)
LEMMA StillOwned ==
  ASSUME HandleOwned,
         \A r \in Readers : rd'[r].handle # "closed" =>
           /\ rd[r].handle # "closed"
           /\ (conn # NoConn /\ conn.reader = r) => (conn' # NoConn /\ conn'.reader = r)
           /\ Announced(msgs, r) => Announced(msgs', r)
           /\ Dropped(cmds, r) => Dropped(cmds', r)
  PROVE  HandleOwned'
BY DEF HandleOwned, Announced, Dropped

LEMMA ExecuteOwned ==
  ASSUME CardTypeOK, HandleOwned, Execute
  PROVE  HandleOwned'
<1> DEFINE c == Head(cmds)
<1>1. /\ cmds # <<>> /\ cmds' = Tail(cmds) /\ conn' = conn
      /\ c \in Command /\ c.reader \in Readers /\ cmds \in Seq(Command) /\ msgs \in Seq(Messages)
  BY Answered, FirstCommand DEF CardTypeOK, Messages
<1>2. ASSUME NEW r, Announced(msgs, r) PROVE Announced(msgs', r)
  <2>1. CASE msgs' = msgs
    BY <1>2, <2>1
  <2>2. ASSUME NEW m, msgs' = Append(msgs, m) PROVE Announced(msgs', r)
    BY <1>1, <1>2, <2>2, AnnouncedStays
  <2>3. ASSUME NEW m, NEW e \in Event, msgs' = Append(Append(msgs, e), m)
        PROVE  Announced(msgs', r)
    <3>1. Append(msgs, e) \in Seq(Messages) /\ Announced(Append(msgs, e), r)
      BY <1>1, <1>2, AnnouncedStays, Queues DEF Messages
    <3> QED BY <2>3, <3>1, AnnouncedStays
  <2> QED BY <2>1, <2>2, <2>3, Answered
<1>3. ASSUME NEW r \in Readers, Dropped(cmds, r)
      PROVE  Dropped(cmds', r) \/ (ExecuteDrop /\ r = c.reader)
  <2>1. Dropped(Tail(cmds), r) \/ (c.op = "DROP" /\ c.reader = r)
    BY <1>1, <1>3, DroppedStays
  <2>2. c.op = "DROP" => ExecuteDrop
    BY DEF Execute, Executes, ExecuteCreate, ExecuteUpdateRetryCounter,
           ExecuteEstablishPaceChannel, ExecuteUnblockPin, ExecuteDestroyPaceChannel,
           ExecuteSetEidPin
  <2> QED BY <1>1, <2>1, <2>2
<1>4. CASE ExecuteCreate
  <2> DEFINE waiting == \E i \in DOMAIN cmds : cmds[i].op = "CREATE" /\ cmds[i].mine
             message(ok) == [Answer(c, IF ok THEN "OK" ELSE "COMMAND_FAILED") EXCEPT !.mine = waiting]
  <2>0. PICK ok \in BOOLEAN : /\ rd' = (IF ok THEN [rd EXCEPT ![c.reader].handle = "open"] ELSE rd)
                              /\ msgs' = Append(msgs, message(ok))
    BY <1>4 DEF ExecuteCreate
  <2> DEFINE m == message(ok)
  <2>1. /\ c.op = "CREATE" /\ msgs' = Append(msgs, m)
        /\ rd' = IF ok THEN [rd EXCEPT ![c.reader].handle = "open"] ELSE rd
    BY <1>4, <2>0 DEF ExecuteCreate, Executes
  <2>2. CASE ok
    <3>1. m \in Messages /\ m.kind = "CREATE" /\ m.code = "OK" /\ m.reader = c.reader
      <4>1. Answer(c, "OK") \in Reply
        BY <1>1 DEF Answer, Command, Reply, Codes
      <4>2. m = [Answer(c, "OK") EXCEPT !.mine = waiting] /\ waiting \in BOOLEAN
        BY <2>2
      <4> HIDE DEF m, message, waiting
      <4> QED BY <2>1, <4>1, <4>2 DEF Answer, Reply, Messages
    <3>2. Announced(msgs', c.reader)
      <4> HIDE DEF m, message, c
      <4> QED BY <1>1, <2>1, <3>1, AnnouncedStays
    <3>3. ASSUME NEW r \in Readers, r # c.reader PROVE rd'[r] = rd[r]
      BY <2>1, <2>2, <3>3 DEF CardTypeOK
    <3>4. \A r \in Readers : Dropped(cmds, r) => Dropped(cmds', r)
      BY <1>3, <1>4, <2>1 DEF ExecuteDrop, Executes
    <3> HIDE DEF message, m
    <3>5. ASSUME NEW r \in Readers, rd'[r].handle # "closed"
          PROVE  (conn # NoConn /\ conn.reader = r) \/ Announced(msgs', r) \/ Dropped(cmds', r)
      <4>1. CASE r = c.reader
        BY <3>2, <4>1
      <4>2. CASE r # c.reader
        <5>1. (conn # NoConn /\ conn.reader = r) \/ Announced(msgs, r) \/ Dropped(cmds, r)
          BY <3>3, <3>5, <4>2 DEF HandleOwned, Announced, Dropped
        <5> QED BY <1>2, <3>4, <5>1
      <4> QED BY <4>1, <4>2
    <3> QED BY <1>1, <3>5 DEF HandleOwned, Announced, Dropped
  <2>3. CASE ~ok
    <3>1. rd' = rd /\ \A r \in Readers : Dropped(cmds, r) => Dropped(cmds', r)
      BY <1>3, <2>1, <2>3 DEF ExecuteDrop, Executes
    <3> QED BY <1>1, <1>2, <3>1, StillOwned
  <2> QED BY <2>2, <2>3
<1>5. CASE ExecuteDrop
  <2>1. /\ rd'[c.reader].handle = "closed"
        /\ \A r \in Readers : r # c.reader => rd'[r] = rd[r]
    BY <1>1, <1>5 DEF ExecuteDrop, Closed, CardTypeOK, ReaderData
  <2> HIDE DEF c
  <2> QED BY <1>1, <1>2, <1>3, <2>1, StillOwned
<1>6. CASE ~ExecuteCreate /\ ~ExecuteDrop
  <2>1. \A r \in Readers : rd'[r].handle # "closed" => rd[r].handle # "closed"
    <3>1. \/ rd' = rd
          \/ \E k : rd' = [rd EXCEPT ![c.reader].rc = k]
          \/ rd' = [rd EXCEPT ![c.reader] = Broken(@)]
      BY <1>6
         DEF Execute, ExecuteUpdateRetryCounter, ExecuteEstablishPaceChannel, ExecuteUnblockPin,
             ExecuteDestroyPaceChannel, ExecuteSetEidPin, ChipWorks, UnchangedByCommand
    <3>2. rd \in [Readers -> ReaderData]
      BY DEF CardTypeOK
    <3> HIDE DEF c
    <3>3. ASSUME NEW k, rd' = [rd EXCEPT ![c.reader].rc = k], NEW r \in Readers
          PROVE  rd'[r].handle = rd[r].handle
      BY <1>1, <3>2, <3>3 DEF ReaderData
    <3>4. ASSUME rd' = [rd EXCEPT ![c.reader] = Broken(@)], NEW r \in Readers
          PROVE  rd'[r].handle # "closed" => rd[r].handle # "closed"
      BY <1>1, <3>2, <3>4 DEF ReaderData, Broken
    <3> QED BY <3>1, <3>3, <3>4
  <2>2. \A r \in Readers : Dropped(cmds, r) => Dropped(cmds', r)
    BY <1>3, <1>6
  <2> QED BY <1>1, <1>2, <2>1, <2>2, StillOwned
<1> QED BY <1>4, <1>5, <1>6

LEMMA SlotsOwned ==
  ASSUME CardTypeOK, HandleOwned, (\E r \in Readers : Update(r)) \/ World
  PROVE  HandleOwned'
<1>1. ASSUME NEW s \in Readers, Update(s) PROVE HandleOwned'
  <2>1. \A r \in Readers : rd'[r].handle # "closed" => rd[r].handle # "closed"
    BY <1>1, UpdateHandles
  <2>2. /\ msgs \in Seq(Messages) /\ UNCHANGED <<cmds, conn>>
        /\ \E m : msgs' = Append(msgs, m)
    BY <1>1 DEF CardTypeOK, Messages, Update
  <2>3. \A r : Announced(msgs, r) => Announced(msgs', r)
    BY <2>2, AnnouncedStays
  <2> QED BY <2>1, <2>2, <2>3, StillOwned
<1>2. CASE World
  <2>1. /\ UNCHANGED <<cmds, msgs, conn>>
        /\ \/ rd' = rd
           \/ \E s \in Readers : rd' = [rd EXCEPT ![s] = Broken(@)]
    BY <1>2 DEF World, PutCard, TakeCard, readerVars
  <2>2. \A r \in Readers : rd'[r].handle # "closed" => rd[r].handle # "closed"
    BY <2>1 DEF CardTypeOK, ReaderData, Broken
  <2> QED BY <2>1, <2>2, StillOwned
<1> QED BY <1>1, <1>2

(* The connection that is given up is the one whose handle is closed.      *)
LEMMA ResetOwned ==
  ASSUME CardTypeOK, HandleOwned, readerName \in Readers \cup {NoReader},
         NEW queue \in Seq(Messages),
         \A r : Announced(msgs, r) => Announced(queue, r), ResetCardConnection(queue)
  PROVE  HandleOwned' /\ conn' = NoConn
<1>1. /\ cmds = <<>> /\ conn' = NoConn /\ cmds' = cmds
  BY DEF ResetCardConnection
<1>2. ASSUME NEW r \in Readers, Announced(msgs, r) PROVE Announced(msgs', r)
  <2>1. Announced(Detach(queue), r) /\ Detach(queue) \in Seq(Messages)
    BY <1>2, AnnouncedStays, DetachType
  <2>2. CASE readerName = NoReader
    BY <2>1, <2>2 DEF ResetCardConnection
  <2>3. CASE readerName # NoReader
    <3>1. PICK p \in Seq(Event) : msgs' = Detach(queue) \o p
      BY <2>3, ResetSignals
    <3>2. p \in Seq(Messages)
      BY <3>1, SeqMonotonic DEF Messages
    <3> QED BY <2>1, <3>1, <3>2, AnnouncedStays
  <2> QED BY <2>2, <2>3
<1>3. ASSUME NEW r \in Readers, rd'[r].handle # "closed" PROVE Announced(msgs', r)
  <2>1. rd[r].handle # "closed" /\ ~(conn # NoConn /\ conn.reader = r)
    BY <1>3, ResetHandles
  <2>2. Announced(msgs, r)
    BY <1>1, <2>1 DEF HandleOwned, Announced
  <2> QED BY <1>2, <2>2
<1> QED BY <1>1, <1>3 DEF HandleOwned, Announced

LEMMA SelectsStep ==
  ASSUME SelectsFree, [Next]_allVars
  PROVE  SelectsFree'
<1> USE DEF SelectsFree, Runs, Waits, Goto, Wait, UnchangedReader, cardVars
<1>1. CASE RunPace \/ DeliverToPace
  BY <1>1, PaceSelectsFree
<1>2. CASE DeliverToChangePin
  BY <1>2
     DEF DeliverToChangePin, DeliverUpdateRetryCounterFinal, DeliverUpdate, DeliverSetEidPin,
         DeliverDestroyPace, DeliverDestroy, Delivers
<1>3. CASE Cancel \/ CancelKilled
  BY <1>3
     DEF Cancel, CancelKilled, UserCancels, KillCancels, OnUserCancelled, AbortTarget,
         PaceAbortTarget
<1>4. CASE RunChangePinWorkflow
  BY <1>3, <1>4
     DEF RunChangePinWorkflow, Leads, PaceChannelEstablished, PacePukEstablished, PaceAbort,
         RunPrepareChangePin, RunChangePin, RunDestroyPace, RunDestroy, RunClearPacePasswords,
         RunUpdateRetryCounterFinal, RunUpdate, RunCleanUpReaderManager, CleanUpReaderManager
<1>5. CASE User
  BY <1>3, <1>5
     DEF User, EnterPacePassword, EnterNewPacePin, RunFinalState, RetryCardSelection, AtRest, Kill
<1>6. CASE Environment \/ Terminated \/ UNCHANGED allVars
  <2>1. UNCHANGED <<st, busy>>
    BY <1>6 DEF Environment, Terminated, allVars, paceVars, controlVars
  <2>2. conn' = conn
    BY <1>6
       DEF Environment, ReaderThread, Update, World, PutCard, TakeCard, Terminated, allVars,
           Execute, ExecuteCreate, ExecuteDrop, ExecuteUpdateRetryCounter,
           ExecuteEstablishPaceChannel, ExecuteUnblockPin, ExecuteDestroyPaceChannel,
           ExecuteSetEidPin, ChipWorks, UnchangedByCommand
  <2> QED BY <2>1, <2>2
<1> QED BY <1>1, <1>2, <1>4, <1>5, <1>6 DEF Next, MainThread

(* A message that is taken from the queue announces no handle, unless it   *)
(* is the answer to a CREATE.                                              *)
LEMMA TakenOwned ==
  ASSUME CardTypeOK, HandleOwned, msgs # <<>>, Head(msgs).kind # "CREATE", rd' = rd, cmds' = cmds,
         conn # NoConn => (conn' # NoConn /\ conn'.reader = conn.reader),
         \/ msgs' = Tail(msgs)
         \/ \E m : msgs' = Append(Tail(msgs), m)
  PROVE  HandleOwned'
<1>1. msgs \in Seq(Messages) /\ Tail(msgs) \in Seq(Messages)
  BY Queues DEF CardTypeOK, Messages
<1>2. ASSUME NEW r, Announced(msgs, r) PROVE Announced(msgs', r)
  <2>1. Announced(Tail(msgs), r)
    BY <1>1, <1>2, AnnouncedStays
  <2>2. ASSUME NEW m, msgs' = Append(Tail(msgs), m) PROVE Announced(msgs', r)
    BY <1>1, <2>1, <2>2, AnnouncedStays
  <2> QED BY <2>1, <2>2
<1>3. \A r : Dropped(cmds, r) => Dropped(cmds', r)
  BY DEF Dropped
<1> QED BY <1>2, <1>3, StillOwned

(* The result of a channel does not change where the connection leads.     *)
LEMMA ResultKept ==
  ASSUME CardTypeOK, conn # NoConn, NEW m
  PROVE  WithPaceResult(conn, m) # NoConn /\ WithPaceResult(conn, m).reader = conn.reader
<1>1. conn \in Connection /\ (m.code = "OK") \in BOOLEAN /\ (conn.can /\ m.code = "OK") \in BOOLEAN
  BY DEF CardTypeOK
<1>2. /\ [conn EXCEPT !.can = (m.code = "OK")] \in Connection
      /\ [conn EXCEPT !.can = (m.code = "OK")].reader = conn.reader
  BY <1>1 DEF Connection
<1>3. /\ [conn EXCEPT !.pin = (m.code = "OK"), !.can = @ /\ m.code = "OK"] \in Connection
      /\ [conn EXCEPT !.pin = (m.code = "OK"), !.can = @ /\ m.code = "OK"].reader = conn.reader
  BY <1>1 DEF Connection
<1> QED BY <1>1, <1>2, <1>3, ConnectionAssumption DEF WithPaceResult

LEMMA DeliverOwned ==
  ASSUME CardTypeOK, HandleInv, readerName \in Readers \cup {NoReader},
         DeliverToPace \/ DeliverToChangePin
  PROVE  HandleOwned'
<1>1. HandleOwned /\ SelectsFree /\ msgs \in Seq(Messages) /\ cmds \in Seq(Command)
  BY DEF HandleInv, CardTypeOK, Messages
<1>2. conn # NoConn => conn \in Connection
  BY DEF CardTypeOK
<1>3. ASSUME msgs # <<>>, Head(msgs).kind # "CREATE", ResetCardConnection(Tail(msgs))
      PROVE  HandleOwned'
  <2>1. Tail(msgs) \in Seq(Messages) /\ \A r : Announced(msgs, r) => Announced(Tail(msgs), r)
    BY <1>1, <1>3, AnnouncedStays, Queues
  <2> QED BY <1>1, <1>3, <2>1, ResetOwned
<1>4. CASE DeliverCall
  <2>1. /\ msgs # <<>> /\ Head(msgs).kind = "CALL" /\ msgs' = Tail(msgs)
        /\ rd' = rd /\ conn' = conn /\ \E c : cmds' = Append(cmds, c)
    BY <1>4 DEF DeliverCall
  <2>2. /\ \A r : Announced(msgs, r) => Announced(msgs', r)
        /\ \A r : Dropped(cmds, r) => Dropped(cmds', r)
    BY <1>1, <2>1, AnnouncedStays, DroppedStays
  <2> QED BY <1>1, <2>1, <2>2, StillOwned
<1>5. CASE DeliverCreate
  <2> DEFINE m == Head(msgs)
  <2>1. /\ AtRest /\ msgs # <<>> /\ rd' = rd
        /\ \A r : Announced(msgs, r) =>
             Announced(Tail(msgs), r) \/ (m.code = "OK" /\ m.reader = r)
    BY <1>1, <1>5, AnnouncedStays DEF DeliverCreate
  <2>2. CASE ~m.mine
    <3>1. msgs' = Tail(msgs) /\ conn' = conn /\ cmds' = DropUnclaimed(cmds, m)
      BY <1>5, <2>2 DEF DeliverCreate
    <3>2. ReaderCommand("DROP", m.reader, FALSE).op = "DROP"
          /\ ReaderCommand("DROP", m.reader, FALSE).reader = m.reader
      BY DEF ReaderCommand
    <3>3. \A r : Dropped(cmds, r) => Dropped(cmds', r)
      BY <1>1, <3>1, DroppedStays DEF DropUnclaimed
    <3>4. ASSUME m.code = "OK" PROVE Dropped(cmds', m.reader)
      BY <1>1, <3>1, <3>2, <3>4, DroppedStays DEF DropUnclaimed
    <3> HIDE DEF m
    <3>5. ASSUME NEW r \in Readers, rd'[r].handle # "closed"
          PROVE  (conn # NoConn /\ conn.reader = r) \/ Announced(msgs', r) \/ Dropped(cmds', r)
      <4>1. (conn # NoConn /\ conn.reader = r) \/ Announced(msgs, r) \/ Dropped(cmds, r)
        BY <1>1, <2>1, <3>5 DEF HandleOwned, Announced, Dropped
      <4>2. Announced(msgs, r) => Announced(msgs', r) \/ Dropped(cmds', r)
        BY <2>1, <3>1, <3>4
      <4> QED BY <3>3, <4>1, <4>2
    <3> QED BY <3>1, <3>5 DEF HandleOwned, Announced, Dropped
  <2>3. CASE m.mine /\ m.code # "OK"
    <3>1. msgs' = Disown(Tail(msgs)) /\ conn' = conn /\ cmds' = Disown(cmds)
      BY <1>5, <2>3 DEF DeliverCreate
    <3>2. \A r : Announced(msgs, r) => Announced(msgs', r)
      <4>1. Tail(msgs) \in Seq(Messages)
        BY <1>1, <2>1, Queues
      <4> QED BY <2>1, <2>3, <3>1, <4>1, AnnouncedStays
    <3>3. \A r : Dropped(cmds, r) => Dropped(cmds', r)
      BY <1>1, <3>1, DroppedStays
    <3> QED BY <1>1, <2>1, <3>1, <3>2, <3>3, StillOwned
  <2>4. CASE m.mine /\ m.code = "OK"
    <3>1. /\ st = "ConnectCard" /\ msgs' = Tail(msgs) /\ cmds' = cmds
          /\ conn' = [reader |-> m.reader, rc |-> rd[m.reader].rc, can |-> FALSE, pin |-> FALSE,
                      listening |-> FALSE]
      BY <1>5, <2>4 DEF DeliverCreate, Waits
    <3>2. conn = NoConn
      BY <1>1, <2>1, <3>1 DEF SelectsFree, AtRest
    <3>3. conn'.reader = m.reader /\ conn' # NoConn
      <4>1. rd[m.reader].rc \in RetryCounters /\ m.reader \in Readers
        BY <2>1, FirstMessage DEF CardTypeOK, ReaderData
      <4>2. conn' \in Connection
        BY <3>1, <4>1 DEF Connection
      <4> QED BY <3>1, <4>2, ConnectionAssumption
    <3> HIDE DEF m
    <3> QED BY <1>1, <2>1, <2>4, <3>1, <3>2, <3>3 DEF HandleOwned, Announced, Dropped
  <2> QED BY <1>5, <2>2, <2>3, <2>4 DEF DeliverCreate
<1>6. CASE DeliverEvent
  <2> DEFINE m == Head(msgs)
  <2>1. /\ msgs # <<>> /\ m.kind # "CREATE" /\ rd' = rd /\ cmds' = cmds
        /\ conn' = conn \/ (conn # NoConn /\ conn' = [conn EXCEPT !.rc = m.rc])
        /\ msgs' = Tail(msgs) \/ msgs' = Append(Tail(msgs), CreateCall)
    BY <1>6 DEF DeliverEvent, ConnectIfCard
  <2>2. m.rc \in RetryCounters
    BY <1>6, FirstMessage DEF DeliverEvent
  <2> HIDE DEF m
  <2>3. conn # NoConn => (conn' # NoConn /\ conn'.reader = conn.reader)
    BY <1>2, <2>1, <2>2, ConnectionAssumption DEF Connection
  <2> QED BY <1>1, <2>1, <2>3, TakenOwned DEF m
<1>7. CASE DeliverStale
  <2>1. /\ msgs # <<>> /\ Head(msgs).kind # "CREATE"
        /\ msgs' = Tail(msgs) /\ rd' = rd /\ cmds' = cmds
        /\ conn' = WithPaceResult(conn, Head(msgs))
    BY <1>7 DEF DeliverStale
  <2> QED BY <1>1, <2>1, ResultKept, TakenOwned
<1>8. CASE DeliverPace
  <2>1. msgs # <<>> /\ Head(msgs).kind # "CREATE"
    BY <1>8 DEF DeliverPace, DeliversPace, PaceReply
  <2>2. CASE PaceDone \/ PaceFailed
    <3>1. /\ msgs' = Tail(msgs) /\ rd' = rd /\ cmds' = cmds
          /\ conn' = WithPaceResult(conn, Head(msgs))
      BY <2>2 DEF PaceDone, PaceFailed
    <3> QED BY <1>1, <2>1, <3>1, ResultKept, TakenOwned
  <2>3. CASE PaceCardGone
    BY <1>3, <2>1, <2>3 DEF PaceCardGone
  <2> QED BY <1>8, <2>2, <2>3 DEF DeliverPace
<1>9. CASE DeliverUpdateRetryCounter \/ DeliverUpdateRetryCounterFinal
  <2>1. /\ msgs # <<>> /\ Head(msgs).kind # "CREATE"
        /\ \/ msgs' = Tail(msgs) /\ UNCHANGED <<rd, cmds, conn>>
           \/ ResetCardConnection(Tail(msgs))
    BY <1>9 DEF DeliverUpdateRetryCounter, DeliverUpdateRetryCounterFinal, DeliverUpdate, Delivers
  <2> QED BY <1>1, <1>3, <2>1, TakenOwned
<1>10. CASE DeliverSetEidPin \/ DeliverDestroyPaceAfterPuk \/ DeliverDestroyPace
  <2>1. /\ msgs # <<>> /\ Head(msgs).kind # "CREATE"
        /\ msgs' = Tail(msgs) /\ UNCHANGED <<rd, cmds, conn>>
    BY <1>10
       DEF DeliverSetEidPin, DeliverDestroyPaceAfterPuk, DeliverDestroyPace, DeliverDestroy, Delivers
  <2> QED BY <1>1, <2>1, TakenOwned
<1> QED BY <1>4, <1>5, <1>6, <1>7, <1>8, <1>9, <1>10 DEF DeliverToPace, DeliverToChangePin

(* The steps of the states themselves: a command posted, a connection      *)
(* closed, or nothing at all.                                              *)
LEMMA RunOwned ==
  ASSUME CardTypeOK, HandleOwned, readerName \in Readers \cup {NoReader},
         RunPace \/ RunChangePinWorkflow \/ User
  PROVE  HandleOwned'
<1> USE DEF UnchangedReader, cardVars, readerVars
<1>1. msgs \in Seq(Messages) /\ cmds \in Seq(Command)
  BY DEF CardTypeOK, Messages
<1>2. CASE UNCHANGED <<rd, cmds, msgs, conn>>
  BY <1>2, StillOwned
<1>3. ASSUME NEW op, NEW id, NEW word, Post(op, id, word) PROVE HandleOwned'
  <2>1. UNCHANGED <<rd, msgs, conn>> /\ \E c : cmds' = Append(cmds, c)
    BY <1>3 DEF Post
  <2>2. \A r : Dropped(cmds, r) => Dropped(cmds', r)
    BY <1>1, <2>1, DroppedStays
  <2> QED BY <2>1, <2>2, StillOwned
<1>4. CASE RunMaintainCardConnection
  <2>1. CASE MaintainAfterCardGone
    BY <1>1, <2>1, ResetOwned DEF MaintainAfterCardGone
  <2> QED BY <1>2, <1>4, <2>1
      DEF RunMaintainCardConnection, MaintainAborts, MaintainAfterWrongPassword, MaintainProceeds
<1>5. CASE RunConnectCard \/ FinishConnectCard
  <2>1. /\ rd' = rd /\ cmds' = cmds
        /\ conn' = conn \/ (conn # NoConn /\ conn' = [conn EXCEPT !.listening = TRUE])
        /\ msgs' \in {msgs, Append(msgs, CreateCall), Disown(msgs)}
    BY <1>5 DEF RunConnectCard, ConnectIfCard, FinishConnectCard
  <2>2. ASSUME NEW r, Announced(msgs, r) PROVE Announced(msgs', r)
    <3>1. Announced(Append(msgs, CreateCall), r) /\ Announced(Disown(msgs), r)
      BY <1>1, <2>2, AnnouncedStays
    <3> QED BY <2>1, <2>2, <3>1
  <2>3. conn # NoConn => (conn' # NoConn /\ conn'.reader = conn.reader)
    BY <2>1, ConnectionAssumption DEF CardTypeOK, Connection
  <2> QED BY <2>1, <2>2, <2>3, StillOwned
<1>6. CASE Cancel \/ CancelKilled \/ RetryCardSelection
  <2>1. cmds' = Disown(cmds) /\ msgs' = Disown(msgs) /\ UNCHANGED <<rd, conn>>
    BY <1>6
       DEF Cancel, CancelKilled, UserCancels, KillCancels, OnUserCancelled, RetryCardSelection
  <2>2. /\ \A r : Announced(msgs, r) => Announced(msgs', r)
        /\ \A r : Dropped(cmds, r) => Dropped(cmds', r)
    BY <1>1, <2>1, AnnouncedStays, DroppedStays
  <2> QED BY <2>1, <2>2, StillOwned
<1>7. CASE RunPace
  <2>1. CASE RunUpdateRetryCounter \/ RunDestroyPaceAfterPuk \/ RunEstablishPaceChannel
    BY <1>2, <1>3, <2>1
       DEF RunUpdateRetryCounter, RunUpdate, PostUpdateRetryCounter, RunDestroyPaceAfterPuk,
           RunDestroy, RunEstablishPaceChannel, EstablishWithoutPassword, EstablishWithPassword
  <2>2. CASE RunClearPacePasswordsOnError \/ RunSelectReader \/ RunVerifyRetryCounter
             \/ RunPreparePace \/ RunUnfortunateCardPosition \/ RunClearPacePasswordsBeforeDestroy
    BY <1>2, <2>2
       DEF RunClearPacePasswordsOnError, RunSelectReader, RunVerifyRetryCounter, RunPreparePace,
           RunUnfortunateCardPosition, RunClearPacePasswordsBeforeDestroy
  <2> QED BY <1>4, <1>5, <1>7, <2>1, <2>2 DEF RunPace
<1>8. CASE RunChangePinWorkflow
  <2>1. CASE RunCleanUpReaderManager
    <3>1. \A r \in Readers : rd'[r].handle = "closed"
      BY <2>1 DEF RunCleanUpReaderManager, CleanUpReaderManager, NoCardInfo
    <3> QED BY <3>1 DEF HandleOwned
  <2>2. CASE RunChangePin \/ RunDestroyPace \/ RunUpdateRetryCounterFinal
    BY <1>2, <1>3, <2>2
       DEF RunChangePin, RunDestroyPace, RunDestroy, RunUpdateRetryCounterFinal, RunUpdate,
           PostUpdateRetryCounter
  <2>3. CASE PaceChannelEstablished \/ PacePukEstablished \/ PaceAbort \/ RunPrepareChangePin
             \/ RunClearPacePasswords
    BY <1>2, <2>3
       DEF Leads, PaceChannelEstablished, PacePukEstablished, PaceAbort, RunPrepareChangePin,
           RunClearPacePasswords
  <2> QED BY <1>6, <1>8, <2>1, <2>2, <2>3 DEF RunChangePinWorkflow
<1>9. CASE User
  BY <1>2, <1>6, <1>9 DEF User, EnterPacePassword, EnterNewPacePin, RunFinalState, Kill
<1> QED BY <1>7, <1>8, <1>9

LEMMA HandlesStay == Spec => []HandleInv
<1>1. Init => HandleInv
  BY DEF Init, CardInit, NoCardInfo, HandleInv, HandleOwned, SelectsFree
<1>2. TypeOK /\ HandleInv /\ [Next]_allVars => HandleInv'
  <2> SUFFICES ASSUME TypeOK, HandleInv, [Next]_allVars PROVE HandleInv'
    OBVIOUS
  <2>1. CardTypeOK /\ readerName \in Readers \cup {NoReader} /\ HandleOwned
    BY DEF TypeOK, ContextTypeOK, HandleInv
  <2>2. SelectsFree'
    BY SelectsStep DEF HandleInv
  <2>3. ASSUME RunPace \/ RunChangePinWorkflow \/ User PROVE HandleOwned'
    BY <2>1, <2>3, RunOwned
  <2>4. ASSUME DeliverToPace \/ DeliverToChangePin PROVE HandleOwned'
    BY <2>1, <2>4, DeliverOwned
  <2>5. ASSUME Environment PROVE HandleOwned'
    BY <2>1, <2>5, ExecuteOwned, SlotsOwned DEF Environment, ReaderThread
  <2>6. ASSUME Terminated \/ UNCHANGED allVars PROVE HandleOwned'
    <3>1. UNCHANGED <<rd, cmds, msgs, conn>>
      BY <2>6 DEF Terminated, allVars, cardVars, readerVars
    <3> QED BY <2>1, <3>1, StillOwned DEF Announced, Dropped
  <2> QED BY <2>2, <2>3, <2>4, <2>5, <2>6 DEF Next, MainThread, HandleInv
<1> QED BY <1>1, <1>2, TypeCorrect, PTL DEF Spec

(* No handle on a card is lost: it is the connection's, on its way to it,  *)
(* or about to be closed.                                                  *)
THEOREM NoHandleLeaked == Spec => []HandleOwned
<1>1. HandleInv => HandleOwned
  BY DEF HandleInv
<1> QED BY <1>1, HandlesStay, PTL

-----------------------------------------------------------------------------
(* What success stands for. While nothing has gone wrong, at most one      *)
(* password, PUK or new PIN is on its way, the state that sent it waits    *)
(* for the answer, and an answer "OK" means that the chip has done it.     *)

Asker(op) == IF op = "SET_PIN" THEN "ChangePin" ELSE "EstablishPaceChannel"
Asking == Waits("ChangePin") \/ Waits("EstablishPaceChannel")

Meant(c) == c.op = "SET_PIN" /\ c.reader \in BasicReaders => c.pw # NoPassword

(* A reply with this kind, id and code tells the truth while the chip has  *)
(* last done d.                                                            *)
Truthful(kind, id, code, d) ==
  code = "OK" =>
    /\ kind = "SET_PIN" => d = "changed"
    /\ kind \in PaceReply /\ id = "PUK" => d = "unblocked"

OnTheWay ==
  /\ Alone(SecretOps, cmds, msgs)
  /\ \A i \in Asked(SecretOps, cmds) : Waits(Asker(cmds[i].op)) /\ Meant(cmds[i])
  /\ \A i \in Heard(SecretOps, msgs) :
       Waits(Asker(msgs[i].kind)) /\ Truthful(msgs[i].kind, msgs[i].id, msgs[i].code, done)

Changed   == lastPace = "OK" /\ done = "changed"
Unblocked == lastPace = "OK_PUK" /\ done = "unblocked"

(* What has been achieved where the workflow stands.                       *)
Stage ==
  /\ st \notin {"ClearPacePasswordsOnError", "PaceAbort"}
  /\ Runs("ChangePin") /\ conn # NoConn /\ conn.reader \in BasicReaders => pw["NEW_PIN"] # NoPassword
  /\ st = "DestroyPace" => Changed
  /\ st \in {"ClearPacePasswordsBeforeDestroy", "DestroyPaceAfterPuk", "PacePukEstablished"}
       => Unblocked
  /\ st \in {"ClearPacePasswords", "UpdateRetryCounterFinal", "CleanUpReaderManager",
             "FinalState", "Stopped"} => Changed \/ Unblocked

SuccessInv == status = "NoError" => ~killed /\ OnTheWay /\ Stage

(* Nothing is under way where no state waits for it.                       *)
LEMMA NothingAsked ==
  ASSUME OnTheWay, ~Asking
  PROVE  Asked(SecretOps, cmds) = {} /\ Heard(SecretOps, msgs) = {}
<1>1. \A op : Asker(op) \in {"ChangePin", "EstablishPaceChannel"}
  BY DEF Asker
<1> QED BY <1>1 DEF OnTheWay, Asking, Waits

LEMMA StillOnTheWay ==
  ASSUME OnTheWay, Fewer(SecretOps, cmds', cmds), FewerReplies(SecretOps, msgs', msgs),
         done' = done \/ Heard(SecretOps, msgs) = {}, ~Asking \/ UNCHANGED <<st, busy>>
  PROVE  OnTheWay'
<1>1. PICK k \in Nat : \A i \in Asked(SecretOps, cmds') :
        i \in Nat /\ i + k \in Asked(SecretOps, cmds) /\ SameCommand(cmds'[i], cmds[i + k])
  BY DEF Fewer
<1>2. PICK n \in Nat : \A i \in Heard(SecretOps, msgs') :
        i \in Nat /\ i + n \in Heard(SecretOps, msgs) /\ SameReply(msgs'[i], msgs[i + n])
  BY DEF FewerReplies
<1>3. Alone(SecretOps, cmds', msgs')
  <2>1. ASSUME NEW i \in Asked(SecretOps, cmds'), NEW j \in Asked(SecretOps, cmds') PROVE i = j
    <3>1. i + k = j + k /\ i \in Nat /\ j \in Nat
      BY <1>1, <2>1 DEF OnTheWay, Alone
    <3> QED BY <3>1
  <2>2. ASSUME NEW i \in Heard(SecretOps, msgs'), NEW j \in Heard(SecretOps, msgs') PROVE i = j
    <3>1. i + n = j + n /\ i \in Nat /\ j \in Nat
      BY <1>2, <2>2 DEF OnTheWay, Alone
    <3> QED BY <3>1
  <2>3. Asked(SecretOps, cmds') = {} \/ Heard(SecretOps, msgs') = {}
    BY <1>1, <1>2 DEF OnTheWay, Alone
  <2> QED BY <2>1, <2>2, <2>3 DEF Alone
<1>4. CASE ~Asking
  <2>1. Asked(SecretOps, cmds') = {} /\ Heard(SecretOps, msgs') = {}
    BY <1>1, <1>2, <1>4, NothingAsked
  <2> QED BY <1>3, <2>1 DEF OnTheWay
<1>5. CASE UNCHANGED <<st, busy>>
  <2>1. ASSUME NEW i \in Asked(SecretOps, cmds') 
        PROVE  busy' /\ st' = Asker(cmds'[i].op) /\ Meant(cmds'[i])
    <3>1. Waits(Asker(cmds[i + k].op)) /\ Meant(cmds[i + k])
      BY <1>1, <2>1 DEF OnTheWay
    <3> QED BY <1>1, <1>5, <2>1, <3>1 DEF Waits, Meant, SameCommand
  <2>2. ASSUME NEW i \in Heard(SecretOps, msgs')
        PROVE  /\ busy' /\ st' = Asker(msgs'[i].kind)
               /\ Truthful(msgs'[i].kind, msgs'[i].id, msgs'[i].code, done')
    <3>1. /\ Waits(Asker(msgs[i + n].kind))
          /\ Truthful(msgs[i + n].kind, msgs[i + n].id, msgs[i + n].code, done)
      BY <1>2, <2>2 DEF OnTheWay
    <3>2. done' = done
      BY <1>2, <2>2
    <3> QED BY <1>2, <1>5, <2>2, <3>1, <3>2 DEF Waits, SameReply
  <2> QED BY <1>3, <2>1, <2>2 DEF OnTheWay, Waits
<1> QED BY <1>4, <1>5

(* A reply that says the chip has done something comes from a chip that    *)
(* has just done it.                                                       *)
LEMMA ExecuteTruthful ==
  ASSUME CardTypeOK, Execute, Head(cmds).op \in SecretOps, Meant(Head(cmds))
  PROVE  \E m \in Reply :
           /\ msgs' = Append(msgs, m) /\ m.kind = Head(cmds).op
           /\ Truthful(m.kind, m.id, m.code, done')
<1> DEFINE c == Head(cmds)
<1>1. c \in Command /\ c.reader \in Readers
  BY FirstCommand DEF Execute, Executes, ExecuteCreate, ExecuteDrop, ExecuteUpdateRetryCounter,
     ExecuteEstablishPaceChannel, ExecuteUnblockPin, ExecuteDestroyPaceChannel, ExecuteSetEidPin
<1>2. ASSUME NEW code \in Codes, Finish(code), Truthful(c.op, c.id, code, done')
      PROVE  \E m \in Reply :
               /\ msgs' = Append(msgs, m) /\ m.kind = c.op
               /\ Truthful(m.kind, m.id, m.code, done')
  <2>1. /\ Answer(c, code) \in Reply /\ msgs' = Append(msgs, Answer(c, code))
        /\ Answer(c, code).kind = c.op /\ Answer(c, code).id = c.id /\ Answer(c, code).code = code
    BY <1>1, <1>2 DEF Answer, Command, Reply, Finish
  <2> QED BY <1>2, <2>1
<1>3. ASSUME NEW r \in Readers, slot[r] # NoCard, NEW id, NEW word, ChipWorks(r, id, word),
             id = c.id \/ id = "PUK", c.op \in PaceReply
      PROVE  \E code \in Codes : Finish(code) /\ Truthful(c.op, c.id, code, done')
  <2> DEFINE a == ChipAnswer(slot[r], id, word)
  <2>1. /\ Finish(a.code) \/ Finish("RETRY_ALLOWED")
        /\ done' = IF id = "PUK" /\ a.code = "OK" THEN "unblocked" ELSE done
    BY <1>3 DEF ChipWorks
  <2>2. a.code \in Codes
    BY <1>3, ChipAnswerType DEF CardTypeOK
  <2>3. "RETRY_ALLOWED" \in Codes
    BY DEF Codes
  <2> HIDE DEF a
  <2>4. c.op # "SET_PIN"
    BY <1>3 DEF PaceReply
  <2>5. Truthful(c.op, c.id, a.code, done') /\ Truthful(c.op, c.id, "RETRY_ALLOWED", done')
    BY <1>3, <2>1, <2>4 DEF Truthful
  <2> QED BY <2>1, <2>2, <2>3, <2>5
<1>4. \A code : code # "OK" => Truthful(c.op, c.id, code, done')
  BY DEF Truthful
<1>5. CASE ExecuteEstablishPaceChannel
  <2>1. c.op \in PaceReply
    BY <1>5 DEF ExecuteEstablishPaceChannel, Executes, PaceReply
  <2>2. \/ \E code \in Codes : code # "OK" /\ Finish(code)
        \/ Reach(c.reader) /\ \E word \in Words(c) : ChipWorks(c.reader, c.id, word)
    BY <1>5 DEF ExecuteEstablishPaceChannel, Codes
  <2> HIDE DEF c
  <2>3. ASSUME NEW word, Reach(c.reader), ChipWorks(c.reader, c.id, word)
        PROVE  \E code \in Codes : Finish(code) /\ Truthful(c.op, c.id, code, done')
    BY <1>1, <1>3, <2>1, <2>3 DEF Reach
  <2>4. \E code \in Codes : Finish(code) /\ Truthful(c.op, c.id, code, done')
    BY <1>4, <2>2, <2>3
  <2> QED BY <1>2, <2>4 DEF c
<1>6. CASE ExecuteUnblockPin
  <2>1. c.op \in PaceReply
    BY <1>6 DEF ExecuteUnblockPin, Executes, PaceReply
  <2>2. \/ \E code \in Codes : code # "OK" /\ Finish(code)
        \/ Reach(c.reader) /\ \E word \in Words(c) : ChipWorks(c.reader, "PUK", word)
    BY <1>6 DEF ExecuteUnblockPin, Codes
  <2> HIDE DEF c
  <2>3. ASSUME NEW word, Reach(c.reader), ChipWorks(c.reader, "PUK", word)
        PROVE  \E code \in Codes : Finish(code) /\ Truthful(c.op, c.id, code, done')
    BY <1>1, <1>3, <2>1, <2>3 DEF Reach
  <2>4. \E code \in Codes : Finish(code) /\ Truthful(c.op, c.id, code, done')
    BY <1>4, <2>2, <2>3
  <2> QED BY <1>2, <2>4 DEF c
<1>7. CASE ExecuteSetEidPin
  <2>1. /\ c.op = "SET_PIN"
        /\ \E code \in Codes :
             /\ Finish(code)
             /\ done' = IF code = "OK" /\ (c.reader \notin BasicReaders \/ c.pw # NoPassword)
                        THEN "changed" ELSE done
    BY <1>7 DEF ExecuteSetEidPin, Executes, Codes
  <2> HIDE DEF c
  <2>2. c.reader \notin BasicReaders \/ c.pw # NoPassword
    BY <2>1 DEF Meant, c
  <2>3. \E code \in Codes : Finish(code) /\ Truthful(c.op, c.id, code, done')
    BY <2>1, <2>2 DEF Truthful, PaceReply
  <2> QED BY <1>2, <2>3 DEF c
<1> QED BY <1>5, <1>6, <1>7
    DEF Execute, Executes, ExecuteCreate, ExecuteDrop, ExecuteUpdateRetryCounter,
        ExecuteDestroyPaceChannel, SecretOps

LEMMA ExecuteOnTheWay ==
  ASSUME CardTypeOK, OnTheWay, Execute, UNCHANGED <<st, busy>>
  PROVE  OnTheWay' /\ (done' = done \/ Asking)
<1>1. /\ cmds # <<>> /\ cmds' = Tail(cmds) /\ cmds \in Seq(Command) /\ msgs \in Seq(Messages)
  BY Answered DEF CardTypeOK, Messages
<1>2. CASE Head(cmds).op \in SecretOps
  <2>1. 1 \in Asked(SecretOps, cmds) /\ cmds[1] = Head(cmds) /\ Asked(SecretOps, cmds') = {}
    BY <1>1, <1>2, TakenAlone DEF OnTheWay, Alone
  <2>2. Heard(SecretOps, msgs) = {} /\ Waits(Asker(Head(cmds).op)) /\ Meant(Head(cmds))
    BY <2>1 DEF OnTheWay, Alone
  <2>3. PICK m \in Reply :
          /\ msgs' = Append(msgs, m) /\ m.kind = Head(cmds).op
          /\ Truthful(m.kind, m.id, m.code, done')
    BY <1>2, <2>2, ExecuteTruthful
  <2>4. ASSUME NEW i \in Heard(SecretOps, msgs') PROVE i = Len(msgs) + 1 /\ msgs'[i] = m
    <3>1. /\ Len(msgs) \in Nat /\ DOMAIN msgs = 1 .. Len(msgs)
          /\ DOMAIN msgs' = 1 .. (Len(msgs) + 1) /\ msgs'[Len(msgs) + 1] = m
          /\ \A k \in 1 .. Len(msgs) : msgs'[k] = msgs[k]
      BY <1>1, <2>3, AppendProperties, LenProperties
    <3>2. i \notin DOMAIN msgs
      BY <2>2, <2>4, <3>1 DEF Heard
    <3> QED BY <2>4, <3>1, <3>2 DEF Heard
  <2>5. Alone(SecretOps, cmds', msgs')
    BY <2>1, <2>4 DEF Alone
  <2>6. busy' /\ st' = Asker(m.kind) /\ Asking
    BY <2>2, <2>3 DEF Waits, Asking, Asker
  <2> QED BY <2>1, <2>3, <2>4, <2>5, <2>6 DEF OnTheWay, Waits
<1>3. CASE Head(cmds).op \notin SecretOps
  <2>1. Fewer(SecretOps, cmds', cmds)
    BY <1>1, FewerCommands
  <2>2. done' = done
    BY <1>3
       DEF Execute, Executes, SecretOps, ExecuteCreate, ExecuteDrop, ExecuteUpdateRetryCounter,
           ExecuteEstablishPaceChannel, ExecuteUnblockPin, ExecuteDestroyPaceChannel,
           ExecuteSetEidPin, chipVars
  <2>3. FewerReplies(SecretOps, msgs', msgs)
    <3>1. CASE msgs' = msgs
      BY <1>1, <3>1, FewerRepliesKept
    <3>2. ASSUME NEW m \in Reply, m.kind = Head(cmds).op, msgs' = Append(msgs, m)
          PROVE  FewerReplies(SecretOps, msgs', msgs)
      BY <1>1, <1>3, <3>2, FewerRepliesKept
    <3>3. ASSUME NEW m \in Reply, m.kind = Head(cmds).op, NEW e \in Event,
                 msgs' = Append(Append(msgs, e), m)
          PROVE  FewerReplies(SecretOps, msgs', msgs)
      <4>1. e.kind \notin SecretOps
        BY DEF Event, SecretOps
      <4>2. Append(msgs, e) \in Seq(Messages) /\ FewerReplies(SecretOps, Append(msgs, e), msgs)
        BY <1>1, <4>1, FewerRepliesKept, Queues DEF Messages
      <4>3. FewerReplies(SecretOps, msgs', Append(msgs, e))
        BY <1>3, <3>3, <4>2, FewerRepliesKept
      <4> QED BY <4>2, <4>3, FewerStill
    <3> QED BY <3>1, <3>2, <3>3, Answered
  <2> QED BY <2>1, <2>2, <2>3, StillOnTheWay
<1> QED BY <1>2, <1>3

(* After its answer nothing is under way any more.                         *)
LEMMA DeliveredReply ==
  ASSUME CardTypeOK, OnTheWay, msgs # <<>>, Head(msgs).kind \in SecretOps,
         cmds' = cmds, FewerReplies(SecretOps, msgs', Tail(msgs))
  PROVE  OnTheWay' /\ Truthful(Head(msgs).kind, Head(msgs).id, Head(msgs).code, done)
<1>1. msgs \in Seq(Messages)
  BY DEF CardTypeOK, Messages
<1>2. 1 \in Heard(SecretOps, msgs) /\ msgs[1] = Head(msgs) /\ Heard(SecretOps, Tail(msgs)) = {}
  <2>1. Head(msgs) \in Reply
    BY <1>1, Queues DEF Messages, Event, SecretOps
  <2> QED BY <1>1, <2>1, TakenAlone DEF OnTheWay, Alone
<1>3. Asked(SecretOps, cmds') = {} /\ Heard(SecretOps, msgs') = {}
  BY <1>2 DEF OnTheWay, Alone, FewerReplies
<1>4. Truthful(msgs[1].kind, msgs[1].id, msgs[1].code, done)
  BY <1>2 DEF OnTheWay
<1> QED BY <1>2, <1>3, <1>4 DEF OnTheWay, Alone

(* A new request, by the state that waits for its answer.                  *)
LEMMA PostedOnTheWay ==
  ASSUME CardTypeOK, OnTheWay, ~busy, NEW op, NEW id, NEW word, Post(op, id, word),
         busy' /\ st' = Asker(op),
         op = "SET_PIN" /\ conn.reader \in BasicReaders => word # NoPassword
  PROVE  OnTheWay'
<1> DEFINE c == [op |-> op, reader |-> conn.reader, id |-> id, pw |-> word,
                 mine |-> TRUE, conn |-> TRUE]
<1>1. Asked(SecretOps, cmds) = {} /\ Heard(SecretOps, msgs) = {}
  BY NothingAsked DEF Asking, Waits
<1>2. cmds' = Append(cmds, c) /\ msgs' = msgs /\ c.op = op /\ Meant(c)
  BY DEF Post, Meant
<1> HIDE DEF c
<1>3. /\ Len(cmds) \in Nat /\ DOMAIN cmds = 1 .. Len(cmds)
      /\ DOMAIN cmds' = 1 .. (Len(cmds) + 1) /\ cmds'[Len(cmds) + 1] = c
      /\ \A k \in 1 .. Len(cmds) : cmds'[k] = cmds[k]
  BY <1>2, AppendProperties, LenProperties DEF CardTypeOK
<1>4. ASSUME NEW i \in Asked(SecretOps, cmds') PROVE i = Len(cmds) + 1 /\ cmds'[i] = c
  <2>1. i \notin DOMAIN cmds
    BY <1>1, <1>3, <1>4 DEF Asked
  <2> QED BY <1>3, <1>4, <2>1 DEF Asked
<1>5. Alone(SecretOps, cmds', msgs')
  BY <1>1, <1>2, <1>4 DEF Alone
<1> QED BY <1>1, <1>2, <1>4, <1>5 DEF OnTheWay, Waits

(* What the main thread does to the queues: leads on, with less under way. *)
LEMMA LessOnTheWay ==
  ASSUME CardTypeOK, OnTheWay, done' = done, ~Asking \/ UNCHANGED <<st, busy>>,
         \/ cmds' = cmds \/ cmds' = Disown(cmds)
         \/ \E c : c.op \notin SecretOps /\ cmds' = Append(cmds, c),
         FewerReplies(SecretOps, msgs', msgs)
  PROVE  OnTheWay'
<1>1. cmds \in Seq(Command)
  BY DEF CardTypeOK
<1>2. Fewer(SecretOps, cmds', cmds)
  BY <1>1, FewerCommands
<1> QED BY <1>2, StillOnTheWay

LEMMA RunPaceOnTheWay ==
  ASSUME CardTypeOK, readerName \in Readers \cup {NoReader}, OnTheWay, RunPace
  PROVE  OnTheWay' /\ done' = done
<1> USE DEF Runs, UnchangedReader, cardVars, chipVars
<1>1. msgs \in Seq(Messages) /\ FewerReplies(SecretOps, msgs, msgs)
  BY FewerRepliesKept DEF CardTypeOK, Messages
<1>2. ~Asking
  BY DEF RunPace, RunMaintainCardConnection, RunClearPacePasswordsOnError, RunSelectReader,
         RunConnectCard, FinishConnectCard, RunUpdateRetryCounter, RunUpdate,
         RunVerifyRetryCounter, RunPreparePace, RunEstablishPaceChannel,
         RunUnfortunateCardPosition, RunClearPacePasswordsBeforeDestroy, RunDestroyPaceAfterPuk,
         RunDestroy, Asking, Waits
<1>3. CASE UNCHANGED <<done, cmds, msgs>>
  BY <1>1, <1>2, <1>3, LessOnTheWay
<1>4. ASSUME NEW op, NEW id, NEW word, op \notin SecretOps, Post(op, id, word)
      PROVE  OnTheWay' /\ done' = done
  <2>1. UNCHANGED <<done, msgs>> /\ \E c : c.op \notin SecretOps /\ cmds' = Append(cmds, c)
    BY <1>4 DEF Post
  <2> QED BY <1>1, <1>2, <2>1, LessOnTheWay
<1>5. CASE RunMaintainCardConnection
  <2>1. CASE MaintainAfterCardGone
    <3>1. FewerReplies(SecretOps, msgs', msgs) /\ done' = done /\ cmds' = cmds
      BY <1>1, <2>1, ResetReplies DEF MaintainAfterCardGone, ResetCardConnection
    <3> QED BY <1>2, <3>1, LessOnTheWay
  <2> QED BY <1>3, <1>5, <2>1
      DEF RunMaintainCardConnection, MaintainAborts, MaintainAfterWrongPassword, MaintainProceeds
<1>6. CASE RunConnectCard \/ FinishConnectCard
  <2>1. UNCHANGED <<done, cmds>> /\ msgs' \in {msgs, Append(msgs, CreateCall), Disown(msgs)}
    BY <1>6 DEF RunConnectCard, ConnectIfCard, FinishConnectCard
  <2>2. CreateCall.kind \notin SecretOps
    BY DEF CreateCall, SecretOps
  <2>3. FewerReplies(SecretOps, msgs', msgs)
    <3>1. FewerReplies(SecretOps, Append(msgs, CreateCall), msgs) /\ FewerReplies(SecretOps, Disown(msgs), msgs)
      BY <1>1, <2>2, FewerRepliesKept
    <3> QED BY <1>1, <2>1, <3>1
  <2> QED BY <1>2, <2>1, <2>3, LessOnTheWay
<1>7. CASE RunEstablishPaceChannel
  <2>1. CASE EstablishWithPassword
    <3>1. /\ ~busy /\ busy' /\ st' = "EstablishPaceChannel" /\ done' = done
          /\ \E op \in PaceReply : \E id : Post(op, id, Secret)
      BY <1>7, <2>1 DEF RunEstablishPaceChannel, EstablishWithPassword, Wait, Post, PaceReply
    <3>2. \A op \in PaceReply : op # "SET_PIN" /\ Asker(op) = "EstablishPaceChannel"
      BY DEF PaceReply, Asker
    <3> QED BY <3>1, <3>2, PostedOnTheWay
  <2> QED BY <1>3, <1>7, <2>1 DEF RunEstablishPaceChannel, EstablishWithoutPassword
<1>8. CASE RunUpdateRetryCounter \/ RunDestroyPaceAfterPuk
  BY <1>3, <1>4, <1>8
     DEF RunUpdateRetryCounter, RunUpdate, PostUpdateRetryCounter, RunDestroyPaceAfterPuk,
         RunDestroy, SecretOps
<1>9. CASE RunClearPacePasswordsOnError \/ RunSelectReader \/ RunVerifyRetryCounter
           \/ RunPreparePace \/ RunUnfortunateCardPosition \/ RunClearPacePasswordsBeforeDestroy
  BY <1>3, <1>9
     DEF RunClearPacePasswordsOnError, RunSelectReader, RunVerifyRetryCounter, RunPreparePace,
         RunUnfortunateCardPosition, RunClearPacePasswordsBeforeDestroy
<1> QED BY <1>5, <1>6, <1>7, <1>8, <1>9 DEF RunPace

LEMMA DeliverOnTheWay ==
  ASSUME CardTypeOK, readerName \in Readers \cup {NoReader}, OnTheWay,
         DeliverToPace \/ DeliverToChangePin
  PROVE  OnTheWay' /\ done' = done
<1> USE DEF chipVars, paceVars, controlVars
<1>1. DeliverToPace \/ DeliverToChangePin => msgs # <<>> /\ done' = done
  BY DEF DeliverToPace, DeliverToChangePin, DeliverCall, DeliverCreate, DeliverEvent, DeliverStale,
         DeliverUpdateRetryCounter, DeliverUpdateRetryCounterFinal, DeliverUpdate, DeliverPace,
         DeliversPace, PaceDone, PaceCardGone, PaceFailed, DeliverDestroyPaceAfterPuk,
         DeliverDestroyPace, DeliverDestroy, DeliverSetEidPin, Delivers, ResetCardConnection
<1>2. msgs \in Seq(Messages) /\ Tail(msgs) \in Seq(Messages)
  BY <1>1, Queues DEF CardTypeOK, Messages
<1>3. CASE DeliverCall
  <2>1. /\ UNCHANGED <<st, busy>> /\ msgs' = Tail(msgs)
        /\ \E c : c.op \notin SecretOps /\ cmds' = Append(cmds, c)
    BY <1>3 DEF DeliverCall, ReaderCommand, SecretOps
  <2> QED BY <1>1, <2>1, TakenMessage, LessOnTheWay
<1>4. CASE DeliverCreate
  <2>1. /\ ~Asking \/ UNCHANGED <<st, busy>>
        /\ msgs' = Tail(msgs) \/ msgs' = Disown(Tail(msgs))
        /\ \/ cmds' = cmds \/ cmds' = Disown(cmds)
           \/ \E c : c.op \notin SecretOps /\ cmds' = Append(cmds, c)
    BY <1>4 DEF DeliverCreate, DropUnclaimed, ReaderCommand, SecretOps, Asking, Waits
  <2> QED BY <1>1, <2>1, TakenMessage, LessOnTheWay
<1>5. CASE DeliverEvent
  <2>1. /\ ~Asking \/ UNCHANGED <<st, busy>>
        /\ cmds' = cmds
        /\ msgs' = Tail(msgs) \/ msgs' = Append(Tail(msgs), CreateCall)
    BY <1>5 DEF DeliverEvent, ConnectIfCard, Asking, Waits
  <2>2. CreateCall.kind \notin SecretOps
    BY DEF CreateCall, SecretOps
  <2>3. FewerReplies(SecretOps, msgs', msgs)
    BY <1>1, <2>1, <2>2, TakenMessage
  <2> QED BY <1>1, <2>1, <2>3, LessOnTheWay
<1>6. CASE DeliverStale
  <2>1. UNCHANGED <<st, busy, cmds>> /\ msgs' = Tail(msgs)
    BY <1>6 DEF DeliverStale
  <2> QED BY <1>1, <2>1, TakenMessage, LessOnTheWay
<1>7. CASE DeliverUpdateRetryCounter \/ DeliverUpdateRetryCounterFinal
           \/ DeliverDestroyPaceAfterPuk \/ DeliverDestroyPace
  <2>1. /\ ~Asking /\ cmds' = cmds
        /\ msgs' = Tail(msgs) \/ ResetCardConnection(Tail(msgs))
    BY <1>7
       DEF DeliverUpdateRetryCounter, DeliverUpdateRetryCounterFinal, DeliverUpdate, Delivers,
           DeliverDestroyPaceAfterPuk, DeliverDestroyPace, DeliverDestroy, ResetCardConnection,
           Asking, Waits
  <2>2. FewerReplies(SecretOps, msgs', msgs)
    BY <1>1, <1>2, <2>1, TakenMessage, ResetReplies, FewerStill
  <2> QED BY <1>1, <2>1, <2>2, LessOnTheWay
<1>8. CASE DeliverPace \/ DeliverSetEidPin
  <2>1. /\ Head(msgs).kind \in SecretOps /\ cmds' = cmds
        /\ msgs' = Tail(msgs) \/ ResetCardConnection(Tail(msgs))
    BY <1>8
       DEF DeliverPace, DeliversPace, PaceReply, PaceDone, PaceCardGone, PaceFailed,
           DeliverSetEidPin, Delivers, ResetCardConnection, SecretOps
  <2>2. FewerReplies(SecretOps, msgs', Tail(msgs))
    BY <1>2, <2>1, FewerRepliesKept, ResetReplies
  <2> QED BY <1>1, <2>1, <2>2, DeliveredReply
<1> QED BY <1>3, <1>4, <1>5, <1>6, <1>7, <1>8 DEF DeliverToPace, DeliverToChangePin

LEMMA WorkflowOnTheWay ==
  ASSUME CardTypeOK, OnTheWay, Stage, status = "NoError", status' = "NoError",
         RunChangePinWorkflow \/ User
  PROVE  OnTheWay' /\ done' = done
<1> USE DEF Runs, UnchangedReader, cardVars, chipVars, readerVars
<1>1. msgs \in Seq(Messages) /\ FewerReplies(SecretOps, msgs, msgs) /\ FewerReplies(SecretOps, Disown(msgs), msgs)
      /\ FewerReplies(SecretOps, Detach(msgs), msgs)
  BY FewerRepliesKept DEF CardTypeOK, Messages
<1>2. ~Cancel /\ ~CancelKilled /\ ~Kill
  BY DEF Cancel, CancelKilled, UserCancels, KillCancels, OnUserCancelled, UpdateStatus, Kill
<1>3. CASE RunChangePin
  <2>1. /\ ~busy /\ busy' /\ st' = "ChangePin" /\ done' = done
        /\ Post("SET_PIN", "UNKNOWN", pw["NEW_PIN"])
        /\ conn.reader \in BasicReaders => pw["NEW_PIN"] # NoPassword
    BY <1>3 DEF RunChangePin, Wait, Post, Stage
  <2>2. Asker("SET_PIN") = "ChangePin"
    BY DEF Asker
  <2> QED BY <2>1, <2>2, PostedOnTheWay
<1>4. CASE RunDestroyPace \/ RunUpdateRetryCounterFinal
  <2>1. /\ ~Asking /\ UNCHANGED <<done, msgs>>
        /\ cmds' = cmds \/ \E c : c.op \notin SecretOps /\ cmds' = Append(cmds, c)
    BY <1>4
       DEF RunDestroyPace, RunDestroy, RunUpdateRetryCounterFinal, RunUpdate,
           PostUpdateRetryCounter, Post, SecretOps, Asking, Waits
  <2> QED BY <1>1, <2>1, LessOnTheWay
<1>5. CASE RunChangePinWorkflow /\ ~RunChangePin /\ ~RunDestroyPace /\ ~RunUpdateRetryCounterFinal
  <2>1. ~Asking /\ UNCHANGED <<done, cmds>> /\ msgs' \in {msgs, Detach(msgs)}
    BY <1>2, <1>5
       DEF RunChangePinWorkflow, Leads, PaceChannelEstablished, PacePukEstablished, PaceAbort,
           RunPrepareChangePin, RunClearPacePasswords, RunCleanUpReaderManager,
           CleanUpReaderManager, Asking, Waits
  <2> QED BY <1>1, <2>1, LessOnTheWay
<1>6. CASE User
  <2>1. /\ ~Asking /\ done' = done
        /\ \/ UNCHANGED <<cmds, msgs>>
           \/ cmds' = Disown(cmds) /\ msgs' = Disown(msgs)
    BY <1>2, <1>6
       DEF User, EnterPacePassword, EnterNewPacePin, RunFinalState, RetryCardSelection,
           Asking, Waits
  <2> QED BY <1>1, <2>1, LessOnTheWay
<1> QED BY <1>3, <1>4, <1>5, <1>6

LEMMA RunPaceStage ==
  ASSUME Stage, done' = done, status' = "NoError", RunPace
  PROVE  Stage'
<1> USE DEF Stage, Changed, Unblocked, Runs, Waits, Goto, Wait
<1>1. CASE RunMaintainCardConnection
  <2>1. ~MaintainAborts
    BY DEF MaintainAborts, MustAbort, Unrecoverable, UpdateStatus, StatusOf
  <2> QED BY <1>1, <2>1
      DEF RunMaintainCardConnection, MaintainAfterWrongPassword, MaintainAfterCardGone,
          MaintainProceeds
<1>2. CASE RunClearPacePasswordsOnError \/ RunSelectReader \/ RunConnectCard \/ FinishConnectCard
           \/ RunUpdateRetryCounter \/ RunVerifyRetryCounter \/ RunPreparePace
  BY <1>2
     DEF RunClearPacePasswordsOnError, RunSelectReader, SelectReaderNow, RunConnectCard,
         FinishConnectCard, RunUpdateRetryCounter, RunUpdate, RunVerifyRetryCounter,
         RunPreparePace, Demand
<1>3. CASE RunEstablishPaceChannel \/ RunUnfortunateCardPosition
  BY <1>3
     DEF RunEstablishPaceChannel, EstablishWithoutPassword, EstablishWithPassword,
         RunUnfortunateCardPosition
<1>4. CASE RunClearPacePasswordsBeforeDestroy \/ RunDestroyPaceAfterPuk
  BY <1>4 DEF RunClearPacePasswordsBeforeDestroy, RunDestroyPaceAfterPuk, RunDestroy, contextVars
<1> QED BY <1>1, <1>2, <1>3, <1>4 DEF RunPace

LEMMA DeliverStage ==
  ASSUME CardTypeOK, OnTheWay, Stage, done' = done, status = "NoError", status' = "NoError",
         DeliverToPace \/ DeliverToChangePin
  PROVE  Stage'
<1> USE DEF Stage, Changed, Unblocked, Runs, Waits, Goto, Wait
<1>1. CASE DeliverCall \/ DeliverStale \/ DeliverCreate \/ DeliverEvent
  <2>1. /\ UNCHANGED <<lastPace, pw>>
        /\ \/ UNCHANGED <<st, busy>>
           \/ st' \in {"ConnectCard", "SelectReader", "MaintainCardConnection"}
    BY <1>1
       DEF DeliverCall, DeliverStale, DeliverCreate, DeliverEvent, SelectReaderNow, paceVars,
           contextVars, controlVars
  <2>2. ~(st = "ChangePin" /\ ~busy)
    BY <1>1 DEF DeliverCall, DeliverStale, DeliverCreate, DeliverEvent, AtRest, Interactive
  <2> QED BY <2>1, <2>2
<1>2. CASE DeliverUpdateRetryCounter \/ DeliverUpdateRetryCounterFinal
  BY <1>2
     DEF DeliverUpdateRetryCounter, DeliverUpdateRetryCounterFinal, DeliverUpdate, Delivers,
         contextVars
<1>3. CASE DeliverDestroyPaceAfterPuk \/ DeliverDestroyPace
  BY <1>3
     DEF DeliverDestroyPaceAfterPuk, DeliverDestroyPace, DeliverDestroy, Delivers, contextVars
<1>4. CASE DeliverPace
  <2>1. CASE PaceDone
    <3>1. Head(msgs).id = "PUK" => done = "unblocked"
      <4>1. /\ msgs # <<>> /\ Head(msgs).kind \in PaceReply /\ Head(msgs).code = "OK"
            /\ cmds' = cmds /\ msgs' = Tail(msgs) /\ Head(msgs).kind \in SecretOps
        BY <1>4, <2>1 DEF DeliverPace, DeliversPace, PaceDone, PaceReply, SecretOps
      <4>2. FewerReplies(SecretOps, msgs', Tail(msgs))
        BY <4>1, Queues, FewerRepliesKept DEF CardTypeOK, Messages
      <4> QED BY <4>1, <4>2, DeliveredReply DEF Truthful
    <3> QED BY <2>1, <3>1 DEF PaceDone
  <2>2. CASE PaceCardGone \/ PaceFailed
    BY <2>2 DEF PaceCardGone, PaceFailed
  <2> QED BY <1>4, <2>1, <2>2 DEF DeliverPace
<1>5. CASE DeliverSetEidPin
  <2>1. /\ msgs # <<>> /\ Head(msgs).kind = "SET_PIN" /\ lastPace' = Head(msgs).code
        /\ cmds' = cmds /\ msgs' = Tail(msgs)
        /\ \/ Head(msgs).code = "OK" /\ st' = "DestroyPace"
           \/ st' = "MaintainCardConnection"
    BY <1>5 DEF DeliverSetEidPin, Delivers, UpdateStatus
  <2>2. FewerReplies(SecretOps, msgs', Tail(msgs)) /\ Head(msgs).kind \in SecretOps
    BY <2>1, Queues, FewerRepliesKept DEF CardTypeOK, Messages, SecretOps
  <2>3. Head(msgs).code = "OK" => done = "changed"
    BY <2>1, <2>2, DeliveredReply DEF Truthful
  <2> QED BY <2>1, <2>3
<1> QED BY <1>1, <1>2, <1>3, <1>4, <1>5 DEF DeliverToPace, DeliverToChangePin

LEMMA WorkflowStage ==
  ASSUME TypeOK, Stage, ~killed, done' = done, status = "NoError", status' = "NoError",
         RunChangePinWorkflow \/ User
  PROVE  Stage'
<1> USE DEF Stage, Changed, Unblocked, Runs, Waits, Goto, Wait, UnchangedReader, cardVars,
            contextVars
<1>1. ~Cancel /\ ~CancelKilled /\ ~Kill
  BY DEF Cancel, CancelKilled, UserCancels, KillCancels, OnUserCancelled, UpdateStatus, Kill
<1>2. CASE PaceChannelEstablished \/ PacePukEstablished \/ PaceAbort \/ RunPrepareChangePin
  BY <1>2 DEF Leads, PaceChannelEstablished, PacePukEstablished, PaceAbort, RunPrepareChangePin
<1>3. CASE RunChangePin \/ RunDestroyPace \/ RunClearPacePasswords \/ RunUpdateRetryCounterFinal
           \/ RunCleanUpReaderManager
  BY <1>3
     DEF RunChangePin, RunDestroyPace, RunDestroy, RunClearPacePasswords,
         RunUpdateRetryCounterFinal, RunUpdate, RunCleanUpReaderManager, CleanUpReaderManager
<1>4. CASE EnterNewPacePin
  <2>1. NewPin # NoPassword
    BY ReaderAssumption DEF NewPin
  <2>2. conn # NoConn /\ conn.reader \in BasicReaders => pw'["NEW_PIN"] # NoPassword
    BY <1>4, <2>1 DEF EnterNewPacePin, TypeOK, ContextTypeOK, Secrets
  <2> QED BY <1>4, <2>2 DEF EnterNewPacePin
<1>5. CASE EnterPacePassword \/ RunFinalState \/ RetryCardSelection
  BY <1>5 DEF EnterPacePassword, RunFinalState, RetryCardSelection
<1> QED BY <1>1, <1>2, <1>3, <1>4, <1>5 DEF RunChangePinWorkflow, User

LEMMA KilledStep ==
  ASSUME [Next]_allVars
  PROVE  killed' = killed \/ status' = "Killed"
<1> USE DEF UnchangedControl
<1>1. CASE RunPace
  BY <1>1
     DEF RunPace, RunMaintainCardConnection, RunClearPacePasswordsOnError, RunSelectReader,
         RunConnectCard, FinishConnectCard, RunUpdateRetryCounter, RunUpdate,
         RunVerifyRetryCounter, RunPreparePace, RunEstablishPaceChannel,
         RunUnfortunateCardPosition, RunClearPacePasswordsBeforeDestroy,
         RunDestroyPaceAfterPuk, RunDestroy
<1>2. CASE DeliverToPace \/ DeliverToChangePin
  BY <1>2
     DEF DeliverToPace, DeliverToChangePin, paceVars, controlVars, DeliverCall, DeliverStale,
         DeliverCreate, DeliverEvent, DeliverUpdateRetryCounter, DeliverUpdate, DeliverPace,
         DeliverDestroyPaceAfterPuk, DeliverDestroy, DeliverSetEidPin, DeliverDestroyPace,
         DeliverUpdateRetryCounterFinal
<1>3. CASE RunChangePinWorkflow \/ User
  BY <1>3
     DEF RunChangePinWorkflow, Leads, PaceChannelEstablished, PacePukEstablished, PaceAbort,
         RunPrepareChangePin, RunChangePin, RunDestroyPace, RunDestroy, RunClearPacePasswords,
         RunUpdateRetryCounterFinal, RunUpdate, RunCleanUpReaderManager, CleanUpReaderManager,
         User, EnterPacePassword, EnterNewPacePin, RunFinalState, RetryCardSelection, Kill,
         Cancel, CancelKilled, UserCancels, KillCancels
<1>4. CASE Environment \/ Terminated \/ UNCHANGED allVars
  BY <1>4 DEF Environment, Terminated, allVars, paceVars, controlVars
<1> QED BY <1>1, <1>2, <1>3, <1>4 DEF Next, MainThread

LEMMA EnvironmentSuccess ==
  ASSUME CardTypeOK, OnTheWay, Stage, Environment \/ Terminated \/ UNCHANGED allVars
  PROVE  OnTheWay' /\ Stage'
<1>1. UNCHANGED <<st, busy, lastPace, pw>>
  BY DEF Environment, Terminated, allVars, paceVars, contextVars, controlVars
<1>2. msgs \in Seq(Messages) /\ FewerReplies(SecretOps, msgs, msgs)
  BY FewerRepliesKept DEF CardTypeOK, Messages
<1>3. conn' = conn
  BY DEF Environment, ReaderThread, Update, World, PutCard, TakeCard, Terminated, allVars, cardVars,
         Execute, ExecuteCreate, ExecuteDrop, ExecuteUpdateRetryCounter,
         ExecuteEstablishPaceChannel, ExecuteUnblockPin, ExecuteDestroyPaceChannel,
         ExecuteSetEidPin, ChipWorks, UnchangedByCommand
<1>4. CASE Execute
  <2>1. OnTheWay' /\ (done' = done \/ Asking)
    BY <1>1, <1>4, ExecuteOnTheWay
  <2> QED BY <1>1, <1>3, <2>1 DEF Stage, Changed, Unblocked, Asking, Waits, Runs
<1>5. CASE ~Execute
  <2>1. UNCHANGED <<done, cmds>> /\ FewerReplies(SecretOps, msgs', msgs)
    <3>1. \/ UNCHANGED <<done, cmds, msgs>>
          \/ \E r \in Readers : Update(r)
      BY <1>5
         DEF Environment, ReaderThread, World, TakeCard, PutCard, readerVars, chipVars, Terminated,
             allVars, cardVars
    <3>2. ASSUME NEW r \in Readers, Update(r)
          PROVE  UNCHANGED <<done, cmds>> /\ FewerReplies(SecretOps, msgs', msgs)
      <4>1. /\ UNCHANGED <<done, cmds>>
            /\ \E o \in PollOutcomes(r, rd[r]) :
                 o.events # <<>> /\ msgs' = Append(msgs, Signal(o.events[1].type, r, o.events[1].rc))
        BY <3>2 DEF Update, chipVars
      <4>2. ASSUME NEW o \in PollOutcomes(r, rd[r]), o.events # <<>>
            PROVE  Signal(o.events[1].type, r, o.events[1].rc).kind \notin SecretOps
        <5>1. o.events[1].type \in {"inserted", "removed"}
          BY <4>2 DEF PollOutcomes
        <5> QED BY <5>1 DEF Signal, SecretOps
      <4> QED BY <1>2, <4>1, <4>2, FewerRepliesKept
    <3> QED BY <1>2, <3>1, <3>2
  <2>2. OnTheWay'
    BY <1>1, <2>1, LessOnTheWay
  <2> QED BY <1>1, <1>3, <2>1, <2>2 DEF Stage, Changed, Unblocked, Runs
<1> QED BY <1>4, <1>5

(* A workflow that ends without an error has changed the PIN or unblocked  *)
(* it, as it reports: the chip did so, and nothing has failed since.       *)
THEOREM SuccessIsReal == Spec => []SuccessMeansDone
<1>1. Init => SuccessInv
  BY DEF Init, CardInit, ContextInit, SuccessInv, OnTheWay, Alone, Asked, Heard, Stage, Runs
<1>2. TypeOK /\ SuccessInv /\ [Next]_allVars => SuccessInv'
  <2> SUFFICES ASSUME TypeOK, SuccessInv, [Next]_allVars, status' = "NoError"
               PROVE  ~killed' /\ OnTheWay' /\ Stage'
    BY DEF SuccessInv
  <2>1. status = "NoError"
    BY StatusStep
  <2>2. /\ ~killed /\ OnTheWay /\ Stage
        /\ CardTypeOK /\ readerName \in Readers \cup {NoReader}
    BY <2>1 DEF SuccessInv, TypeOK, ContextTypeOK
  <2>3. ~killed'
    BY <2>2, KilledStep
  <2>4. CASE RunPace
    BY <2>2, <2>3, <2>4, RunPaceOnTheWay, RunPaceStage
  <2>5. CASE DeliverToPace \/ DeliverToChangePin
    BY <2>1, <2>2, <2>3, <2>5, DeliverOnTheWay, DeliverStage
  <2>6. CASE RunChangePinWorkflow \/ User
    BY <2>1, <2>2, <2>3, <2>6, WorkflowOnTheWay, WorkflowStage
  <2>7. CASE Environment \/ Terminated \/ UNCHANGED allVars
    BY <2>2, <2>3, <2>7, EnvironmentSuccess
  <2> QED BY <2>4, <2>5, <2>6, <2>7 DEF Next, MainThread
<1>3. SuccessInv => SuccessMeansDone
  BY DEF SuccessInv, SuccessMeansDone, Stage, Changed, Unblocked
<1> QED BY <1>1, <1>2, <1>3, TypeCorrect, PTL DEF Spec

-----------------------------------------------------------------------------
(* The PIN and the counter. What the readers and their slots always keep:  *)
(* a card lies in one slot, an open handle has its card in the slot, and a *)
(* Card object knows the counter as long as reading it has never failed.   *)

(* A card lies in one slot.                                                *)
SlotsApart == \A r, s \in Readers : slot[r] = slot[s] /\ slot[r] # NoCard => r = s
(* An open handle has its Card object, and a card in the slot.             *)
HandlesLive == \A r \in Readers : rd[r].handle = "open" => rd[r].obj /\ slot[r] # NoCard
(* A Card object knows the counter while no reading has failed.            *)
CountersKnown == failures = 0 => \A r \in Readers : rd[r].obj => rd[r].rc # -1

SlotInv == SlotsApart /\ HandlesLive /\ CountersKnown

(* What this says of the data d of the reader r, while n readings failed.  *)
Sound(d, k, n) ==
  /\ d.handle = "open" => d.obj /\ k # NoCard
  /\ n = 0 /\ d.obj => d.rc # -1

LEMMA SoundSlots ==
  (HandlesLive /\ CountersKnown) <=> \A r \in Readers : Sound(rd[r], slot[r], failures)
BY DEF HandlesLive, CountersKnown, Sound

LEMMA SoundSlotsNext ==
  (HandlesLive /\ CountersKnown)' <=> \A r \in Readers : Sound(rd'[r], slot'[r], failures')
BY DEF HandlesLive, CountersKnown, Sound

(* Looking into the slot keeps it.                                         *)
LEMMA PollSound ==
  ASSUME CardTypeOK, NEW r \in Readers, NEW d \in ReaderData, Sound(d, slot[r], failures),
         NEW o \in PollOutcomes(r, d)
  PROVE  Sound(o.data, slot[r], IF FailedRead(o) THEN failures + 1 ELSE failures)
<1>1. failures \in Nat /\ failures + 1 # 0
  BY DEF CardTypeOK
<1>2. CASE slot[r] # NoCard /\ ~d.obj
  <2>1. PICK k \in {chipRc[slot[r]]} \cup {-1} :
          o = [data |-> [obj |-> TRUE, handle |-> "closed", rc |-> k],
               events |-> <<[type |-> "inserted", rc |-> k]>>]
    BY <1>2 DEF PollOutcomes
  <2>2. o.data.obj /\ o.data.handle = "closed" /\ o.data.rc = k /\ o.events # <<>>
    BY <2>1
  <2> QED BY <1>1, <2>2 DEF Sound, FailedRead
<1>3. CASE ~(slot[r] # NoCard /\ ~d.obj)
  <2>1. o.data = d \/ o.data = NoCardInfo
    BY <1>3 DEF PollOutcomes
  <2> QED BY <1>1, <2>1 DEF Sound, FailedRead, NoCardInfo
<1> QED BY <1>2, <1>3

(* Closing a connection, too.                                              *)
LEMMA ResetSound ==
  ASSUME CardTypeOK, SlotInv, readerName \in Readers \cup {NoReader}, NEW queue,
         ResetCardConnection(queue)
  PROVE  SlotInv'
<1> DEFINE closed == IF conn = NoConn THEN rd ELSE [rd EXCEPT ![conn.reader] = Closed(@)]
<1>1. \A r \in Readers : closed[r] \in ReaderData /\ Sound(closed[r], slot[r], failures)
  <2>1. \A r \in Readers : rd[r] \in ReaderData /\ Sound(rd[r], slot[r], failures)
    BY SoundSlots DEF SlotInv, CardTypeOK
  <2>2. \A r \in Readers : closed[r] = rd[r] \/ closed[r] = Closed(rd[r])
    BY DEF CardTypeOK
  <2>3. ASSUME NEW d \in ReaderData, NEW k, Sound(d, k, failures)
        PROVE  Closed(d) \in ReaderData /\ Sound(Closed(d), k, failures)
    BY <2>3 DEF Closed, ReaderData, Sound
  <2> QED BY <2>1, <2>2, <2>3
<1>2. closed \in [Readers -> ReaderData]
  <2>1. DOMAIN closed = Readers /\ closed = [r \in Readers |-> closed[r]]
    BY DEF CardTypeOK
  <2> QED BY <1>1, <2>1
<1>3. slot' = slot
  BY DEF ResetCardConnection, worldVars
<1> HIDE DEF closed
<1>4. \A r \in Readers : Sound(rd'[r], slot'[r], failures')
  <2>1. CASE readerName = NoReader
    <3>1. rd' = closed /\ failures' = failures
      BY <2>1 DEF ResetCardConnection, closed
    <3> QED BY <1>1, <1>3, <3>1
  <2>2. CASE readerName # NoReader
    <3>1. PICK o \in PollOutcomes(readerName, closed[readerName]) :
            /\ rd' = [closed EXCEPT ![readerName] = o.data]
            /\ failures' = IF FailedRead(o) THEN failures + 1 ELSE failures
      BY <2>2 DEF ResetCardConnection, closed
    <3>2. Sound(o.data, slot[readerName], failures')
      BY <1>1, <2>2, <3>1, PollSound
    <3>3. failures' = 0 => failures = 0
      BY <3>1 DEF CardTypeOK
    <3> QED BY <1>1, <1>2, <1>3, <3>1, <3>2, <3>3 DEF Sound
  <2> QED BY <2>1, <2>2
<1> QED BY <1>3, <1>4, SoundSlotsNext DEF SlotInv, SlotsApart

(* A command keeps it.                                                     *)
LEMMA ExecuteSound ==
  ASSUME CardTypeOK, SlotInv, Execute
  PROVE  SlotInv'
<1>1. /\ \A r \in Readers : rd[r] \in ReaderData /\ Sound(rd[r], slot[r], failures)
      /\ rd \in [Readers -> ReaderData] /\ slot \in [Readers -> Cards \cup {NoCard}]
  BY SoundSlots DEF SlotInv, CardTypeOK
<1>2. ASSUME slot' = slot, failures' = failures, NEW s \in Readers, NEW d,
             rd' = [rd EXCEPT ![s] = d], Sound(d, slot[s], failures)
      PROVE  SlotInv'
  BY <1>1, <1>2, SoundSlotsNext DEF SlotInv, SlotsApart
<1>3. CASE UNCHANGED <<slot, rd, failures>>
  BY <1>1, <1>3, SoundSlotsNext DEF SlotInv, SlotsApart
<1>4. cmds # <<>> /\ Head(cmds).reader \in Readers
  BY FirstCommand, Answered
<1>5. CASE ExecuteCreate
  <2> DEFINE s == Head(cmds).reader
  <2>1. /\ slot' = slot /\ failures' = failures
        /\ \/ rd' = rd
           \/ rd' = [rd EXCEPT ![s] = [rd[s] EXCEPT !.handle = "open"]] /\ rd[s].obj /\ slot[s] # NoCard
    BY <1>5 DEF ExecuteCreate, worldVars
  <2>2. rd[s].obj /\ slot[s] # NoCard => Sound([rd[s] EXCEPT !.handle = "open"], slot[s], failures)
    BY <1>1, <1>4 DEF Sound, ReaderData
  <2> QED BY <1>2, <1>3, <1>4, <2>1, <2>2
<1>6. CASE ExecuteDrop
  <2> DEFINE s == Head(cmds).reader
  <2>1. slot' = slot /\ failures' = failures /\ rd' = [rd EXCEPT ![s] = Closed(rd[s])]
    BY <1>6 DEF ExecuteDrop, worldVars
  <2>2. Sound(Closed(rd[s]), slot[s], failures)
    BY <1>1, <1>4 DEF Sound, ReaderData, Closed
  <2> QED BY <1>2, <1>4, <2>1, <2>2
<1>7. CASE ExecuteUpdateRetryCounter
  <2> DEFINE s == Head(cmds).reader
  <2>1. /\ slot' = slot
        /\ \/ rd' = rd /\ (failures' = failures \/ failures' = failures + 1)
           \/ /\ rd' = [rd EXCEPT ![s] = [rd[s] EXCEPT !.rc = chipRc[slot[s]]]]
              /\ slot[s] # NoCard /\ failures' = failures
    BY <1>7 DEF ExecuteUpdateRetryCounter, worldVars, Reach
  <2>2. slot[s] # NoCard => chipRc[slot[s]] \in 0 .. 3
    BY <1>1, <1>4 DEF CardTypeOK
  <2>3. ASSUME NEW k \in 0 .. 3, slot[s] # NoCard
        PROVE  Sound([rd[s] EXCEPT !.rc = k], slot[s], failures)
    BY <1>1, <1>4, <2>3 DEF Sound, ReaderData
  <2>4. CASE rd' = rd /\ failures' = failures + 1
    <3>1. failures' # 0
      BY <2>4 DEF CardTypeOK
    <3> QED BY <1>1, <2>1, <2>4, <3>1, SoundSlotsNext DEF SlotInv, SlotsApart, Sound
  <2> QED BY <1>2, <1>3, <1>4, <2>1, <2>2, <2>3, <2>4
<1>8. ASSUME NEW id, NEW word, ChipWorks(Head(cmds).reader, id, word) PROVE SlotInv'
  <2> DEFINE s == Head(cmds).reader
  <2>1. failures' = failures
    BY <1>8 DEF ChipWorks
  <2>2. CASE UNCHANGED <<worldVars, rd>>
    BY <1>3, <2>1, <2>2 DEF worldVars
  <2>3. CASE slot' = [slot EXCEPT ![s] = NoCard] /\ rd' = [rd EXCEPT ![s] = Broken(@)]
    <3>1. Sound(Broken(rd[s]), NoCard, failures)
      BY <1>1, <1>4 DEF Sound, ReaderData, Broken
    <3>2. \A r \in Readers : Sound(rd'[r], slot'[r], failures')
      BY <1>1, <1>4, <2>1, <2>3, <3>1
    <3>3. SlotsApart'
      BY <1>1, <1>4, <2>3 DEF SlotInv, SlotsApart
    <3> QED BY <3>2, <3>3, SoundSlotsNext DEF SlotInv
  <2> QED BY <1>8, <2>2, <2>3 DEF ChipWorks
<1>9. CASE ExecuteEstablishPaceChannel \/ ExecuteUnblockPin
  BY <1>3, <1>8, <1>9
     DEF ExecuteEstablishPaceChannel, ExecuteUnblockPin, UnchangedByCommand, worldVars
<1>10. CASE ExecuteDestroyPaceChannel \/ ExecuteSetEidPin
  BY <1>3, <1>10 DEF ExecuteDestroyPaceChannel, ExecuteSetEidPin, worldVars
<1> QED BY <1>5, <1>6, <1>7, <1>9, <1>10 DEF Execute

(* The user's hands and the timer. *)
LEMMA SlotsSound ==
  ASSUME CardTypeOK, SlotInv, World \/ \E r \in Readers : Update(r)
  PROVE  SlotInv'
<1>1. /\ \A r \in Readers : rd[r] \in ReaderData /\ Sound(rd[r], slot[r], failures)
      /\ rd \in [Readers -> ReaderData] /\ slot \in [Readers -> Cards \cup {NoCard}]
  BY SoundSlots DEF SlotInv, CardTypeOK
<1>2. ASSUME NEW s \in Readers, TakeCard(s) PROVE SlotInv'
  <2>1. /\ slot' = [slot EXCEPT ![s] = NoCard] /\ rd' = [rd EXCEPT ![s] = Broken(@)]
        /\ failures' = failures
    BY <1>2 DEF TakeCard
  <2>2. Sound(Broken(rd[s]), NoCard, failures)
    BY <1>1 DEF Sound, ReaderData, Broken
  <2>3. \A r \in Readers : Sound(rd'[r], slot'[r], failures')
    BY <1>1, <2>1, <2>2
  <2>4. SlotsApart'
    BY <1>1, <2>1 DEF SlotInv, SlotsApart
  <2> QED BY <2>3, <2>4, SoundSlotsNext DEF SlotInv
<1>3. ASSUME NEW s \in Readers, NEW c \in Cards, PutCard(s, c) PROVE SlotInv'
  <2>1. /\ slot' = [slot EXCEPT ![s] = c] /\ UNCHANGED <<rd, failures>>
        /\ \A r \in Readers : slot[r] # c
    BY <1>3 DEF PutCard, readerVars
  <2>2. c # NoCard
    BY ReaderAssumption
  <2>3. \A r \in Readers : Sound(rd'[r], slot'[r], failures')
    BY <1>1, <2>1, <2>2 DEF Sound
  <2>4. SlotsApart'
    BY <1>1, <2>1 DEF SlotInv, SlotsApart
  <2> QED BY <2>3, <2>4, SoundSlotsNext DEF SlotInv
<1>4. ASSUME NEW s \in Readers, Update(s) PROVE SlotInv'
  <2>1. PICK o \in PollOutcomes(s, rd[s]) :
          /\ rd' = [rd EXCEPT ![s] = o.data] /\ slot' = slot
          /\ failures' = IF FailedRead(o) THEN failures + 1 ELSE failures
    BY <1>4 DEF Update, worldVars
  <2>2. Sound(o.data, slot[s], failures')
    BY <1>1, <2>1, PollSound
  <2>3. failures' = 0 => failures = 0
    BY <2>1 DEF CardTypeOK
  <2>4. \A r \in Readers : Sound(rd'[r], slot'[r], failures')
    BY <1>1, <2>1, <2>2, <2>3 DEF Sound
  <2> QED BY <2>1, <2>4, SoundSlotsNext DEF SlotInv, SlotsApart
<1> QED BY <1>2, <1>3, <1>4 DEF World

(* The main thread changes slots and readers only by closing a connection  *)
(* or starting the scan again.                                             *)
LEMMA MainReaders ==
  ASSUME MainThread \/ User
  PROVE  \/ UNCHANGED <<slot, rd, chipRc, canOpen, failures>>
         \/ ResetCardConnection(msgs) \/ ResetCardConnection(Tail(msgs))
         \/ RunCleanUpReaderManager
<1> USE DEF UnchangedReader, cardVars, worldVars, chipVars, readerVars
<1>1. CASE RunPace
  BY <1>1
     DEF RunPace, RunMaintainCardConnection, MaintainAborts, MaintainAfterWrongPassword,
         MaintainAfterCardGone, MaintainProceeds, RunClearPacePasswordsOnError,
         RunSelectReader, RunConnectCard, FinishConnectCard, RunUpdateRetryCounter, RunUpdate,
         PostUpdateRetryCounter, RunVerifyRetryCounter, RunPreparePace, RunEstablishPaceChannel,
         EstablishWithoutPassword, EstablishWithPassword, RunUnfortunateCardPosition,
         RunClearPacePasswordsBeforeDestroy, RunDestroyPaceAfterPuk, RunDestroy, Post
<1>2. CASE DeliverToPace \/ DeliverToChangePin
  BY <1>2
     DEF DeliverToPace, DeliverCall, DeliverCreate, DeliverEvent, DeliverUpdateRetryCounter,
         DeliverUpdate, DeliverDestroyPaceAfterPuk, DeliverDestroy, DeliverStale, DeliverPace,
         PaceDone, PaceCardGone, PaceFailed, DeliverToChangePin, DeliverSetEidPin,
         DeliverDestroyPace, DeliverUpdateRetryCounterFinal
<1>3. CASE RunChangePinWorkflow
  BY <1>3
     DEF RunChangePinWorkflow, Leads, PaceChannelEstablished, PacePukEstablished, PaceAbort,
         RunPrepareChangePin, RunChangePin, RunDestroyPace, RunDestroy, RunClearPacePasswords,
         RunUpdateRetryCounterFinal, RunUpdate, PostUpdateRetryCounter, Post, CancelKilled,
         KillCancels, OnUserCancelled
<1>4. CASE User
  BY <1>4
     DEF User, EnterPacePassword, EnterNewPacePin, RunFinalState, RetryCardSelection, Cancel,
         UserCancels, OnUserCancelled, Kill
<1> QED BY <1>1, <1>2, <1>3, <1>4 DEF MainThread

(* Every step keeps it.                                                    *)
LEMMA NextSound ==
  ASSUME TypeOK, SlotInv, [Next]_allVars
  PROVE  SlotInv'
<1>1. CardTypeOK /\ readerName \in Readers \cup {NoReader}
  BY DEF TypeOK, ContextTypeOK
<1>2. CASE UNCHANGED <<slot, rd, failures>>
  BY <1>2 DEF SlotInv, SlotsApart, HandlesLive, CountersKnown
<1>3. CASE RunCleanUpReaderManager
  BY <1>3
     DEF RunCleanUpReaderManager, CleanUpReaderManager, NoCardInfo, SlotInv, SlotsApart,
         HandlesLive, CountersKnown, worldVars
<1>4. CASE MainThread \/ User
  BY <1>1, <1>2, <1>3, <1>4, MainReaders, ResetSound
<1>5. CASE Environment
  BY <1>1, <1>5, ExecuteSound, SlotsSound DEF Environment, ReaderThread
<1>6. CASE Terminated \/ UNCHANGED allVars
  BY <1>2, <1>6 DEF Terminated, allVars, cardVars
<1> QED BY <1>4, <1>5, <1>6 DEF Next

-----------------------------------------------------------------------------
(* The connection and what is posted for it. *)

(* The commands with which a CardConnection asks something of the card.    *)
CallOps == {"UPDATE_RC", "PACE", "UNBLOCK", "DESTROY", "SET_PIN"}

(* A signal the connection listens to.                                     *)
News == {m \in Event : m.conn}

(* The places in q of members of P.                                        *)
At(P, q) == {i \in DOMAIN q : q[i] \in P}

(* The readers a queue brings news of.                                     *)
NewsFrom(q) == {q[i].reader : i \in At(News, q)}

(* A password command carries the password of its own kind.                *)
Fits(op, id) == /\ op = "PACE" => id \in {"PIN", "CAN"}
                /\ op = "UNBLOCK" => id = "PUK"

(* What is asked and what is heard concerns the connection there is.       *)
CallsOwn ==
  \A i \in Asked(CallOps, cmds) : Listening(cmds[i].reader) /\ Fits(cmds[i].op, cmds[i].id)
NewsOwn == \A r \in NewsFrom(msgs) : Listening(r)

(* A connection that does not listen yet is still in its constructor.      *)
LateListener ==
  conn # NoConn /\ ~conn.listening => Waits("ConnectCard") /\ ~cancelPending

(* Only the card of the connection has a CAN channel open.                 *)
CanOwned ==
  \A c \in Cards : canOpen[c] =>
    conn # NoConn /\ slot[conn.reader] = c /\ rd[conn.reader].handle = "open"

(* A password is asked for and sent with a connection; the hint about the  *)
(* position of the card comes without one.                                 *)
Connected ==
  /\ st \in {"EnterPacePassword", "EstablishPaceChannel"} => conn # NoConn
  /\ st = "UnfortunateCardPosition" => conn = NoConn
  /\ st = "EnterPacePassword" \/ Runs("EstablishPaceChannel") => idType \in {"PIN", "CAN", "PUK"}

LinkInv == CallsOwn /\ NewsOwn /\ LateListener
ConnInv == LinkInv /\ CanOwned /\ Connected

LEMMA EventsReplies ==
  /\ Event \cap Reply = {} /\ Event \subseteq Messages /\ Reply \subseteq Messages
  /\ News \subseteq Event
BY DEF Event, Reply, CommandOps, Messages, News

(* What happens to the news in a queue.                                    *)
LEMMA NewsQueue ==
  ASSUME NEW q \in Seq(Messages)
  PROVE  /\ NewsFrom(Disown(q)) = NewsFrom(q) /\ NewsFrom(Detach(q)) = {}
         /\ q # <<>> => NewsFrom(Tail(q)) \subseteq NewsFrom(q)
         /\ \A m : m \notin News => NewsFrom(Append(q, m)) \subseteq NewsFrom(q)
         /\ \A m \in News : NewsFrom(Append(q, m)) \subseteq NewsFrom(q) \cup {m.reader}
         /\ q # <<>> /\ Head(q) \in News => Head(q).reader \in NewsFrom(q)
<1>1. Len(q) \in Nat /\ DOMAIN q = 1 .. Len(q) /\ \A i \in 1 .. Len(q) : q[i] \in Messages
  BY LenProperties, ElementOfSeq
<1>2. ASSUME NEW i \in DOMAIN q
      PROVE  /\ Disown(q)[i] = [q[i] EXCEPT !.mine = FALSE]
             /\ Detach(q)[i] = [q[i] EXCEPT !.conn = FALSE]
  BY <1>1 DEF Disown, Detach
<1>3. DOMAIN Disown(q) = DOMAIN q /\ DOMAIN Detach(q) = DOMAIN q
  BY DEF Disown, Detach
<1>4. ASSUME NEW i \in DOMAIN q
      PROVE  /\ Disown(q)[i] \in News <=> q[i] \in News
             /\ Disown(q)[i].reader = q[i].reader
             /\ Detach(q)[i] \notin News
  <2>1. CASE q[i] \in Event
    BY <1>2, <2>1 DEF Event, News
  <2>2. CASE q[i] \in Reply
    <3>1. ASSUME NEW m \in Reply
          PROVE  /\ [m EXCEPT !.mine = FALSE] \in Reply /\ [m EXCEPT !.conn = FALSE] \in Reply
                 /\ [m EXCEPT !.mine = FALSE].reader = m.reader
      BY DEF Reply
    <3>2. Disown(q)[i] \in Reply /\ Disown(q)[i].reader = q[i].reader /\ Detach(q)[i] \in Reply
      BY <1>2, <2>2, <3>1
    <3> QED BY <2>2, <3>2, EventsReplies
  <2> QED BY <1>1, <2>1, <2>2 DEF Messages
<1>5. NewsFrom(Disown(q)) = NewsFrom(q)
  BY <1>3, <1>4 DEF NewsFrom, At
<1>6. NewsFrom(Detach(q)) = {}
  BY <1>3, <1>4 DEF NewsFrom, At
<1>7. ASSUME q # <<>> PROVE NewsFrom(Tail(q)) \subseteq NewsFrom(q)
  <2>1. \A i \in DOMAIN Tail(q) : i + 1 \in DOMAIN q /\ Tail(q)[i] = q[i + 1]
    BY <1>1, <1>7, HeadTailProperties, LenProperties
  <2> QED BY <2>1 DEF NewsFrom, At
<1>8. ASSUME NEW m
      PROVE  NewsFrom(Append(q, m)) \subseteq NewsFrom(q) \cup {m.reader}
             /\ (m \notin News => NewsFrom(Append(q, m)) \subseteq NewsFrom(q))
  <2>1. /\ DOMAIN Append(q, m) = 1 .. (Len(q) + 1) /\ Append(q, m)[Len(q) + 1] = m
        /\ \A i \in 1 .. Len(q) : Append(q, m)[i] = q[i]
    BY <1>1
  <2>2. \A i \in DOMAIN Append(q, m) : i = Len(q) + 1 \/ i \in DOMAIN q
    BY <1>1, <2>1
  <2> QED BY <1>1, <2>1, <2>2 DEF NewsFrom, At
<1>9. ASSUME q # <<>>, Head(q) \in News PROVE Head(q).reader \in NewsFrom(q)
  <2>1. 1 \in DOMAIN q /\ q[1] = Head(q)
    BY <1>1, <1>9
  <2> QED BY <1>9, <2>1 DEF NewsFrom, At
<1> QED BY <1>5, <1>6, <1>7, <1>8, <1>9

(* Closing the connection silences it.                                     *)
LEMMA ResetNews ==
  ASSUME CardTypeOK, readerName \in Readers \cup {NoReader}, NEW queue \in Seq(Messages),
         ResetCardConnection(queue)
  PROVE  NewsFrom(msgs') = {} /\ cmds' = <<>> /\ conn' = NoConn
<1>1. cmds' = <<>> /\ conn' = NoConn
  BY DEF ResetCardConnection
<1>2. NewsFrom(Detach(queue)) = {} /\ Detach(queue) \in Seq(Messages)
  BY NewsQueue, DetachType
<1>3. CASE readerName = NoReader
  BY <1>1, <1>2, <1>3 DEF ResetCardConnection
<1>4. CASE readerName # NoReader
  <2>1. PICK p \in Seq(Event) :
          msgs' = Detach(queue) \o p /\ \A i \in DOMAIN p : ~p[i].conn
    BY <1>4, ResetSignals
  <2> DEFINE q == Detach(queue)
  <2>2. /\ Len(q) \in Nat /\ Len(p) \in Nat /\ DOMAIN q = 1 .. Len(q) /\ DOMAIN p = 1 .. Len(p)
        /\ DOMAIN (q \o p) = 1 .. (Len(q) + Len(p))
        /\ \A i \in 1 .. (Len(q) + Len(p)) :
             (q \o p)[i] = IF i <= Len(q) THEN q[i] ELSE p[i - Len(q)]
    BY <1>2, LenProperties, ConcatProperties
  <2> HIDE DEF q
  <2>3. ASSUME NEW i \in At(News, q \o p) PROVE FALSE
    <3>1. i \in DOMAIN (q \o p) /\ (q \o p)[i] \in News
      BY <2>3 DEF At
    <3>2. CASE i <= Len(q)
      <4>1. i \in DOMAIN q /\ q[i] \in News
        BY <2>2, <3>1, <3>2
      <4> QED BY <1>2, <4>1 DEF NewsFrom, At, q
    <3>3. CASE ~(i <= Len(q))
      <4>1. i - Len(q) \in DOMAIN p /\ p[i - Len(q)] \in News
        BY <2>2, <3>1, <3>3
      <4> QED BY <2>1, <4>1 DEF News
    <3> QED BY <3>2, <3>3
  <2>4. NewsFrom(q \o p) = {}
    BY <2>3 DEF NewsFrom
  <2> QED BY <1>1, <2>1, <2>4 DEF q
<1> QED BY <1>3, <1>4

(* What is posted for the connection stays with it.                        *)
LEMMA LinkKept ==
  ASSUME CallsOwn, NewsOwn,
         conn # NoConn /\ conn.listening
           => conn' # NoConn /\ conn'.listening /\ conn'.reader = conn.reader,
         Fewer(CallOps, cmds', cmds),
         NewsFrom(msgs') \subseteq NewsFrom(msgs)
  PROVE  CallsOwn' /\ NewsOwn'
<1>1. PICK k \in Nat : \A i \in Asked(CallOps, cmds') :
        i + k \in Asked(CallOps, cmds) /\ SameCommand(cmds'[i], cmds[i + k])
  BY DEF Fewer
<1>2. ASSUME NEW i \in Asked(CallOps, cmds')
      PROVE  /\ conn' # NoConn /\ conn'.listening /\ conn'.reader = cmds'[i].reader
             /\ Fits(cmds'[i].op, cmds'[i].id)
  <2>1. /\ Listening(cmds[i + k].reader) /\ Fits(cmds[i + k].op, cmds[i + k].id)
        /\ SameCommand(cmds'[i], cmds[i + k])
    BY <1>1, <1>2 DEF CallsOwn
  <2> QED BY <2>1 DEF Listening, SameCommand
<1>3. CallsOwn'
  BY <1>2 DEF CallsOwn, Listening
<1>4. NewsOwn'
  BY DEF NewsOwn, Listening
<1> QED BY <1>3, <1>4

(* Without a connection nothing is posted for one.                         *)
LEMMA LinkFree ==
  ASSUME CallsOwn, NewsOwn, conn = NoConn \/ ~conn.listening
  PROVE  Asked(CallOps, cmds) = {} /\ NewsFrom(msgs) = {}
BY DEF CallsOwn, NewsOwn, Listening

(* A command leaves the bookkeeping of the connection in order.            *)
LEMMA ExecuteLink ==
  ASSUME CardTypeOK, CallsOwn, NewsOwn, Execute
  PROVE  CallsOwn' /\ NewsOwn'
<1>1. /\ cmds # <<>> /\ cmds' = Tail(cmds) /\ conn' = conn
      /\ cmds \in Seq(Command) /\ msgs \in Seq(Messages)
  BY Answered DEF CardTypeOK, Messages
<1>2. Fewer(CallOps, cmds', cmds)
  BY <1>1, FewerCommands
<1>3. \A m \in Reply : m \notin News
  BY EventsReplies
<1>4. CASE msgs' = msgs
  BY <1>1, <1>2, <1>4, LinkKept
<1>5. ASSUME NEW m \in Reply, msgs' = Append(msgs, m) PROVE CallsOwn' /\ NewsOwn'
  <2>1. NewsFrom(msgs') \subseteq NewsFrom(msgs)
    BY <1>1, <1>3, <1>5, NewsQueue
  <2> QED BY <1>1, <1>2, <2>1, LinkKept
<1>6. ASSUME NEW m \in Reply, NEW e \in Event, e.conn => Listening(e.reader),
             msgs' = Append(Append(msgs, e), m)
      PROVE  CallsOwn' /\ NewsOwn'
  <2>1. Append(msgs, e) \in Seq(Messages)
    BY <1>1, EventsReplies, Queues
  <2>2. NewsFrom(msgs') \subseteq NewsFrom(Append(msgs, e))
    BY <1>3, <1>6, <2>1, NewsQueue
  <2>3. NewsFrom(Append(msgs, e)) \subseteq NewsFrom(msgs) \cup {r \in {e.reader} : Listening(r)}
    <3>1. CASE e \in News
      BY <1>1, <1>6, <3>1, NewsQueue DEF News
    <3>2. CASE e \notin News
      BY <1>1, <3>2, NewsQueue
    <3> QED BY <3>1, <3>2
  <2>4. NewsOwn'
    BY <1>1, <2>2, <2>3 DEF NewsOwn, Listening
  <2>5. CallsOwn'
    <3>1. PICK k \in Nat : \A i \in Asked(CallOps, cmds') :
            i + k \in Asked(CallOps, cmds) /\ SameCommand(cmds'[i], cmds[i + k])
      BY <1>2 DEF Fewer
    <3> QED BY <1>1, <3>1 DEF CallsOwn, Listening, SameCommand
  <2> QED BY <2>4, <2>5
<1>7. ASSUME NEW e, e.conn = Listening(e.reader) PROVE e.conn => Listening(e.reader)
  BY <1>7
<1> QED BY <1>4, <1>5, <1>6, Answered

-----------------------------------------------------------------------------
(* What a step of the main thread does to the queues and to the            *)
(* connection: nothing much, post a command, close the connection, tell    *)
(* that it waits for nothing any more, take a new connection, or take the  *)
(* next message.                                                           *)

(* Cards and readers are left alone.                                       *)
Still == UNCHANGED <<slot, rd, chipRc, canOpen, failures>>

(* Nothing is posted but, to the main thread itself, the wish for a        *)
(* connection.                                                             *)
Kept ==
  /\ Still /\ UNCHANGED <<cmds, conn>>
  /\ msgs' \in {msgs, Append(msgs, CreateCall)}
  /\ ~busy \/ UNCHANGED <<st, busy>>

(* The state that waits for the answer to a command.                       *)
WaitsFor(op) ==
  CASE op = "UPDATE_RC" -> Waits("UpdateRetryCounter")
    [] op = "DESTROY" -> Waits("DestroyPace") \/ Waits("DestroyPaceAfterPuk")
    [] op = "SET_PIN" -> Waits("ChangePin")
    [] OTHER -> Waits("EstablishPaceChannel")

(* A state posts its command.                                              *)
Asks ==
  /\ conn # NoConn /\ ~busy /\ st \notin {"SelectReader", "ConnectCard"}
  /\ \E op \in CallOps, id \in PaceIds, word \in Passwords \cup {NoPassword} :
       /\ Fits(op, id) /\ Post(op, id, word)
       /\ WaitsFor(op)' \/ (op = "UPDATE_RC" /\ st' = "UpdateRetryCounterFinal")

(* The workflow has still to come to a result.                             *)
Going == st \notin AfterError \/ (st = "MaintainCardConnection" /\ status = "NoError")

IsAnswer(m) == m \in Reply /\ m.kind \in CallOps

(* The connection is closed.                                               *)
Closes ==
  \/ ~busy /\ ResetCardConnection(msgs)
  \/ msgs # <<>> /\ IsAnswer(Head(msgs)) /\ ResetCardConnection(Tail(msgs))
  \/ RunCleanUpReaderManager

(* A state is left before its answers: no reply is for it any more.        *)
Silences ==
  /\ Still /\ cmds' = Disown(cmds) /\ conn' = conn
  /\ \/ msgs' = Disown(msgs)
     \/ /\ msgs # <<>> /\ Head(msgs).kind = "CREATE" /\ Head(msgs).code # "OK"
        /\ msgs' = Disown(Tail(msgs))
  /\ st \in {"SelectReader", "ConnectCard"} \/ ~Going'

(* StateConnectCard takes the new worker.                                  *)
Claims ==
  /\ Still /\ AtRest /\ Waits("ConnectCard") /\ conn = NoConn
  /\ msgs # <<>> /\ msgs' = Tail(msgs) /\ cmds = <<>> /\ cmds' = cmds
  /\ conn' = [reader |-> Head(msgs).reader, rc |-> rd[Head(msgs).reader].rc, can |-> FALSE,
              pin |-> FALSE, listening |-> FALSE]
  /\ UNCHANGED <<st, busy, cancelPending>>

(* The announcement of a worker that opened a handle.                      *)
Opened(m) == m.kind = "CREATE" /\ m.code = "OK"

(* A message that tells the connection nothing is taken.                   *)
Forwards ==
  /\ Still /\ AtRest /\ msgs # <<>> /\ ~IsAnswer(Head(msgs)) /\ Head(msgs) \notin News
  /\ msgs' \in {Tail(msgs), Append(Tail(msgs), CreateCall)}
  /\ conn' = conn
  /\ \/ cmds' = cmds /\ ~Opened(Head(msgs))
     \/ \E c \in Command :
          /\ c.op \in {"CREATE", "DROP"} /\ cmds' = Append(cmds, c)
          /\ Opened(Head(msgs)) => c.op = "DROP" /\ c.reader = Head(msgs).reader
  /\ UNCHANGED <<st, busy>> \/ st = "SelectReader"

(* The connection refreshes its copy of the ReaderInfo.                    *)
Learns ==
  /\ Still /\ AtRest /\ msgs # <<>> /\ Head(msgs) \in News /\ conn # NoConn
  /\ conn' = [conn EXCEPT !.rc = Head(msgs).rc]
  /\ msgs' = Tail(msgs) /\ cmds' = cmds
  /\ UNCHANGED <<st, busy>>

(* The answer to a command is taken.                                       *)
TakesAnswer ==
  /\ Still /\ AtRest /\ msgs # <<>> /\ IsAnswer(Head(msgs))
  /\ conn' = WithPaceResult(conn, Head(msgs))
  /\ msgs' = Tail(msgs) /\ cmds' = cmds

MainStep ==
  \/ Kept \/ Asks \/ Closes \/ Silences \/ Claims \/ FinishConnectCard
  \/ Forwards \/ Learns \/ TakesAnswer

(* The states of the composite state, what they receive, the rest of the   *)
(* workflow and its user take no other steps.                              *)
LEMMA RunPaceSteps ==
  ASSUME TypeOK, SelectsFree, Connected, RunPace
  PROVE  MainStep
<1> USE DEF Runs, Goto, Wait, UnchangedReader, cardVars, worldVars, chipVars, readerVars
<1>1. ASSUME UnchangedReader, ~busy PROVE Kept
  BY <1>1 DEF Kept, Still
<1>2. CASE RunMaintainCardConnection
  BY <1>1, <1>2
     DEF RunMaintainCardConnection, MaintainAborts, MaintainAfterWrongPassword,
         MaintainAfterCardGone, MaintainProceeds, MainStep, Closes
<1>3. CASE RunConnectCard
  BY <1>3 DEF RunConnectCard, ConnectIfCard, MainStep, Kept, Still
<1>4. CASE RunUpdateRetryCounter
  <2>1. /\ "UPDATE_RC" \in CallOps /\ "UNKNOWN" \in PaceIds /\ Fits("UPDATE_RC", "UNKNOWN")
        /\ NoPassword \in Passwords \cup {NoPassword}
    BY DEF CallOps, PaceIds, Fits
  <2>2. st' = "UpdateRetryCounter" /\ busy' => WaitsFor("UPDATE_RC")'
    BY DEF WaitsFor, Waits
  <2> QED BY <1>1, <1>4, <2>1, <2>2
      DEF RunUpdateRetryCounter, RunUpdate, PostUpdateRetryCounter, MainStep, Asks
<1>5. CASE RunDestroyPaceAfterPuk
  <2>1. /\ "DESTROY" \in CallOps /\ "UNKNOWN" \in PaceIds /\ Fits("DESTROY", "UNKNOWN")
        /\ NoPassword \in Passwords \cup {NoPassword}
    BY DEF CallOps, PaceIds, Fits
  <2>2. st' = "DestroyPaceAfterPuk" /\ busy' => WaitsFor("DESTROY")'
    BY DEF WaitsFor, Waits
  <2> QED BY <1>1, <1>5, <2>1, <2>2 DEF RunDestroyPaceAfterPuk, RunDestroy, MainStep, Asks
<1>6. CASE RunEstablishPaceChannel
  <2>1. CASE EstablishWithPassword /\ conn # NoConn
    <3>1. /\ idType \in {"PIN", "CAN", "PUK"} /\ ~busy
          /\ Post(IF idType = "PUK" THEN "UNBLOCK" ELSE "PACE", idType, Secret)
          /\ st = "EstablishPaceChannel" /\ st' = st /\ busy'
      BY <1>6, <2>1 DEF RunEstablishPaceChannel, EstablishWithPassword, Connected
    <3>2. PICK op \in CallOps :
            /\ op = IF idType = "PUK" THEN "UNBLOCK" ELSE "PACE"
            /\ op \notin {"UPDATE_RC", "DESTROY", "SET_PIN"}
      BY <3>1 DEF CallOps
    <3>3. Fits(op, idType) /\ idType \in PaceIds
      BY <3>1, <3>2 DEF Fits, PaceIds
    <3>4. Secret \in Passwords \cup {NoPassword}
      BY <3>1 DEF Secret, TypeOK, ContextTypeOK, Secrets
    <3>5. WaitsFor(op)'
      BY <3>1, <3>2 DEF WaitsFor, Waits
    <3>6. Asks
      BY <2>1, <3>1, <3>2, <3>3, <3>4, <3>5 DEF Asks
    <3> QED BY <3>6 DEF MainStep
  <2> QED BY <1>1, <1>6, <2>1 DEF RunEstablishPaceChannel, EstablishWithoutPassword, MainStep
<1>7. CASE RunClearPacePasswordsOnError \/ RunSelectReader \/ RunVerifyRetryCounter
           \/ RunPreparePace \/ RunUnfortunateCardPosition \/ RunClearPacePasswordsBeforeDestroy
  BY <1>1, <1>7
     DEF RunClearPacePasswordsOnError, RunSelectReader, RunVerifyRetryCounter,
         RunPreparePace, RunUnfortunateCardPosition, RunClearPacePasswordsBeforeDestroy, MainStep
<1> QED BY <1>2, <1>3, <1>4, <1>5, <1>6, <1>7 DEF RunPace, MainStep

LEMMA DeliverSteps ==
  ASSUME TypeOK, SelectsFree, LinkInv, DeliverToPace \/ DeliverToChangePin
  PROVE  MainStep
<1> USE DEF Still, worldVars, chipVars, readerVars
<1> DEFINE m == Head(msgs)
<1>1. AtRest /\ msgs # <<>>
  BY DEF DeliverToPace, DeliverToChangePin, DeliverCall, DeliverCreate, DeliverEvent,
     DeliverUpdateRetryCounter, DeliverUpdate, DeliverPace, DeliversPace,
     DeliverDestroyPaceAfterPuk, DeliverDestroy, DeliverStale, DeliverSetEidPin,
     DeliverDestroyPace, DeliverUpdateRetryCounterFinal, Delivers
<1>2. /\ m \in Messages /\ m.reader \in Readers
      /\ m.kind \notin {"inserted", "removed", "counter"} => m \in Reply /\ m \notin News
      /\ m.kind \in {"inserted", "removed", "counter"} => m \in Event /\ m \notin Reply
      /\ m.kind \in CommandOps \cup {"CALL"} => m.kind \notin {"inserted", "removed", "counter"}
      /\ CallOps \subseteq CommandOps
  BY <1>1, FirstMessage, EventsReplies DEF TypeOK, CommandOps, CallOps
<1>3. ASSUME NEW op \in CommandOps, NEW r \in Readers, NEW mine \in BOOLEAN
      PROVE  /\ ReaderCommand(op, r, mine) \in Command /\ ReaderCommand(op, r, mine).op = op
             /\ ReaderCommand(op, r, mine).reader = r
  BY DEF ReaderCommand, Command, PaceIds
<1>4. m \in Reply => m.mine \in BOOLEAN
  BY DEF Reply
<1>5. m.kind # "PACE" => WithPaceResult(conn, m) = conn
  BY DEF WithPaceResult
<1> HIDE DEF m
<1>6. CASE DeliverCall
  <2>1. /\ m.kind = "CALL" /\ msgs' = Tail(msgs) /\ conn' = conn /\ UNCHANGED <<st, busy>> /\ Still
        /\ cmds' = Append(cmds, ReaderCommand("CREATE", m.reader, m.mine))
    BY <1>6 DEF DeliverCall, m, paceVars, controlVars
  <2>2. "CREATE" \in CommandOps /\ "CALL" \notin CallOps
    BY DEF CommandOps, CallOps
  <2>3. ~IsAnswer(m) /\ m \notin News /\ m.mine \in BOOLEAN
    BY <1>2, <1>4, <2>1, <2>2 DEF IsAnswer
  <2>4. \E c \in Command : c.op \in {"CREATE", "DROP"} /\ cmds' = Append(cmds, c)
    BY <1>2, <1>3, <2>1, <2>2, <2>3
  <2>5. ~Opened(m)
    BY <2>1 DEF Opened
  <2> QED BY <1>1, <2>1, <2>3, <2>4, <2>5 DEF Forwards, MainStep, m
<1>7. CASE DeliverCreate
  <2>1. m.kind = "CREATE" /\ Still /\ cancelPending' = cancelPending
    BY <1>7 DEF DeliverCreate, m, UnchangedControl
  <2>2. "DROP" \in CommandOps /\ "CREATE" \notin CallOps /\ "CREATE" \in CommandOps
    BY DEF CommandOps, CallOps
  <2>3. ~IsAnswer(m) /\ m \notin News
    BY <1>2, <2>1, <2>2 DEF IsAnswer
  <2>4. CASE ~m.mine
    <3>1. /\ msgs' = Tail(msgs) /\ UNCHANGED <<st, busy, conn>>
          /\ \/ cmds' = cmds /\ ~Opened(m)
             \/ cmds' = Append(cmds, ReaderCommand("DROP", m.reader, FALSE))
      BY <1>7, <2>4 DEF DeliverCreate, DropUnclaimed, Opened, m
    <3>2. \/ cmds' = cmds /\ ~Opened(m)
          \/ \E c \in Command :
               /\ c.op \in {"CREATE", "DROP"} /\ cmds' = Append(cmds, c)
               /\ Opened(m) => c.op = "DROP" /\ c.reader = m.reader
      BY <1>2, <1>3, <2>2, <3>1
    <3> QED BY <1>1, <2>1, <2>3, <3>1, <3>2 DEF Forwards, MainStep, m
  <2>5. CASE m.mine /\ m.code # "OK"
    BY <1>1, <1>7, <2>1, <2>5 DEF DeliverCreate, Silences, MainStep, m, Waits
  <2>6. CASE m.mine /\ m.code = "OK"
    <3>1. conn = NoConn
      BY <1>1, <1>7, <2>6 DEF DeliverCreate, SelectsFree, AtRest, Waits, m
    <3> QED BY <1>1, <1>7, <2>1, <2>6, <3>1 DEF DeliverCreate, Claims, MainStep, m
  <2> QED BY <2>4, <2>5, <2>6
<1>8. CASE DeliverEvent
  <2>1. /\ m.kind \in {"inserted", "removed", "counter"} /\ Still /\ cmds' = cmds
        /\ m \in Event /\ m \notin Reply
    BY <1>2, <1>8 DEF DeliverEvent, m
  <2>2. m \in News <=> m.conn
    BY <2>1 DEF News
  <2>3. CASE m.conn
    <3>1. m.reader \in NewsFrom(msgs)
      BY <1>1, <2>2, <2>3, NewsQueue DEF m, TypeOK, CardTypeOK, Messages
    <3>2. conn # NoConn /\ conn.listening
      BY <3>1 DEF LinkInv, NewsOwn, Listening
    <3>3. st \notin {"SelectReader", "ConnectCard"}
      BY <3>2 DEF SelectsFree
    <3>4. msgs' = Tail(msgs) /\ conn' = [conn EXCEPT !.rc = m.rc] /\ UNCHANGED <<st, busy>>
      BY <1>8, <2>3, <3>2, <3>3 DEF DeliverEvent, m
    <3> QED BY <1>1, <2>1, <2>2, <2>3, <3>2, <3>4 DEF Learns, MainStep, m
  <2>4. CASE ~m.conn
    <3>1. /\ conn' = conn /\ msgs' \in {Tail(msgs), Append(Tail(msgs), CreateCall)}
          /\ UNCHANGED <<st, busy>> \/ st = "SelectReader"
      BY <1>8, <2>4 DEF DeliverEvent, ConnectIfCard, m
    <3>2. ~Opened(m)
      BY <2>1 DEF Opened
    <3> QED BY <1>1, <2>1, <2>2, <2>4, <3>1, <3>2 DEF Forwards, MainStep, m, IsAnswer
  <2> QED BY <2>3, <2>4
<1>9. CASE DeliverStale
  <2>1. /\ m.kind \in CommandOps /\ msgs' = Tail(msgs) /\ conn' = WithPaceResult(conn, m)
        /\ Still /\ cmds' = cmds /\ UNCHANGED <<st, busy>>
    BY <1>9 DEF DeliverStale, m, paceVars, controlVars
  <2>2. CASE m.kind \in CallOps
    BY <1>1, <1>2, <2>1, <2>2 DEF TakesAnswer, IsAnswer, MainStep, m
  <2>3. CASE m.kind \notin CallOps
    <3>1. conn' = conn
      BY <1>5, <2>1, <2>3 DEF CallOps
    <3>2. ~Opened(m)
      BY <1>9 DEF DeliverStale, Opened, m
    <3> QED BY <1>1, <1>2, <2>1, <2>3, <3>1, <3>2 DEF Forwards, IsAnswer, MainStep, m
  <2> QED BY <2>2, <2>3
<1>10. CASE DeliverPace
  <2>1. m.kind \in CallOps
    BY <1>10 DEF DeliverPace, DeliversPace, PaceReply, CallOps, m
  <2>2. IsAnswer(m)
    BY <1>2, <2>1 DEF IsAnswer
  <2>3. CASE PaceDone \/ PaceFailed
    BY <1>1, <2>2, <2>3 DEF PaceDone, PaceFailed, TakesAnswer, MainStep, m
  <2>4. CASE PaceCardGone
    BY <1>1, <2>2, <2>4 DEF PaceCardGone, Closes, MainStep, m
  <2> QED BY <1>10, <2>3, <2>4 DEF DeliverPace
<1>11. CASE DeliverUpdateRetryCounter \/ DeliverUpdateRetryCounterFinal
            \/ DeliverDestroyPaceAfterPuk \/ DeliverDestroyPace \/ DeliverSetEidPin
  <2>1. m.kind \in {"UPDATE_RC", "DESTROY", "SET_PIN"}
    BY <1>11
       DEF DeliverUpdateRetryCounter, DeliverUpdateRetryCounterFinal, DeliverUpdate, Delivers,
           DeliverDestroyPaceAfterPuk, DeliverDestroyPace, DeliverDestroy, DeliverSetEidPin, m
  <2>2. IsAnswer(m) /\ WithPaceResult(conn, m) = conn
    BY <1>2, <1>5, <2>1 DEF IsAnswer, CallOps
  <2>3. \/ ResetCardConnection(Tail(msgs))
        \/ Still /\ msgs' = Tail(msgs) /\ conn' = conn /\ cmds' = cmds
    BY <1>11
       DEF DeliverUpdateRetryCounter, DeliverUpdateRetryCounterFinal, DeliverUpdate,
           DeliverDestroyPaceAfterPuk, DeliverDestroyPace, DeliverDestroy, DeliverSetEidPin
  <2> QED BY <1>1, <2>2, <2>3 DEF Closes, TakesAnswer, MainStep, m
<1> QED BY <1>6, <1>7, <1>8, <1>9, <1>10, <1>11 DEF DeliverToPace, DeliverToChangePin

LEMMA WorkflowSteps ==
  ASSUME TypeOK, RunChangePinWorkflow \/ User
  PROVE  MainStep
<1> USE DEF Runs, Goto, Wait, UnchangedReader, cardVars, worldVars, chipVars, readerVars
<1>1. ASSUME UnchangedReader, ~busy \/ UNCHANGED <<st, busy>> PROVE Kept
  BY <1>1 DEF Kept, Still
<1>2. CASE PaceChannelEstablished \/ PacePukEstablished \/ PaceAbort \/ RunPrepareChangePin
           \/ RunClearPacePasswords \/ EnterNewPacePin \/ RunFinalState \/ Kill
  BY <1>1, <1>2
     DEF PaceChannelEstablished, PacePukEstablished, PaceAbort, RunPrepareChangePin, Leads,
         RunClearPacePasswords, EnterNewPacePin, RunFinalState, Kill, MainStep
<1>3. CASE EnterPacePassword
  BY <1>3 DEF EnterPacePassword, Kept, Still, MainStep
<1>4. CASE RunChangePin \/ RunDestroyPace \/ RunUpdateRetryCounterFinal
  <2>1. /\ {"SET_PIN", "DESTROY", "UPDATE_RC"} \subseteq CallOps /\ "UNKNOWN" \in PaceIds
        /\ Fits("SET_PIN", "UNKNOWN") /\ Fits("DESTROY", "UNKNOWN") /\ Fits("UPDATE_RC", "UNKNOWN")
        /\ NoPassword \in Passwords \cup {NoPassword}
    BY DEF CallOps, PaceIds, Fits
  <2>2. pw["NEW_PIN"] \in Passwords \cup {NoPassword}
    BY DEF TypeOK, ContextTypeOK, Secrets
  <2>3. /\ st' = "ChangePin" /\ busy' => WaitsFor("SET_PIN")'
        /\ st' = "DestroyPace" /\ busy' => WaitsFor("DESTROY")'
    BY DEF WaitsFor, Waits
  <2>4. CASE RunChangePin
    BY <2>1, <2>2, <2>3, <2>4 DEF RunChangePin, MainStep, Asks
  <2>5. CASE RunDestroyPace
    BY <2>1, <2>3, <2>5 DEF RunDestroyPace, RunDestroy, MainStep, Asks
  <2>6. CASE RunUpdateRetryCounterFinal
    BY <1>1, <2>1, <2>6
       DEF RunUpdateRetryCounterFinal, RunUpdate, PostUpdateRetryCounter, MainStep, Asks
  <2> QED BY <1>4, <2>4, <2>5, <2>6
<1>5. CASE RetryCardSelection
  BY <1>5 DEF RetryCardSelection, Silences, Still, MainStep
<1>6. CASE Cancel \/ CancelKilled
  <2>1. /\ Still /\ cmds' = Disown(cmds) /\ msgs' = Disown(msgs) /\ conn' = conn
        /\ UpdateStatus("Cancelled") /\ st' = AbortTarget(st)
    BY <1>6 DEF Cancel, CancelKilled, UserCancels, KillCancels, OnUserCancelled, Still
  <2>2. status' # "NoError" /\ st' \in {"MaintainCardConnection", "PaceAbort",
                                        "ClearPacePasswords", "CleanUpReaderManager"}
    BY <2>1 DEF UpdateStatus, AbortTarget, PaceAbortTarget
  <2>3. ~Going'
    BY <2>2 DEF Going, AfterError
  <2> QED BY <2>1, <2>3 DEF Silences, MainStep
<1> QED BY <1>2, <1>3, <1>4, <1>5, <1>6
    DEF RunChangePinWorkflow, User, MainStep, Closes

LEMMA MainSteps ==
  ASSUME TypeOK, SelectsFree, LinkInv, Connected, MainThread \/ User
  PROVE  MainStep
BY RunPaceSteps, DeliverSteps, WorkflowSteps DEF MainThread

(* What the main thread's steps keep of the connection's bookkeeping.      *)
LEMMA OneMore ==
  ASSUME cmds \in Seq(Command), NEW c, cmds' = Append(cmds, c), NEW S
  PROVE  \A i \in Asked(S, cmds') :
           \/ i = Len(cmds) + 1 /\ cmds'[i] = c
           \/ i \in Asked(S, cmds) /\ i < Len(cmds) + 1 /\ cmds'[i] = cmds[i]
<1>1. /\ Len(cmds) \in Nat /\ DOMAIN cmds = 1 .. Len(cmds)
      /\ DOMAIN cmds' = 1 .. (Len(cmds) + 1) /\ cmds'[Len(cmds) + 1] = c
      /\ \A k \in 1 .. Len(cmds) : cmds'[k] = cmds[k]
  BY AppendProperties, LenProperties
<1>2. ASSUME NEW i \in Asked(S, cmds') PROVE i \in 1 .. (Len(cmds) + 1) /\ cmds'[i].op \in S
  BY <1>1, <1>2 DEF Asked
<1> QED BY <1>1, <1>2 DEF Asked

(* The wish for a connection is no news.                                   *)
LEMMA CallIsNoNews == CreateCall \notin News /\ CreateCall.kind = "CALL"
BY DEF CreateCall, News, Event

(* The result of a channel and the news leave the link as it is.           *)
LEMMA ResultLink ==
  ASSUME CardTypeOK, conn # NoConn, NEW m
  PROVE  /\ WithPaceResult(conn, m) # NoConn
         /\ WithPaceResult(conn, m).reader = conn.reader
         /\ WithPaceResult(conn, m).listening = conn.listening
         /\ WithPaceResult(conn, m).rc = conn.rc
<1>1. conn \in Connection
  BY DEF CardTypeOK
<1>2. (m.code = "OK") \in BOOLEAN /\ (conn.can /\ m.code = "OK") \in BOOLEAN
  OBVIOUS
<1>3. /\ [conn EXCEPT !.can = (m.code = "OK")] \in Connection
      /\ [conn EXCEPT !.can = (m.code = "OK")].reader = conn.reader
      /\ [conn EXCEPT !.can = (m.code = "OK")].listening = conn.listening
      /\ [conn EXCEPT !.can = (m.code = "OK")].rc = conn.rc
  BY <1>1, <1>2 DEF Connection
<1>4. /\ [conn EXCEPT !.pin = (m.code = "OK"), !.can = @ /\ m.code = "OK"] \in Connection
      /\ [conn EXCEPT !.pin = (m.code = "OK"), !.can = @ /\ m.code = "OK"].reader = conn.reader
      /\ [conn EXCEPT !.pin = (m.code = "OK"), !.can = @ /\ m.code = "OK"].listening = conn.listening
      /\ [conn EXCEPT !.pin = (m.code = "OK"), !.can = @ /\ m.code = "OK"].rc = conn.rc
  BY <1>1, <1>2 DEF Connection
<1> QED BY <1>1, <1>3, <1>4, ConnectionAssumption DEF WithPaceResult

(* News change the counter of a connection and nothing else.               *)
LEMMA NewsLink ==
  ASSUME CardTypeOK, conn # NoConn, NEW k \in RetryCounters
  PROVE  /\ [conn EXCEPT !.rc = k] # NoConn /\ [conn EXCEPT !.rc = k].reader = conn.reader
         /\ [conn EXCEPT !.rc = k].listening = conn.listening
         /\ [conn EXCEPT !.rc = k].can = conn.can /\ [conn EXCEPT !.rc = k].rc = k
BY ConnectionAssumption DEF CardTypeOK, Connection

(* A connection stays where it leads until it is given up.                 *)
LEMMA ConnFate ==
  ASSUME CardTypeOK, MainStep, conn # NoConn, conn' # NoConn
  PROVE  conn'.reader = conn.reader /\ (conn.listening => conn'.listening)
<1>1. CASE Kept \/ Asks \/ Silences \/ Forwards
  BY <1>1 DEF Kept, Asks, Post, Silences, Forwards
<1>2. CASE Closes
  BY <1>2 DEF Closes, ResetCardConnection, RunCleanUpReaderManager, CleanUpReaderManager
<1>3. CASE FinishConnectCard
  BY <1>3 DEF FinishConnectCard, CardTypeOK, Connection
<1>4. CASE Learns
  <2>1. Head(msgs).rc \in RetryCounters
    BY <1>4 DEF Learns, News, Event
  <2> QED BY <1>4, <2>1, NewsLink DEF Learns
<1>5. CASE TakesAnswer
  BY <1>5, ResultLink DEF TakesAnswer
<1> QED BY <1>1, <1>2, <1>3, <1>4, <1>5 DEF MainStep, Claims

(* The connection goes only when it is closed.                             *)
LEMMA ConnStays ==
  ASSUME CardTypeOK, MainStep, ~Closes, conn # NoConn
  PROVE  conn' # NoConn
<1>1. CASE Kept \/ Asks \/ Silences \/ Forwards
  BY <1>1 DEF Kept, Asks, Post, Silences, Forwards
<1>3. CASE FinishConnectCard
  BY <1>3, ConnectionAssumption DEF FinishConnectCard, CardTypeOK, Connection
<1>4. CASE Learns
  <2>1. Head(msgs).rc \in RetryCounters
    BY <1>4 DEF Learns, News, Event
  <2> QED BY <1>4, <2>1, NewsLink DEF Learns
<1>5. CASE TakesAnswer
  BY <1>5, ResultLink DEF TakesAnswer
<1> QED BY <1>1, <1>3, <1>4, <1>5 DEF MainStep, Claims

(* The main thread asks and hears only over the connection there is.       *)
LEMMA MainLink ==
  ASSUME CardTypeOK, readerName \in Readers \cup {NoReader}, LinkInv, MainStep
  PROVE  CallsOwn' /\ NewsOwn'
<1>1. /\ cmds \in Seq(Command) /\ msgs \in Seq(Messages)
      /\ msgs # <<>> => Tail(msgs) \in Seq(Messages)
      /\ CallsOwn /\ NewsOwn
  BY Queues DEF CardTypeOK, Messages, LinkInv
<1>2. /\ Fewer(CallOps, cmds, cmds) /\ Fewer(CallOps, Disown(cmds), cmds)
      /\ \A c : c.op \notin CallOps => Fewer(CallOps, Append(cmds, c), cmds)
  BY <1>1, FewerCommands
<1>3. /\ NewsFrom(Append(msgs, CreateCall)) \subseteq NewsFrom(msgs)
      /\ NewsFrom(Disown(msgs)) \subseteq NewsFrom(msgs)
      /\ NewsFrom(Detach(msgs)) = {}
  BY <1>1, NewsQueue, CallIsNoNews
<1>4. ASSUME msgs # <<>>
      PROVE  /\ NewsFrom(Tail(msgs)) \subseteq NewsFrom(msgs)
             /\ NewsFrom(Append(Tail(msgs), CreateCall)) \subseteq NewsFrom(msgs)
             /\ NewsFrom(Disown(Tail(msgs))) \subseteq NewsFrom(msgs)
  BY <1>1, <1>4, NewsQueue, CallIsNoNews
<1>5. ASSUME conn = NoConn \/ ~conn.listening, cmds' = cmds, NewsFrom(msgs') \subseteq NewsFrom(msgs)
      PROVE  CallsOwn' /\ NewsOwn'
  <2>1. Asked(CallOps, cmds) = {} /\ NewsFrom(msgs) = {}
    BY <1>1, <1>5, LinkFree
  <2>2. Asked(CallOps, cmds') = {} /\ NewsFrom(msgs') = {}
    BY <1>5, <2>1
  <2> QED BY <2>2 DEF CallsOwn, NewsOwn
<1>6. ASSUME ~Closes, Fewer(CallOps, cmds', cmds), NewsFrom(msgs') \subseteq NewsFrom(msgs)
      PROVE  CallsOwn' /\ NewsOwn'
  BY <1>1, <1>6, ConnStays, ConnFate, LinkKept
<1>7. ASSUME cmds' = <<>>, NewsFrom(msgs') = {} PROVE CallsOwn' /\ NewsOwn'
  BY <1>7 DEF CallsOwn, NewsOwn, Asked
<1>8. CASE Closes
  <2>1. CASE RunCleanUpReaderManager
    BY <1>3, <1>7, <2>1 DEF RunCleanUpReaderManager, CleanUpReaderManager
  <2> QED BY <1>1, <1>7, <1>8, <2>1, ResetNews DEF Closes
<1>9. CASE ~Closes /\ Kept
  BY <1>2, <1>3, <1>6, <1>9 DEF Kept
<1>10. CASE ~Closes /\ Silences
  BY <1>2, <1>3, <1>4, <1>6, <1>10 DEF Silences
<1>11. CASE ~Closes /\ Forwards
  <2>1. \A op \in {"CREATE", "DROP"} : op \notin CallOps
    BY DEF CallOps
  <2>2. Fewer(CallOps, cmds', cmds)
    BY <1>2, <1>11, <2>1 DEF Forwards
  <2>3. NewsFrom(msgs') \subseteq NewsFrom(msgs)
    BY <1>4, <1>11 DEF Forwards
  <2> QED BY <1>6, <1>11, <2>2, <2>3
<1>12. CASE ~Closes /\ (Learns \/ TakesAnswer)
  BY <1>2, <1>4, <1>6, <1>12 DEF Learns, TakesAnswer
<1>13. CASE Claims
  BY <1>4, <1>5, <1>13 DEF Claims
<1>14. CASE FinishConnectCard
  BY <1>3, <1>5, <1>14 DEF FinishConnectCard
<1>15. CASE Asks
  <2>1. PICK op \in CallOps, id \in PaceIds, word \in Passwords \cup {NoPassword} :
          Fits(op, id) /\ Post(op, id, word)
    BY <1>15 DEF Asks
  <2>2. conn # NoConn /\ conn.listening /\ UNCHANGED <<conn, msgs>>
    BY <1>15, <2>1 DEF Asks, Post, LinkInv, LateListener, Waits
  <2> DEFINE c == [op |-> op, reader |-> conn.reader, id |-> id, pw |-> word,
                   mine |-> TRUE, conn |-> TRUE]
  <2>3. cmds' = Append(cmds, c) /\ c.op = op /\ c.reader = conn.reader /\ c.id = id
    BY <2>1 DEF Post
  <2> HIDE DEF c
  <2>4. ASSUME NEW i \in Asked(CallOps, cmds')
        PROVE  conn.reader = cmds'[i].reader /\ Fits(cmds'[i].op, cmds'[i].id)
    <3>1. cmds'[i] = c \/ (i \in Asked(CallOps, cmds) /\ cmds'[i] = cmds[i])
      <4>1. cmds \in Seq(Command) /\ cmds' = Append(cmds, c)
        BY <1>1, <2>3
      <4> QED BY <2>4, <4>1, OneMore
    <3>2. CASE cmds'[i] = c
      BY <2>1, <2>3, <3>2
    <3>3. CASE i \in Asked(CallOps, cmds) /\ cmds'[i] = cmds[i]
      BY <1>1, <3>3 DEF CallsOwn, Listening
    <3> QED BY <3>1, <3>2, <3>3
  <2>5. CallsOwn'
    BY <2>2, <2>4 DEF CallsOwn, Listening
  <2>6. NewsOwn'
    BY <1>1, <2>2 DEF NewsOwn, Listening
  <2> QED BY <2>5, <2>6
<1> QED BY <1>8, <1>9, <1>10, <1>11, <1>12, <1>13, <1>14, <1>15 DEF MainStep

(* While the connection is being set up only that happens.                 *)
LEMMA OnlyFinish ==
  ASSUME conn # NoConn, ~conn.listening, Waits("ConnectCard"), ~cancelPending, MainThread \/ User
  PROVE  FinishConnectCard
<1> USE DEF Runs, Waits, AtRest, Interactive
<1>1. CASE RunPace
  BY <1>1
     DEF RunPace, RunMaintainCardConnection, RunClearPacePasswordsOnError, RunSelectReader,
         RunConnectCard, RunUpdateRetryCounter, RunUpdate, RunVerifyRetryCounter, RunPreparePace,
         RunEstablishPaceChannel, RunUnfortunateCardPosition, RunClearPacePasswordsBeforeDestroy,
         RunDestroyPaceAfterPuk, RunDestroy
<1>2. CASE DeliverToPace \/ DeliverToChangePin
  BY <1>2
     DEF DeliverToPace, DeliverToChangePin, DeliverCall, DeliverCreate, DeliverEvent,
         DeliverUpdateRetryCounter, DeliverUpdate, DeliverPace, DeliversPace,
         DeliverDestroyPaceAfterPuk, DeliverDestroy, DeliverStale, DeliverSetEidPin,
         DeliverDestroyPace, DeliverUpdateRetryCounterFinal, Delivers
<1>3. CASE RunChangePinWorkflow \/ User
  BY <1>3
     DEF RunChangePinWorkflow, Leads, PaceChannelEstablished, PacePukEstablished, PaceAbort,
         RunPrepareChangePin, RunChangePin, RunDestroyPace, RunDestroy, RunClearPacePasswords,
         RunUpdateRetryCounterFinal, RunUpdate, RunCleanUpReaderManager, CleanUpReaderManager,
         User, EnterPacePassword, EnterNewPacePin, RunFinalState, RetryCardSelection, Kill,
         Cancel, CancelKilled, UserCancels, KillCancels
<1> QED BY <1>1, <1>2, <1>3 DEF MainThread

(* The constructor of a connection ends before anything else happens in    *)
(* the main thread.                                                        *)
LEMMA LateStep ==
  ASSUME CardTypeOK, LateListener, MainStep, MainThread \/ User
  PROVE  LateListener'
<1>1. CASE conn # NoConn /\ ~conn.listening
  <2>1. FinishConnectCard
    BY <1>1, OnlyFinish DEF LateListener
  <2>2. conn'.listening
    BY <1>1, <2>1 DEF FinishConnectCard, CardTypeOK, Connection
  <2> QED BY <2>2 DEF LateListener
<1>2. CASE conn # NoConn /\ conn.listening
  BY <1>2, ConnFate DEF LateListener
<1>3. CASE conn = NoConn
  <2>1. CASE Claims
    BY <2>1 DEF Claims, LateListener, AtRest, Waits
  <2>2. CASE ~Claims
    <3>1. WithPaceResult(conn, Head(msgs)) = NoConn
      BY <1>3 DEF WithPaceResult
    <3>2. conn' = NoConn
      BY <1>3, <2>2, <3>1
         DEF MainStep, Kept, Asks, Post, Closes, ResetCardConnection, RunCleanUpReaderManager,
             CleanUpReaderManager, Silences, FinishConnectCard, Forwards, Learns, TakesAnswer
    <3> QED BY <3>2 DEF LateListener
  <2> QED BY <2>1, <2>2
<1> QED BY <1>1, <1>2, <1>3

(* No state with a password is reached without a connection.               *)
LEMMA ConnectedStep ==
  ASSUME TypeOK, Connected, MainThread \/ User
  PROVE  Connected'
<1> USE DEF Connected, Runs, Waits, Goto, Wait, UnchangedReader, cardVars, contextVars
<1>1. CardTypeOK
  BY DEF TypeOK
<1>2. CASE RunPace
  <2>1. CASE RunPreparePace
    BY <2>1 DEF RunPreparePace, Demand, Demanded
  <2>2. CASE RunEstablishPaceChannel
    BY <2>2 DEF RunEstablishPaceChannel, EstablishWithoutPassword, EstablishWithPassword, Post
  <2>3. CASE RunMaintainCardConnection
    BY <2>3
       DEF RunMaintainCardConnection, MaintainAborts, MaintainAfterWrongPassword,
           MaintainAfterCardGone, MaintainProceeds
  <2> QED BY <1>2, <2>1, <2>2, <2>3
      DEF RunPace, RunClearPacePasswordsOnError, RunSelectReader, SelectReaderNow,
          RunConnectCard, FinishConnectCard, RunUpdateRetryCounter, RunUpdate,
          RunVerifyRetryCounter, RunUnfortunateCardPosition, RunClearPacePasswordsBeforeDestroy,
          RunDestroyPaceAfterPuk, RunDestroy
<1>3. CASE DeliverCall \/ DeliverCreate
  BY <1>3 DEF DeliverCall, DeliverCreate, paceVars, controlVars
<1>4. CASE DeliverEvent
  <2>1. msgs # <<>> /\ Head(msgs).rc \in RetryCounters
    BY <1>1, <1>4, FirstMessage DEF DeliverEvent
  <2>2. conn # NoConn => conn' # NoConn
    BY <1>1, <1>4, <2>1, NewsLink DEF DeliverEvent
  <2>3. conn = NoConn => conn' = NoConn
    BY <1>4 DEF DeliverEvent
  <2>4. idType' = idType /\ ((UNCHANGED <<st, busy>>) \/ st' \in {"SelectReader", "ConnectCard"})
    BY <1>4 DEF DeliverEvent, SelectReaderNow
  <2> QED BY <2>2, <2>3, <2>4
<1>5. CASE DeliverStale
  <2>1. /\ UNCHANGED <<st, busy, idType>> /\ conn' = WithPaceResult(conn, Head(msgs))
    BY <1>5 DEF DeliverStale, paceVars, controlVars
  <2>2. conn = NoConn <=> conn' = NoConn
    BY <1>1, <2>1, ResultLink DEF WithPaceResult
  <2> QED BY <2>1, <2>2
<1>6. CASE DeliverPace
  <2>1. CASE PaceCardGone
    BY <1>6, <2>1 DEF DeliverPace, PaceCardGone, ResetCardConnection
  <2> QED BY <1>6, <2>1 DEF DeliverPace, PaceDone, PaceFailed
<1>7. CASE DeliverUpdateRetryCounter \/ DeliverUpdateRetryCounterFinal
           \/ DeliverDestroyPaceAfterPuk \/ DeliverDestroyPace \/ DeliverSetEidPin
  BY <1>7
     DEF DeliverUpdateRetryCounter, DeliverUpdateRetryCounterFinal, DeliverUpdate, Delivers,
         DeliverDestroyPaceAfterPuk, DeliverDestroyPace, DeliverDestroy, DeliverSetEidPin
<1>8. CASE Cancel \/ CancelKilled
  BY <1>8 DEF Cancel, CancelKilled, UserCancels, KillCancels, OnUserCancelled, AbortTarget,
              PaceAbortTarget
<1>9. CASE RunChangePinWorkflow
  BY <1>8, <1>9
     DEF RunChangePinWorkflow, Leads, PaceChannelEstablished, PacePukEstablished, PaceAbort,
         RunPrepareChangePin, RunChangePin, RunDestroyPace, RunDestroy, RunClearPacePasswords,
         RunUpdateRetryCounterFinal, RunUpdate, RunCleanUpReaderManager, CleanUpReaderManager
<1>10. CASE User
  BY <1>8, <1>10
     DEF User, EnterPacePassword, EnterNewPacePin, RunFinalState, RetryCardSelection, Kill
<1> QED BY <1>2, <1>3, <1>4, <1>5, <1>6, <1>7, <1>9, <1>10
    DEF MainThread, DeliverToPace, DeliverToChangePin

-----------------------------------------------------------------------------
(* Only the connection opens a CAN channel, and it is closed with it.      *)

LEMMA CanKept ==
  ASSUME CardTypeOK, CanOwned, UNCHANGED <<slot, rd, canOpen>>,
         conn # NoConn => conn' # NoConn /\ conn'.reader = conn.reader
  PROVE  CanOwned'
BY DEF CanOwned

LEMMA ResetCan ==
  ASSUME CardTypeOK, CanOwned, NEW queue, ResetCardConnection(queue)
  PROVE  CanOwned'
<1>1. CASE conn = NoConn
  BY <1>1 DEF ResetCardConnection, CanOwned
<1>2. CASE conn # NoConn
  <2>1. canOpen' = ResetChip(conn.reader, rd[conn.reader])
    BY <1>2 DEF ResetCardConnection
  <2>2. ASSUME NEW c \in Cards, canOpen'[c] PROVE FALSE
    BY <2>1, <2>2, ReaderAssumption DEF CanOwned, ResetChip, CardTypeOK
  <2> QED BY <2>2 DEF CanOwned
<1> QED BY <1>1, <1>2

LEMMA CanMain ==
  ASSUME TypeOK, CanOwned, MainStep
  PROVE  CanOwned'
<1>1. CardTypeOK
  BY DEF TypeOK
<1>2. CASE RunCleanUpReaderManager
  <2>1. ASSUME NEW c \in Cards, canOpen'[c] PROVE FALSE
    <3>1. canOpen[c] /\ \A r \in Readers : slot[r] = c => rd[r].handle # "open"
      BY <1>2, <2>1 DEF RunCleanUpReaderManager, CleanUpReaderManager
    <3>2. conn # NoConn /\ conn.reader \in Readers
      BY <1>1, <3>1 DEF CanOwned, CardTypeOK, Connection
    <3> QED BY <3>1, <3>2 DEF CanOwned
  <2> QED BY <2>1 DEF CanOwned
<1>3. CASE Closes
  BY <1>1, <1>2, <1>3, ResetCan DEF Closes
<1>4. CASE ~Closes
  <2>1. conn # NoConn => conn' # NoConn /\ conn'.reader = conn.reader
    BY <1>1, <1>4, ConnStays, ConnFate
  <2>2. UNCHANGED <<slot, rd, canOpen>>
    BY <1>4
       DEF MainStep, Kept, Asks, Silences, Claims, FinishConnectCard, Forwards, Learns,
           TakesAnswer, Still, Post, worldVars, chipVars
  <2> QED BY <1>1, <2>1, <2>2, CanKept
<1> QED BY <1>3, <1>4

(* A password sent over the connection leaves no other channel behind ...  *)
LEMMA CanWorks ==
  ASSUME CardTypeOK, CanOwned, SlotsApart, conn # NoConn, Reach(conn.reader),
         NEW id \in {"CAN", "PIN", "PUK"}, NEW word, ChipWorks(conn.reader, id, word)
  PROVE  CanOwned'
<1> DEFINE r == conn.reader
           a == ChipAnswer(slot[r], id, word)
<1>1. r \in Readers /\ conn' = conn
  BY DEF CardTypeOK, Connection, ChipWorks
<1>2. CASE canOpen' = [canOpen EXCEPT ![slot[r]] = a.can] /\ UNCHANGED <<worldVars, rd>>
  <2> HIDE DEF a
  <2>1. \A c \in Cards : canOpen'[c] => canOpen[c] \/ c = slot[r]
    BY <1>1, <1>2 DEF CardTypeOK
  <2> QED BY <1>1, <1>2, <2>1 DEF CanOwned, Reach, worldVars
<1>3. CASE canOpen' = [canOpen EXCEPT ![slot[r]] = FALSE]
  <2>1. ASSUME NEW c \in Cards, canOpen'[c] PROVE FALSE
    BY <1>1, <1>3, <2>1 DEF CardTypeOK, CanOwned, Reach
  <2> QED BY <2>1 DEF CanOwned
<1> QED BY <1>2, <1>3 DEF ChipWorks

(* ... nor does any other command ...                                      *)
LEMMA CanExecute ==
  ASSUME CardTypeOK, SlotInv, CallsOwn, CanOwned, Execute
  PROVE  CanOwned'
<1> DEFINE c == Head(cmds)
           r == c.reader
<1>1. cmds # <<>> /\ c \in Command /\ r \in Readers /\ conn' = conn
  BY FirstCommand, Answered
<1>2. CASE UNCHANGED <<slot, rd, canOpen>>
  BY <1>1, <1>2, CanKept
<1>3. c.op \in CallOps => conn # NoConn /\ conn.reader = r /\ Fits(c.op, c.id)
  <2>1. cmds \in Seq(Command)
    BY DEF CardTypeOK
  <2>2. 1 \in DOMAIN cmds /\ cmds[1] = c
    BY <1>1, <2>1, LenProperties, HeadTailProperties
  <2> HIDE DEF c
  <2> QED BY <2>2 DEF CallsOwn, Asked, Listening
<1>4. conn # NoConn => conn.reader \in Readers
  BY DEF CardTypeOK, Connection
<1> HIDE DEF c
<1>5. CASE ExecuteCreate
  <2>1. UNCHANGED <<slot, canOpen>>
        /\ (rd' = rd \/ rd' = [rd EXCEPT ![r].handle = "open"])
    BY <1>5 DEF ExecuteCreate, worldVars, chipVars, c
  <2>2. \A s \in Readers : rd[s].handle = "open" => rd'[s].handle = "open"
    BY <1>1, <2>1 DEF CardTypeOK, ReaderData
  <2> QED BY <1>1, <1>4, <2>1, <2>2 DEF CanOwned
<1>6. CASE ExecuteDrop
  <2>1. slot' = slot /\ canOpen' = ResetChip(r, rd[r]) /\ rd' = [rd EXCEPT ![r] = Closed(@)]
    BY <1>6 DEF ExecuteDrop, worldVars, c
  <2>2. ASSUME NEW d \in Cards, canOpen'[d]
        PROVE  conn # NoConn /\ slot[conn.reader] = d /\ rd[conn.reader].handle = "open"
               /\ conn.reader # r
    BY <1>1, <2>1, <2>2, ReaderAssumption DEF CanOwned, ResetChip, CardTypeOK
  <2> QED BY <1>1, <1>4, <2>1, <2>2 DEF CanOwned, CardTypeOK
<1>7. CASE ExecuteUpdateRetryCounter
  <2> DEFINE d == [rd[r] EXCEPT !.rc = chipRc[slot[r]]]
  <2>1. UNCHANGED <<slot, canOpen>>
        /\ \/ rd' = rd
           \/ rd' = [rd EXCEPT ![r] = d]
    BY <1>7 DEF ExecuteUpdateRetryCounter, worldVars, chipVars, c
  <2>3. d.handle = rd[r].handle
    BY <1>1 DEF CardTypeOK, ReaderData
  <2> HIDE DEF d
  <2>2. \A s \in Readers : rd[s].handle = "open" => rd'[s].handle = "open"
    BY <1>1, <2>1, <2>3 DEF CardTypeOK
  <2> QED BY <1>1, <1>4, <2>1, <2>2 DEF CanOwned
<1>8. CASE ExecuteEstablishPaceChannel
  <2>1. c.op = "PACE" /\ c.op \in CallOps
    BY <1>8 DEF ExecuteEstablishPaceChannel, Executes, CallOps, c
  <2>2. \/ UNCHANGED <<slot, rd, canOpen>>
        \/ Reach(r) /\ \E word : ChipWorks(r, c.id, word)
    BY <1>8 DEF ExecuteEstablishPaceChannel, UnchangedByCommand, worldVars, chipVars, c
  <2>3. conn # NoConn /\ conn.reader = r /\ c.id \in {"PIN", "CAN"}
    BY <1>3, <2>1 DEF Fits
  <2> HIDE DEF r
  <2> QED BY <1>2, <2>2, <2>3, CanWorks DEF SlotInv
<1>9. CASE ExecuteUnblockPin
  <2>1. c.op \in CallOps
    BY <1>9 DEF ExecuteUnblockPin, Executes, CallOps, c
  <2>2. \/ UNCHANGED <<slot, rd, canOpen>>
        \/ Reach(r) /\ \E word : ChipWorks(r, "PUK", word)
    BY <1>9 DEF ExecuteUnblockPin, UnchangedByCommand, worldVars, chipVars, c
  <2> HIDE DEF r
  <2> QED BY <1>2, <1>3, <2>1, <2>2, CanWorks DEF SlotInv
<1>10. CASE ExecuteDestroyPaceChannel
  <2>1. UNCHANGED <<slot, rd>> /\ \A d \in Cards : canOpen'[d] => canOpen[d]
    BY <1>10 DEF ExecuteDestroyPaceChannel, worldVars, CardTypeOK
  <2> QED BY <1>1, <2>1 DEF CanOwned
<1>11. CASE ExecuteSetEidPin
  BY <1>2, <1>11 DEF ExecuteSetEidPin, worldVars
<1> QED BY <1>5, <1>6, <1>7, <1>8, <1>9, <1>10, <1>11 DEF Execute

(* ... nor the user's hands: a card that is moved loses its channel.       *)
LEMMA CanSlots ==
  ASSUME CardTypeOK, SlotInv, CanOwned, World \/ \E r \in Readers : Update(r)
  PROVE  CanOwned'
<1>1. conn # NoConn => conn.reader \in Readers
  BY DEF CardTypeOK, Connection
<1>2. ASSUME NEW s \in Readers, TakeCard(s) PROVE CanOwned'
  <2>1. /\ slot' = [slot EXCEPT ![s] = NoCard] /\ rd' = [rd EXCEPT ![s] = Broken(@)]
        /\ canOpen' = [canOpen EXCEPT ![slot[s]] = FALSE] /\ conn' = conn /\ slot[s] # NoCard
    BY <1>2 DEF TakeCard
  <2>2. ASSUME NEW c \in Cards, canOpen'[c]
        PROVE  conn # NoConn /\ slot[conn.reader] = c /\ rd[conn.reader].handle = "open"
               /\ conn.reader # s
    BY <2>1, <2>2 DEF CanOwned, CardTypeOK
  <2> QED BY <1>1, <2>1, <2>2 DEF CanOwned, CardTypeOK
<1>3. ASSUME NEW s \in Readers, NEW d \in Cards, PutCard(s, d) PROVE CanOwned'
  <2>1. /\ slot' = [slot EXCEPT ![s] = d] /\ slot[s] = NoCard
        /\ UNCHANGED <<rd, canOpen, conn>>
    BY <1>3 DEF PutCard, readerVars, chipVars
  <2> QED BY <1>1, <2>1, ReaderAssumption DEF CanOwned, CardTypeOK
<1>4. ASSUME NEW s \in Readers, Update(s) PROVE CanOwned'
  <2>1. PICK o \in PollOutcomes(s, rd[s]) :
          o.events # <<>> /\ rd' = [rd EXCEPT ![s] = o.data] /\ UNCHANGED <<slot, canOpen, conn>>
    BY <1>4 DEF Update, worldVars, chipVars
  <2>2. rd[s].handle # "open"
    <3>1. ~(slot[s] # NoCard /\ rd[s].obj)
      BY <2>1 DEF PollOutcomes
    <3> QED BY <3>1 DEF SlotInv, HandlesLive
  <2> QED BY <1>1, <2>1, <2>2 DEF CanOwned, CardTypeOK
<1> QED BY <1>2, <1>3, <1>4 DEF World

-----------------------------------------------------------------------------
(* The link between the connection and what is under way for it holds in   *)
(* every state.                                                            *)

(* The timer's signals reach the connection that listens to that reader.   *)
LEMMA UpdateLink ==
  ASSUME CardTypeOK, CallsOwn, NewsOwn, NEW r \in Readers, Update(r)
  PROVE  CallsOwn' /\ NewsOwn'
<1>1. PICK o \in PollOutcomes(r, rd[r]) :
        /\ o.events # <<>> /\ msgs' = Append(msgs, Signal(o.events[1].type, r, o.events[1].rc))
        /\ UNCHANGED <<cmds, conn>>
  BY DEF Update
<1> DEFINE e == Signal(o.events[1].type, r, o.events[1].rc)
<1>2. e.reader = r /\ e.conn = Listening(r)
  BY DEF Signal
<1>3. e \in News => e.conn
  BY DEF News
<1> HIDE DEF e
<1>4. msgs \in Seq(Messages) /\ msgs' = Append(msgs, e)
  BY <1>1 DEF CardTypeOK, Messages, e
<1>5. NewsFrom(msgs') \subseteq NewsFrom(msgs) \cup {s \in {r} : Listening(s)}
  BY <1>2, <1>3, <1>4, NewsQueue
<1>6. \A s : Listening(s) => Listening(s)'
  BY <1>1 DEF Listening
<1>7. NewsOwn'
  BY <1>5, <1>6 DEF NewsOwn
<1>8. CallsOwn'
  BY <1>1 DEF CallsOwn, Listening
<1> QED BY <1>7, <1>8

(* Every step keeps the bookkeeping of the connection.                     *)
LEMMA NextConn ==
  ASSUME TypeOK, HandleInv, SlotInv, ConnInv, [Next]_allVars
  PROVE  ConnInv'
<1> USE DEF ConnInv, LinkInv
<1>1. CardTypeOK /\ readerName \in Readers \cup {NoReader} /\ SelectsFree
  BY DEF TypeOK, ContextTypeOK, HandleInv
<1>2. CASE MainThread \/ User
  <2>1. MainStep
    BY <1>1, <1>2, MainSteps
  <2> QED BY <1>1, <1>2, <2>1, MainLink, LateStep, CanMain, ConnectedStep
<1>3. CASE UNCHANGED allVars
  BY <1>3 DEF allVars, cardVars, chipVars, worldVars, readerVars, paceVars, controlVars, contextVars,
              CallsOwn, NewsOwn, LateListener, CanOwned, Connected, Listening, Waits, Runs
<1>4. CASE Environment
  <2>1. UNCHANGED <<st, busy, cancelPending, idType>>
    BY <1>4 DEF Environment, paceVars, controlVars, contextVars
  <2>2. conn' = conn
    BY <1>4, <1>1, Answered
       DEF Environment, ReaderThread, Update, World, TakeCard, PutCard
  <2>3. LateListener' /\ Connected'
    BY <2>1, <2>2 DEF LateListener, Connected, Waits, Runs
  <2>4. CASE Execute
    BY <1>1, <2>3, <2>4, ExecuteLink, CanExecute
  <2>5. CASE \E r \in Readers : Update(r)
    BY <1>1, <2>3, <2>5, UpdateLink, CanSlots
  <2>6. CASE World
    <3>1. UNCHANGED <<cmds, msgs>>
      BY <2>6 DEF World, TakeCard, PutCard, readerVars
    <3> QED BY <1>1, <2>2, <2>3, <2>6, <3>1, CanSlots DEF CallsOwn, NewsOwn, Listening
  <2> QED BY <1>4, <2>4, <2>5, <2>6 DEF Environment, ReaderThread
<1> QED BY <1>2, <1>3, <1>4 DEF Next, Terminated

(* At first there is no connection.                                        *)
LEMMA InitConn == Init => ConnInv
BY DEF Init, CardInit, ContextInit, ConnInv, LinkInv, CallsOwn, NewsOwn, NewsFrom, At, Asked,
       LateListener, CanOwned, Connected, Runs

(* While the workflow has still to come to a result, one thing at most is  *)
(* asked of the card at a time, and the state that asked waits for it.     *)

Posted(q) == {q[i] : i \in Asked(CallOps, q)}
Said(q)   == {q[i] : i \in Heard(CallOps, q)}

OneCall ==
  /\ Alone(CallOps, cmds, msgs)
  /\ \A c \in Posted(cmds) : WaitsFor(c.op) /\ c.mine /\ c.conn
  /\ \A m \in Said(msgs) : WaitsFor(m.kind) /\ m.mine /\ m.conn /\ Fits(m.kind, m.id)

(* A workflow that has come to its result does not start over.             *)
LEMMA GoingStays ==
  ASSUME ~Going, MainThread \/ User
  PROVE  ~Going'
<1> USE DEF Going, AfterError, Runs, Waits, Goto, Wait, UnchangedControl, contextVars, controlVars,
            paceVars
<1>1. CASE RunPace
  BY <1>1
     DEF RunPace, RunMaintainCardConnection, MaintainAborts, MaintainAfterWrongPassword,
         MaintainAfterCardGone, MaintainProceeds, MustAbort, RunClearPacePasswordsOnError,
         RunSelectReader, RunConnectCard, FinishConnectCard, RunUpdateRetryCounter, RunUpdate,
         RunVerifyRetryCounter, RunPreparePace, RunEstablishPaceChannel,
         RunUnfortunateCardPosition, RunClearPacePasswordsBeforeDestroy, RunDestroyPaceAfterPuk,
         RunDestroy
<1>2. CASE DeliverToPace
  BY <1>2
     DEF DeliverToPace, DeliverCall, DeliverCreate, DeliverEvent, DeliverUpdateRetryCounter,
         DeliverUpdate, Delivers, DeliverDestroyPaceAfterPuk, DeliverDestroy, DeliverStale,
         DeliverPace, DeliversPace
<1>3. CASE DeliverToChangePin
  BY <1>3
     DEF DeliverToChangePin, DeliverSetEidPin, DeliverDestroyPace, DeliverDestroy, DeliverUpdate,
         DeliverUpdateRetryCounterFinal, Delivers
<1>4. CASE Cancel \/ CancelKilled
  <2>1. UpdateStatus("Cancelled") /\ st' = AbortTarget(st)
    BY <1>4 DEF Cancel, CancelKilled, UserCancels, KillCancels, OnUserCancelled
  <2> QED BY <2>1 DEF UpdateStatus, AbortTarget, PaceAbortTarget
<1>5. CASE RunChangePinWorkflow
  BY <1>4, <1>5
     DEF RunChangePinWorkflow, Leads, PaceChannelEstablished, PacePukEstablished, PaceAbort,
         RunPrepareChangePin, RunChangePin, RunDestroyPace, RunDestroy, RunClearPacePasswords,
         RunUpdateRetryCounterFinal, RunUpdate, RunCleanUpReaderManager, CleanUpReaderManager
<1>6. CASE User
  BY <1>4, <1>6
     DEF User, EnterPacePassword, EnterNewPacePin, RunFinalState, RetryCardSelection, Kill
<1> QED BY <1>1, <1>2, <1>3, <1>5, <1>6 DEF MainThread

(* How what is asked and what is answered changes with the queues.         *)
LEMMA CallQueues ==
  /\ \A q \in Seq(Command) :
       /\ Posted(q) = {} <=> Asked(CallOps, q) = {}
       /\ q # <<>> => Posted(Tail(q)) \subseteq Posted(q)
       /\ q # <<>> /\ Head(q).op \in CallOps => Head(q) \in Posted(q)
       /\ \A c : c.op \notin CallOps => Posted(Append(q, c)) \subseteq Posted(q)
  /\ \A q \in Seq(Messages) :
       /\ Said(q) = {} <=> Heard(CallOps, q) = {}
       /\ q # <<>> => Said(Tail(q)) \subseteq Said(q)
       /\ q # <<>> /\ IsAnswer(Head(q)) => Head(q) \in Said(q)
       /\ \A m : Said(Append(q, m)) \subseteq Said(q) \cup {n \in {m} : IsAnswer(n)}
<1>1. ASSUME NEW T, NEW q \in Seq(T)
      PROVE  /\ Len(q) \in Nat /\ DOMAIN q = 1 .. Len(q)
             /\ q # <<>> => 1 \in DOMAIN q /\ q[1] = Head(q)
             /\ q # <<>> => \A i \in DOMAIN Tail(q) : i + 1 \in DOMAIN q /\ Tail(q)[i] = q[i + 1]
             /\ \A m : \A i \in DOMAIN Append(q, m) :
                  Append(q, m)[i] = m \/ (i \in DOMAIN q /\ Append(q, m)[i] = q[i])
  <2>1. Len(q) \in Nat /\ DOMAIN q = 1 .. Len(q)
    BY LenProperties
  <2>2. ASSUME q # <<>>
        PROVE  /\ 1 \in DOMAIN q /\ q[1] = Head(q)
               /\ \A i \in DOMAIN Tail(q) : i + 1 \in DOMAIN q /\ Tail(q)[i] = q[i + 1]
    BY <2>1, <2>2, HeadTailProperties, LenProperties
  <2>3. ASSUME NEW m, NEW i \in DOMAIN Append(q, m)
        PROVE  Append(q, m)[i] = m \/ (i \in DOMAIN q /\ Append(q, m)[i] = q[i])
    BY <2>1, <2>3
  <2> QED BY <2>1, <2>2, <2>3
<1>2. ASSUME NEW q \in Seq(Command)
      PROVE  /\ Posted(q) = {} <=> Asked(CallOps, q) = {}
             /\ q # <<>> => Posted(Tail(q)) \subseteq Posted(q)
             /\ q # <<>> /\ Head(q).op \in CallOps => Head(q) \in Posted(q)
  BY <1>1 DEF Posted, Asked
<1>3. ASSUME NEW q \in Seq(Command), NEW c, c.op \notin CallOps
      PROVE  Posted(Append(q, c)) \subseteq Posted(q)
  BY <1>1, <1>3 DEF Posted, Asked
<1>4. ASSUME NEW q \in Seq(Messages)
      PROVE  /\ Said(q) = {} <=> Heard(CallOps, q) = {}
             /\ q # <<>> => Said(Tail(q)) \subseteq Said(q)
             /\ q # <<>> /\ IsAnswer(Head(q)) => Head(q) \in Said(q)
  BY <1>1 DEF Said, Heard, IsAnswer
<1>5. ASSUME NEW q \in Seq(Messages), NEW m
      PROVE  Said(Append(q, m)) \subseteq Said(q) \cup {n \in {m} : IsAnswer(n)}
  BY <1>1 DEF Said, Heard, IsAnswer
<1> QED BY <1>2, <1>3, <1>4, <1>5

(* Taking from the queues leaves a lone call alone.                        *)
LEMMA FewerAlone ==
  ASSUME NEW S, Alone(S, cmds, msgs), Fewer(S, cmds', cmds), FewerReplies(S, msgs', msgs)
  PROVE  Alone(S, cmds', msgs')
<1>1. PICK k \in Nat : \A i \in Asked(S, cmds') : i \in Nat /\ i + k \in Asked(S, cmds)
  BY DEF Fewer
<1>2. PICK n \in Nat : \A i \in Heard(S, msgs') : i \in Nat /\ i + n \in Heard(S, msgs)
  BY DEF FewerReplies
<1>3. ASSUME NEW i \in Asked(S, cmds'), NEW j \in Asked(S, cmds') PROVE i = j
  <2>1. i + k = j + k /\ i \in Nat /\ j \in Nat
    BY <1>1, <1>3 DEF Alone
  <2> QED BY <2>1
<1>4. ASSUME NEW i \in Heard(S, msgs'), NEW j \in Heard(S, msgs') PROVE i = j
  <2>1. i + n = j + n /\ i \in Nat /\ j \in Nat
    BY <1>2, <1>4 DEF Alone
  <2> QED BY <2>1
<1>5. Asked(S, cmds') = {} \/ Heard(S, msgs') = {}
  BY <1>1, <1>2 DEF Alone
<1> QED BY <1>3, <1>4, <1>5 DEF Alone

(* A state that has not run yet finds nothing under way.                   *)
LEMMA NothingUnderWay ==
  ASSUME OneCall, ~busy \/ st \in {"SelectReader", "ConnectCard"}
  PROVE  Posted(cmds) = {} /\ Said(msgs) = {}
<1>1. \A op : ~WaitsFor(op)
  BY DEF WaitsFor, Waits
<1> QED BY <1>1 DEF OneCall

LEMMA OneCallGone ==
  ASSUME Asked(CallOps, cmds') = {}, Heard(CallOps, msgs') = {}
  PROVE  OneCall' /\ Said(msgs') = {} /\ Posted(cmds') = {}
BY DEF OneCall, Alone, Said, Posted

LEMMA OneCallKept ==
  ASSUME OneCall, UNCHANGED <<st, busy>>,
         Fewer(CallOps, cmds', cmds), FewerReplies(CallOps, msgs', msgs),
         Posted(cmds') \subseteq Posted(cmds), Said(msgs') \subseteq Said(msgs)
  PROVE  OneCall'
<1>1. Alone(CallOps, cmds', msgs')
  BY FewerAlone DEF OneCall
<1>2. \A c \in Posted(cmds') : WaitsFor(c.op) /\ c.mine /\ c.conn
  BY DEF OneCall
<1>3. \A m \in Said(msgs') : WaitsFor(m.kind) /\ m.mine /\ m.conn /\ Fits(m.kind, m.id)
  BY DEF OneCall
<1>4. ASSUME NEW op, WaitsFor(op) PROVE WaitsFor(op)'
  BY <1>4 DEF WaitsFor, Waits
<1> QED BY <1>1, <1>2, <1>3, <1>4 DEF OneCall

(* What is asked is what the state waits for, as long as the workflow goes *)
(* on: the main thread's steps ...                                         *)
CallsSettled ==
  Said(msgs') = {} \/ (Said(msgs') \subseteq Said(msgs) /\ UNCHANGED <<st, busy>>)

LEMMA MainCalls ==
  ASSUME TypeOK, Going, Going', OneCall, MainStep
  PROVE  OneCall' /\ CallsSettled
<1>1. /\ cmds \in Seq(Command) /\ msgs \in Seq(Messages) /\ CardTypeOK
      /\ msgs # <<>> => Tail(msgs) \in Seq(Messages)
      /\ readerName \in Readers \cup {NoReader}
  BY Queues DEF TypeOK, CardTypeOK, ContextTypeOK, Messages
<1>2. /\ Fewer(CallOps, cmds, cmds) /\ Fewer(CallOps, Disown(cmds), cmds)
      /\ \A c : c.op \notin CallOps => Fewer(CallOps, Append(cmds, c), cmds)
                                       /\ Posted(Append(cmds, c)) \subseteq Posted(cmds)
  BY <1>1, FewerCommands, CallQueues
<1>3. CreateCall.kind \notin CallOps
  BY CallIsNoNews DEF CallOps
<1>4. /\ FewerReplies(CallOps, msgs, msgs) /\ FewerReplies(CallOps, Disown(msgs), msgs)
      /\ FewerReplies(CallOps, Append(msgs, CreateCall), msgs)
      /\ Said(Append(msgs, CreateCall)) \subseteq Said(msgs)
  BY <1>1, <1>3, FewerRepliesKept, CallQueues DEF IsAnswer
<1>5. ASSUME msgs # <<>>
      PROVE  /\ FewerReplies(CallOps, Tail(msgs), msgs)
             /\ FewerReplies(CallOps, Disown(Tail(msgs)), msgs)
             /\ FewerReplies(CallOps, Append(Tail(msgs), CreateCall), msgs)
             /\ Said(Tail(msgs)) \subseteq Said(msgs)
             /\ Said(Append(Tail(msgs), CreateCall)) \subseteq Said(msgs)
  <2>1. Said(Append(Tail(msgs), CreateCall)) \subseteq Said(Tail(msgs))
    BY <1>1, <1>3, <1>5, CallQueues DEF IsAnswer
  <2>2. Said(Tail(msgs)) \subseteq Said(msgs)
    BY <1>1, <1>5, CallQueues
  <2> QED BY <1>1, <1>3, <1>5, <2>1, <2>2, TakenMessage
<1>6. ASSUME ~busy \/ st \in {"SelectReader", "ConnectCard"},
             Fewer(CallOps, cmds', cmds), FewerReplies(CallOps, msgs', msgs)
      PROVE  OneCall' /\ CallsSettled
  <2>1. Asked(CallOps, cmds) = {} /\ Heard(CallOps, msgs) = {}
    BY <1>1, <1>6, NothingUnderWay, CallQueues
  <2>2. Asked(CallOps, cmds') = {} /\ Heard(CallOps, msgs') = {}
    BY <1>6, <2>1, FewerNone
  <2> QED BY <2>2, OneCallGone DEF CallsSettled
<1>7. ASSUME UNCHANGED <<st, busy>>, Fewer(CallOps, cmds', cmds), FewerReplies(CallOps, msgs', msgs),
             Posted(cmds') \subseteq Posted(cmds), Said(msgs') \subseteq Said(msgs)
      PROVE  OneCall' /\ CallsSettled
  BY <1>7, OneCallKept DEF CallsSettled
<1>8. ASSUME msgs # <<>>, IsAnswer(Head(msgs))
      PROVE  Asked(CallOps, cmds) = {} /\ Heard(CallOps, Tail(msgs)) = {}
  BY <1>1, <1>8, TakenAlone DEF OneCall, Alone, IsAnswer
<1>9. CASE Kept
  <2>1. CASE ~busy
    BY <1>2, <1>4, <1>6, <1>9, <2>1 DEF Kept
  <2>2. CASE UNCHANGED <<st, busy>>
    BY <1>2, <1>4, <1>7, <1>9, <2>2 DEF Kept
  <2> QED BY <1>9, <2>1, <2>2 DEF Kept
<1>10. CASE Asks
  <2>1. PICK op \in CallOps, id \in PaceIds, word \in Passwords \cup {NoPassword} :
          /\ Fits(op, id) /\ Post(op, id, word)
          /\ WaitsFor(op)' \/ (op = "UPDATE_RC" /\ st' = "UpdateRetryCounterFinal")
    BY <1>10 DEF Asks
  <2>2. WaitsFor(op)'
    BY <2>1 DEF Going, AfterError
  <2> DEFINE c == [op |-> op, reader |-> conn.reader, id |-> id, pw |-> word,
                   mine |-> TRUE, conn |-> TRUE]
  <2>3. /\ cmds' = Append(cmds, c) /\ msgs' = msgs
        /\ c.op = op /\ c.mine /\ c.conn
    BY <2>1 DEF Post
  <2> HIDE DEF c
  <2>4. Asked(CallOps, cmds) = {} /\ Heard(CallOps, msgs) = {} /\ Said(msgs) = {}
    BY <1>1, <1>10, NothingUnderWay, CallQueues DEF Asks
  <2>5. \A i \in Asked(CallOps, cmds') : i = Len(cmds) + 1 /\ cmds'[i] = c
    BY <1>1, <2>3, <2>4, OneMore
  <2>6. Alone(CallOps, cmds', msgs')
    BY <2>3, <2>4, <2>5 DEF Alone
  <2>7. Posted(cmds') \subseteq {c}
    BY <2>5 DEF Posted
  <2>8. \A x \in Posted(cmds') : WaitsFor(x.op)' /\ x.mine /\ x.conn
    BY <2>2, <2>3, <2>7 DEF WaitsFor, Waits
  <2> QED BY <2>3, <2>4, <2>6, <2>8 DEF OneCall, CallsSettled
<1>11. CASE Closes
  <2>1. ~RunCleanUpReaderManager
    BY DEF Going, AfterError, RunCleanUpReaderManager, CleanUpReaderManager, Runs
  <2>2. CASE ~busy /\ ResetCardConnection(msgs)
    <3>1. FewerReplies(CallOps, msgs', msgs) /\ cmds' = cmds
      BY <1>1, <2>2, ResetReplies DEF ResetCardConnection
    <3> QED BY <1>2, <1>6, <2>2, <3>1
  <2>3. CASE msgs # <<>> /\ IsAnswer(Head(msgs)) /\ ResetCardConnection(Tail(msgs))
    <3>1. FewerReplies(CallOps, msgs', Tail(msgs)) /\ cmds' = cmds
      BY <1>1, <2>3, ResetReplies DEF ResetCardConnection
    <3>2. Asked(CallOps, cmds') = {} /\ Heard(CallOps, msgs') = {}
      BY <1>8, <2>3, <3>1, FewerNone
    <3> QED BY <3>2, OneCallGone DEF CallsSettled
  <2> QED BY <1>11, <2>1, <2>2, <2>3 DEF Closes
<1>12. CASE Silences
  BY <1>2, <1>4, <1>5, <1>6, <1>12 DEF Silences
<1>13. CASE Claims
  BY <1>2, <1>5, <1>6, <1>13 DEF Claims, Waits
<1>14. CASE FinishConnectCard
  BY <1>2, <1>4, <1>6, <1>14 DEF FinishConnectCard
<1>15. CASE Forwards
  <2>1. \A op \in {"CREATE", "DROP"} : op \notin CallOps
    BY DEF CallOps
  <2>2. Fewer(CallOps, cmds', cmds) /\ Posted(cmds') \subseteq Posted(cmds)
    BY <1>2, <1>15, <2>1 DEF Forwards
  <2>3. FewerReplies(CallOps, msgs', msgs) /\ Said(msgs') \subseteq Said(msgs)
    BY <1>5, <1>15 DEF Forwards
  <2>4. CASE st = "SelectReader"
    BY <1>6, <2>2, <2>3, <2>4
  <2>5. CASE UNCHANGED <<st, busy>>
    BY <1>7, <2>2, <2>3, <2>5
  <2> QED BY <1>15, <2>4, <2>5 DEF Forwards
<1>16. CASE Learns
  BY <1>2, <1>5, <1>7, <1>16 DEF Learns
<1>17. CASE TakesAnswer
  BY <1>8, <1>17, OneCallGone DEF TakesAnswer, CallsSettled
<1> QED BY <1>9, <1>10, <1>11, <1>12, <1>13, <1>14, <1>15, <1>16, <1>17 DEF MainStep

(* ... and the reader thread's.                                            *)
LEMMA ExecuteCalls ==
  ASSUME CardTypeOK, OneCall, CallsOwn, Execute, UNCHANGED <<st, busy>>
  PROVE  /\ OneCall'
         /\ Head(cmds).op \notin CallOps =>
              Said(msgs') \subseteq Said(msgs) /\ FewerReplies(CallOps, msgs', msgs)
         /\ Head(cmds).op \in CallOps =>
              /\ Said(msgs) = {} /\ Posted(cmds') = {}
              /\ Head(cmds) \in Posted(cmds)
<1>1. /\ cmds # <<>> /\ cmds' = Tail(cmds) /\ cmds \in Seq(Command) /\ msgs \in Seq(Messages)
  BY Answered DEF CardTypeOK, Messages
<1>2. CASE Head(cmds).op \in CallOps
  <2>1. 1 \in Asked(CallOps, cmds) /\ cmds[1] = Head(cmds) /\ Asked(CallOps, cmds') = {}
    BY <1>1, <1>2, TakenAlone DEF OneCall, Alone
  <2>2. Heard(CallOps, msgs) = {} /\ Head(cmds) \in Posted(cmds)
    BY <2>1 DEF OneCall, Alone, Posted
  <2>3. /\ WaitsFor(Head(cmds).op) /\ Head(cmds).mine /\ Head(cmds).conn
        /\ Fits(Head(cmds).op, Head(cmds).id)
    BY <2>1, <2>2 DEF OneCall, CallsOwn
  <2>4. "DROP" \notin CallOps /\ "CREATE" \notin CallOps
    BY DEF CallOps
  <2>5. PICK m \in Reply :
          /\ m.kind = Head(cmds).op /\ m.id = Head(cmds).id /\ m.mine /\ m.conn
          /\ \/ msgs' = Append(msgs, m)
             \/ \E e \in Event : msgs' = Append(Append(msgs, e), m)
    <3>1. ~ExecuteDrop
      BY <1>2, <2>4 DEF ExecuteDrop, Executes
    <3> QED BY <1>2, <2>3, <2>4, <3>1, Answered
  <2>6. PICK q \in Seq(Messages) : msgs' = Append(q, m) /\ Heard(CallOps, q) = {}
    <3>1. CASE msgs' = Append(msgs, m)
      BY <1>1, <2>2, <3>1
    <3>2. ASSUME NEW e \in Event, msgs' = Append(Append(msgs, e), m)
          PROVE  \E q \in Seq(Messages) : msgs' = Append(q, m) /\ Heard(CallOps, q) = {}
      <4>1. e \notin Reply /\ Append(msgs, e) \in Seq(Messages)
        BY <1>1, EventsReplies, Queues
      <4>2. FewerReplies(CallOps, Append(msgs, e), msgs)
        BY <1>1, <4>1, FewerRepliesKept
      <4>3. Heard(CallOps, Append(msgs, e)) = {}
        BY <2>2, <4>2, FewerNone
      <4> QED BY <3>2, <4>1, <4>3
    <3> QED BY <2>5, <3>1, <3>2
  <2>7. /\ Len(q) \in Nat /\ DOMAIN q = 1 .. Len(q)
        /\ DOMAIN msgs' = 1 .. (Len(q) + 1) /\ msgs'[Len(q) + 1] = m
        /\ \A k \in 1 .. Len(q) : msgs'[k] = q[k]
    BY <2>6, AppendProperties, LenProperties
  <2>8. ASSUME NEW i \in Heard(CallOps, msgs') PROVE i = Len(q) + 1 /\ msgs'[i] = m
    <3>1. i \notin DOMAIN q
      BY <2>6, <2>7, <2>8 DEF Heard
    <3> QED BY <2>7, <2>8, <3>1 DEF Heard
  <2>9. Alone(CallOps, cmds', msgs')
    BY <2>1, <2>8 DEF Alone
  <2>10. Said(msgs') \subseteq {m} /\ Posted(cmds') = {}
    BY <2>1, <2>8 DEF Said, Posted
  <2>11. \A n \in Said(msgs') : WaitsFor(n.kind) /\ n.mine /\ n.conn /\ Fits(n.kind, n.id)
    BY <2>3, <2>5, <2>10
  <2>12. ASSUME NEW op, WaitsFor(op) PROVE WaitsFor(op)'
    BY <2>12 DEF WaitsFor, Waits
  <2>13. OneCall'
    BY <2>9, <2>10, <2>11, <2>12 DEF OneCall
  <2>14. Said(msgs) = {}
    BY <1>1, <2>2, CallQueues
  <2> QED BY <1>2, <2>2, <2>10, <2>13, <2>14
<1>3. CASE Head(cmds).op \notin CallOps
  <2>1. Fewer(CallOps, cmds', cmds) /\ Posted(cmds') \subseteq Posted(cmds)
    BY <1>1, FewerCommands, CallQueues
  <2>2. FewerReplies(CallOps, msgs', msgs) /\ Said(msgs') \subseteq Said(msgs)
    <3>1. CASE msgs' = msgs
      BY <1>1, <3>1, FewerRepliesKept
    <3>2. ASSUME NEW m \in Reply, m.kind = Head(cmds).op, msgs' = Append(msgs, m)
          PROVE  FewerReplies(CallOps, msgs', msgs) /\ Said(msgs') \subseteq Said(msgs)
      BY <1>1, <1>3, <3>2, FewerRepliesKept, CallQueues DEF IsAnswer
    <3>3. ~ExecuteUpdateRetryCounter
      BY <1>3 DEF ExecuteUpdateRetryCounter, Executes, CallOps
    <3> QED BY <3>1, <3>2, <3>3, Answered
  <2> QED BY <1>3, <2>1, <2>2, OneCallKept
<1> QED BY <1>2, <1>3

(* No call is posted in front of a password.                               *)
SecretFirst ==
  \A i, j \in Asked(CallOps, cmds) : i < j => cmds[j].op # "PACE"

CallInv == (Going => OneCall) /\ SecretFirst

LEMMA FewerSecretFirst ==
  ASSUME SecretFirst, Fewer(CallOps, cmds', cmds)
  PROVE  SecretFirst'
<1>1. PICK k \in Nat : \A i \in Asked(CallOps, cmds') :
        i \in Nat /\ i + k \in Asked(CallOps, cmds) /\ SameCommand(cmds'[i], cmds[i + k])
  BY DEF Fewer
<1>2. ASSUME NEW i \in Asked(CallOps, cmds'), NEW j \in Asked(CallOps, cmds'), i < j
      PROVE  cmds'[j].op # "PACE"
  <2>1. i + k < j + k
    BY <1>1, <1>2
  <2>2. cmds[j + k].op # "PACE"
    BY <1>1, <1>2, <2>1 DEF SecretFirst
  <2> QED BY <1>1, <1>2, <2>2 DEF SameCommand
<1> QED BY <1>2 DEF SecretFirst

(* A password is only posted to a queue that asks nothing.                 *)
LEMMA MainSecretFirst ==
  ASSUME TypeOK, Going => OneCall, SecretFirst, MainStep, MainThread \/ User
  PROVE  SecretFirst'
<1>1. cmds \in Seq(Command)
  BY DEF TypeOK, CardTypeOK
<1>2. /\ Fewer(CallOps, cmds, cmds) /\ Fewer(CallOps, Disown(cmds), cmds)
      /\ \A c : c.op \notin CallOps => Fewer(CallOps, Append(cmds, c), cmds)
  BY <1>1, FewerCommands
<1>3. CASE Kept \/ Silences \/ Claims \/ FinishConnectCard \/ Learns \/ TakesAnswer
  <2>1. cmds' = cmds \/ cmds' = Disown(cmds)
    BY <1>3 DEF Kept, Silences, Claims, FinishConnectCard, Learns, TakesAnswer
  <2> QED BY <1>2, <2>1, FewerSecretFirst
<1>4. CASE Closes
  <2>1. cmds' = cmds
    BY <1>4 DEF Closes, ResetCardConnection, RunCleanUpReaderManager, CleanUpReaderManager
  <2> QED BY <1>2, <2>1, FewerSecretFirst
<1>5. CASE Forwards
  <2>1. \A op \in {"CREATE", "DROP"} : op \notin CallOps
    BY DEF CallOps
  <2>2. Fewer(CallOps, cmds', cmds)
    BY <1>2, <1>5, <2>1 DEF Forwards
  <2> QED BY <2>2, FewerSecretFirst
<1>6. CASE Asks
  <2>1. PICK op \in CallOps, id \in PaceIds, word \in Passwords \cup {NoPassword} :
          /\ Fits(op, id) /\ Post(op, id, word)
          /\ WaitsFor(op)' \/ (op = "UPDATE_RC" /\ st' = "UpdateRetryCounterFinal")
    BY <1>6 DEF Asks
  <2> DEFINE c == [op |-> op, reader |-> conn.reader, id |-> id, pw |-> word,
                   mine |-> TRUE, conn |-> TRUE]
  <2>2. cmds' = Append(cmds, c) /\ c.op = op
    BY <2>1 DEF Post
  <2> HIDE DEF c
  <2>3. \A i \in Asked(CallOps, cmds') :
          \/ i = Len(cmds) + 1 /\ cmds'[i] = c
          \/ i \in Asked(CallOps, cmds) /\ i < Len(cmds) + 1 /\ cmds'[i] = cmds[i]
    BY <1>1, <2>2, OneMore
  <2>4. Len(cmds) \in Nat /\ DOMAIN cmds = 1 .. Len(cmds)
    BY <1>1, LenProperties
  <2>5. \A i \in Asked(CallOps, cmds) : i \in Nat
    BY <2>4 DEF Asked
  <2>6. CASE Going
    <3>1. Asked(CallOps, cmds) = {}
      BY <1>1, <1>6, <2>6, NothingUnderWay, CallQueues DEF Asks
    <3> QED BY <2>3, <2>4, <3>1 DEF SecretFirst
  <2>7. CASE ~Going
    <3>1. op # "PACE"
      <4>1. ~Going'
        BY <2>7, GoingStays
      <4>2. op = "PACE" => st' = "EstablishPaceChannel"
        BY <2>1 DEF WaitsFor, Waits
      <4> QED BY <4>1, <4>2 DEF Going, AfterError
    <3> QED BY <2>2, <2>3, <2>4, <2>5, <3>1 DEF SecretFirst
  <2> QED BY <2>6, <2>7
<1> QED BY <1>3, <1>4, <1>5, <1>6 DEF MainStep

(* The reader thread answers one call with one reply.                      *)
LEMMA EnvironmentCalls ==
  ASSUME TypeOK, CallsOwn, Going => OneCall, SecretFirst, Environment
  PROVE  (Going => OneCall)' /\ SecretFirst'
<1>1. /\ CardTypeOK /\ cmds \in Seq(Command) /\ msgs \in Seq(Messages)
      /\ UNCHANGED <<st, busy, status>>
  BY DEF TypeOK, CardTypeOK, Messages, Environment, paceVars, controlVars, contextVars
<1>2. Going' => Going
  BY <1>1 DEF Going
<1>3. CASE Execute
  <2>1. Fewer(CallOps, cmds', cmds)
    BY <1>1, <1>3, Answered, FewerCommands
  <2> QED BY <1>1, <1>2, <1>3, <2>1, ExecuteCalls, FewerSecretFirst
<1>4. CASE World
  <2>1. UNCHANGED <<cmds, msgs>>
    BY <1>4 DEF World, TakeCard, PutCard, readerVars
  <2>2. Fewer(CallOps, cmds', cmds) /\ FewerReplies(CallOps, msgs', msgs)
    BY <1>1, <2>1, FewerCommands, FewerRepliesKept
  <2> QED BY <1>1, <1>2, <2>1, <2>2, OneCallKept, FewerSecretFirst
<1>5. CASE \E r \in Readers : Update(r)
  <2>1. PICK e : msgs' = Append(msgs, e) /\ cmds' = cmds /\ e.kind \notin CallOps
    <3>1. PICK r \in Readers : Update(r)
      BY <1>5
    <3>2. PICK o \in PollOutcomes(r, rd[r]) :
            /\ o.events # <<>> /\ cmds' = cmds
            /\ msgs' = Append(msgs, Signal(o.events[1].type, r, o.events[1].rc))
      BY <3>1 DEF Update
    <3>3. o.events \in {<<[type |-> "removed", rc |-> -1]>>}
            \cup {<<[type |-> "inserted", rc |-> k]>> : k \in {chipRc[slot[r]], -1}}
      BY <3>2 DEF PollOutcomes
    <3>4. o.events[1].type \in {"removed", "inserted"}
      BY <3>3
    <3>5. Signal(o.events[1].type, r, o.events[1].rc).kind = o.events[1].type
      BY DEF Signal
    <3> QED BY <3>2, <3>4, <3>5 DEF CallOps
  <2>2. /\ Fewer(CallOps, cmds', cmds) /\ FewerReplies(CallOps, msgs', msgs)
        /\ Said(msgs') \subseteq Said(msgs)
    BY <1>1, <2>1, FewerCommands, FewerRepliesKept, CallQueues DEF IsAnswer
  <2> QED BY <1>1, <1>2, <2>1, <2>2, OneCallKept, FewerSecretFirst
<1> QED BY <1>3, <1>4, <1>5 DEF Environment, ReaderThread

(* Every step keeps to one call at a time.                                 *)
LEMMA NextCalls ==
  ASSUME TypeOK, HandleInv, ConnInv, CallInv, [Next]_allVars
  PROVE  CallInv'
<1> USE DEF CallInv, ConnInv, LinkInv
<1>1. CASE MainThread \/ User
  <2>1. MainStep
    BY <1>1, MainSteps DEF HandleInv
  <2>2. SecretFirst'
    BY <1>1, <2>1, MainSecretFirst
  <2>3. Going' => Going
    BY <1>1, GoingStays
  <2> QED BY <2>1, <2>2, <2>3, MainCalls
<1>2. CASE Environment
  BY <1>2, EnvironmentCalls
<1>3. CASE UNCHANGED allVars
  BY <1>3 DEF allVars, cardVars, readerVars, paceVars, controlVars, contextVars,
              Going, OneCall, SecretFirst, WaitsFor, Waits
<1> QED BY <1>1, <1>2, <1>3 DEF Next, Terminated

LEMMA InitCalls == Init => CallInv
BY DEF Init, CardInit, CallInv, OneCall, Alone, SecretFirst, Asked, Heard, Posted, Said

(* A card once out of the connection's reach does not come back into it.   *)

(* An unclaimed worker is announced or about to be dropped.                *)
LEMMA UnclaimedQueues ==
  \A r : Unclaimed(r) <=> Announced(msgs, r) \/ Dropped(cmds, r)
BY DEF Unclaimed, Announced, Dropped

LEMMA UnclaimedQueuesNext ==
  \A r : Unclaimed(r)' <=> Announced(msgs', r) \/ Dropped(cmds', r)
BY DEF Unclaimed, Announced, Dropped

(* The main thread's steps: only taking a worker brings a card into reach  *)
(* ...                                                                     *)
LEMMA MainOwnBefore ==
  ASSUME CardTypeOK, MainStep, ~Claims, ~Closes, NEW r, OwnCard(r)'
  PROVE  OwnCard(r)
<1>1. /\ cmds \in Seq(Command) /\ msgs \in Seq(Messages)
      /\ msgs # <<>> => Tail(msgs) \in Seq(Messages)
  BY Queues DEF CardTypeOK, Messages
<1>2. Reach(r)' => Reach(r)
  BY DEF MainStep, Kept, Asks, Silences, FinishConnectCard, Forwards, Learns, TakesAnswer, Still,
         Post, worldVars, Reach
<1>3. ASSUME Dropped(cmds, r) PROVE Dropped(cmds', r)
  <2>1. cmds' = cmds \/ cmds' = Disown(cmds) \/ \E c : cmds' = Append(cmds, c)
    BY DEF MainStep, Kept, Asks, Silences, FinishConnectCard, Forwards, Learns, TakesAnswer, Post
  <2>2. Dropped(Disown(cmds), r) /\ \A c : Dropped(Append(cmds, c), r)
    BY <1>1, <1>3, DroppedStays
  <2>3. CASE cmds' = cmds
    BY <1>3, <2>3
  <2>4. CASE cmds' = Disown(cmds)
    BY <2>2, <2>4
  <2>5. ASSUME NEW c, cmds' = Append(cmds, c) PROVE Dropped(cmds', r)
    BY <2>2, <2>5
  <2> QED BY <2>1, <2>3, <2>4, <2>5
<1>4. ASSUME Announced(msgs, r) PROVE Announced(msgs', r) \/ Dropped(cmds', r)
  <2>1. ASSUME msgs # <<>>, ~Opened(Head(msgs))
        PROVE  /\ Announced(Tail(msgs), r) /\ Announced(Disown(Tail(msgs)), r)
               /\ Announced(Append(Tail(msgs), CreateCall), r)
    <3>1. Announced(Tail(msgs), r)
      BY <1>1, <1>4, <2>1, AnnouncedStays DEF Opened
    <3> QED BY <1>1, <2>1, <3>1, AnnouncedStays
  <2>2. /\ Announced(Disown(msgs), r) /\ Announced(Append(msgs, CreateCall), r)
    BY <1>1, <1>4, AnnouncedStays
  <2>3. CASE Kept \/ Asks \/ FinishConnectCard
    BY <1>4, <2>2, <2>3 DEF Kept, Asks, Post, FinishConnectCard
  <2>4. CASE Silences
    BY <2>1, <2>2, <2>4 DEF Silences, Opened
  <2>5. CASE Learns \/ TakesAnswer
    <3>1. msgs # <<>> /\ ~Opened(Head(msgs)) /\ msgs' = Tail(msgs)
      BY <2>5 DEF Learns, TakesAnswer, IsAnswer, News, Event, Opened, CallOps
    <3> QED BY <2>1, <3>1
  <2>6. CASE Forwards
    <3>1. CASE ~Opened(Head(msgs))
      BY <2>1, <2>6, <3>1 DEF Forwards
    <3>2. CASE Opened(Head(msgs))
      <4>1. PICK c \in Command : cmds' = Append(cmds, c) /\ c.op = "DROP" /\ c.reader = Head(msgs).reader
        BY <2>6, <3>2 DEF Forwards
      <4>2. Head(msgs).reader = r => Dropped(cmds', r)
        BY <1>1, <4>1, DroppedStays
      <4>3. Head(msgs).reader # r => Announced(Tail(msgs), r)
        BY <1>1, <1>4, <2>6, AnnouncedStays DEF Forwards
      <4>4. Announced(Tail(msgs), r) => Announced(Append(Tail(msgs), CreateCall), r)
        BY <1>1, <2>6, AnnouncedStays DEF Forwards
      <4> QED BY <2>6, <4>2, <4>3, <4>4 DEF Forwards
    <3> QED BY <3>1, <3>2
  <2> QED BY <2>3, <2>4, <2>5, <2>6 DEF MainStep
<1>5. Unclaimed(r) => Unclaimed(r)'
  BY <1>3, <1>4, UnclaimedQueues, UnclaimedQueuesNext
<1> QED BY <1>2, <1>5 DEF OwnCard

(* ... an unclaimed worker stays one until it is dropped ...               *)
LEMMA ExecuteUnclaimed ==
  ASSUME CardTypeOK, Execute, NEW r \in Readers, Unclaimed(r)
  PROVE  Unclaimed(r)' \/ (ExecuteDrop /\ r = Head(cmds).reader)
<1> DEFINE c == Head(cmds)
<1>1. /\ cmds # <<>> /\ cmds' = Tail(cmds)
      /\ cmds \in Seq(Command) /\ msgs \in Seq(Messages)
  BY Answered DEF CardTypeOK, Messages
<1>2. ASSUME Announced(msgs, r) PROVE Announced(msgs', r)
  <2>1. CASE msgs' = msgs
    BY <1>2, <2>1
  <2>2. ASSUME NEW m, msgs' = Append(msgs, m) PROVE Announced(msgs', r)
    BY <1>1, <1>2, <2>2, AnnouncedStays
  <2>3. ASSUME NEW m, NEW e \in Event, msgs' = Append(Append(msgs, e), m)
        PROVE  Announced(msgs', r)
    <3>1. Append(msgs, e) \in Seq(Messages) /\ Announced(Append(msgs, e), r)
      BY <1>1, <1>2, AnnouncedStays, Queues DEF Messages
    <3> QED BY <2>3, <3>1, AnnouncedStays
  <2> QED BY <2>1, <2>2, <2>3, Answered
<1>3. ASSUME Dropped(cmds, r)
      PROVE  Dropped(cmds', r) \/ (ExecuteDrop /\ r = c.reader)
  <2>1. Dropped(Tail(cmds), r) \/ (c.op = "DROP" /\ c.reader = r)
    BY <1>1, <1>3, DroppedStays
  <2>2. c.op = "DROP" => ExecuteDrop
    BY DEF Execute, Executes, ExecuteCreate, ExecuteUpdateRetryCounter,
           ExecuteEstablishPaceChannel, ExecuteUnblockPin, ExecuteDestroyPaceChannel,
           ExecuteSetEidPin
  <2> QED BY <1>1, <2>1, <2>2
<1> QED BY <1>2, <1>3, UnclaimedQueues, UnclaimedQueuesNext

(* A worker that opens a handle is unclaimed.                              *)
LEMMA CreateUnclaimed ==
  ASSUME CardTypeOK, ExecuteCreate, Execute, rd' # rd, NEW r, r = Head(cmds).reader
  PROVE  Unclaimed(r)'
<1> DEFINE c == Head(cmds)
           waiting == \E i \in DOMAIN cmds : cmds[i].op = "CREATE" /\ cmds[i].mine
           m == [Answer(c, "OK") EXCEPT !.mine = waiting]
<1>1. c \in Command /\ msgs \in Seq(Messages)
  BY Answered, FirstCommand DEF CardTypeOK, Messages
<1>2. c.op = "CREATE" /\ msgs' = Append(msgs, m)
  BY DEF ExecuteCreate, Executes
<1>3. m \in Messages /\ m.kind = "CREATE" /\ m.code = "OK" /\ m.reader = c.reader
  <2>1. Answer(c, "OK") \in Reply
    BY <1>1 DEF Answer, Command, Reply, Codes
  <2>2. m = [Answer(c, "OK") EXCEPT !.mine = waiting] /\ waiting \in BOOLEAN
    BY <1>2
  <2> HIDE DEF m, waiting
  <2> QED BY <1>2, <2>1, <2>2 DEF Answer, Reply, Messages
<1> HIDE DEF m, c
<1>4. c.reader = r
  BY DEF c
<1>5. Announced(msgs', r)
  BY <1>1, <1>2, <1>3, <1>4, AnnouncedStays
<1> QED BY <1>5, UnclaimedQueuesNext

(* A card the connection reaches after a step of the reader thread or of   *)
(* the user's hands was reached before, and is still the same.             *)
LEMMA ExecuteOwnBefore ==
  ASSUME CardTypeOK, Execute, NEW r \in Readers, OwnCard(r)'
  PROVE  /\ OwnCard(r) /\ slot'[r] = slot[r]
         /\ ~ExecuteUpdateRetryCounter \/ r # Head(cmds).reader => rd'[r] = rd[r]
<1> DEFINE c == Head(cmds)
<1>1. c \in Command /\ c.reader \in Readers /\ rd \in [Readers -> ReaderData]
      /\ slot \in [Readers -> Cards \cup {NoCard}] /\ rd[r] \in ReaderData
  BY Answered, FirstCommand DEF CardTypeOK
<1>2. Reach(r)' /\ ~Unclaimed(r)'
  BY DEF OwnCard
<1>3. CASE ExecuteCreate
  <2>1. CASE rd' = rd
    <3>1. slot' = slot
      BY <1>3 DEF ExecuteCreate, worldVars
    <3>2. ~Unclaimed(r)
      BY <1>2, <1>3, ExecuteUnclaimed DEF ExecuteCreate, ExecuteDrop, Executes
    <3> QED BY <1>2, <2>1, <3>1, <3>2 DEF OwnCard, Reach
  <2>2. CASE rd' # rd
    <3>1. r # c.reader
      BY <1>2, <1>3, <2>2, CreateUnclaimed
    <3>2. slot' = slot /\ rd'[r] = rd[r]
      BY <1>1, <1>3, <3>1 DEF ExecuteCreate, worldVars
    <3>3. ~Unclaimed(r)
      BY <1>2, <1>3, ExecuteUnclaimed DEF ExecuteCreate, ExecuteDrop, Executes
    <3> QED BY <1>2, <3>2, <3>3 DEF OwnCard, Reach
  <2> QED BY <2>1, <2>2
<1>4. CASE ExecuteDrop
  <2>1. slot' = slot /\ rd' = [rd EXCEPT ![c.reader] = Closed(@)]
    BY <1>4 DEF ExecuteDrop, worldVars
  <2>2. r # c.reader
    BY <1>1, <1>2, <2>1 DEF Reach, Closed, ReaderData
  <2>3. ~Unclaimed(r)
    BY <1>2, <2>2, ExecuteUnclaimed
  <2>4. rd'[r] = rd[r]
    BY <1>1, <2>1, <2>2
  <2> QED BY <1>2, <2>1, <2>3, <2>4 DEF OwnCard, Reach
<1>5. CASE ~ExecuteCreate /\ ~ExecuteDrop
  <2>1. ~Unclaimed(r)
    BY <1>2, <1>5, ExecuteUnclaimed
  <2>2. CASE slot' = slot /\ rd' = rd
    BY <1>2, <2>1, <2>2 DEF OwnCard, Reach
  <2>3. CASE ExecuteUpdateRetryCounter
    <3> DEFINE d == [rd[c.reader] EXCEPT !.rc = chipRc[slot[c.reader]]]
    <3>1. slot' = slot /\ (rd' = rd \/ rd' = [rd EXCEPT ![c.reader] = d])
      BY <2>3 DEF ExecuteUpdateRetryCounter, worldVars
    <3>2. d.obj = rd[c.reader].obj /\ d.handle = rd[c.reader].handle
      BY <1>1 DEF ReaderData
    <3> HIDE DEF d
    <3>3. rd'[r].obj = rd[r].obj /\ rd'[r].handle = rd[r].handle /\ (r # c.reader => rd'[r] = rd[r])
      BY <1>1, <3>1, <3>2
    <3> QED BY <1>2, <2>1, <2>3, <3>1, <3>3 DEF OwnCard, Reach
  <2>4. CASE slot' = [slot EXCEPT ![c.reader] = NoCard] /\ rd' = [rd EXCEPT ![c.reader] = Broken(@)]
    <3>1. r # c.reader
      BY <1>1, <1>2, <2>4 DEF Reach
    <3>2. slot'[r] = slot[r] /\ rd'[r] = rd[r]
      BY <1>1, <2>4, <3>1
    <3> QED BY <1>2, <2>1, <3>2 DEF OwnCard, Reach
  <2>5. ASSUME NEW id, NEW word, ChipWorks(c.reader, id, word)
        PROVE  \/ slot' = slot /\ rd' = rd
               \/ slot' = [slot EXCEPT ![c.reader] = NoCard] /\ rd' = [rd EXCEPT ![c.reader] = Broken(@)]
    BY <2>5 DEF ChipWorks, worldVars
  <2>6. CASE ExecuteEstablishPaceChannel
    <3>1. (slot' = slot /\ rd' = rd) \/ \E word : ChipWorks(c.reader, c.id, word)
      BY <2>6 DEF ExecuteEstablishPaceChannel, UnchangedByCommand, worldVars
    <3> QED BY <2>2, <2>4, <2>5, <3>1
  <2>7. CASE ExecuteUnblockPin
    <3>1. (slot' = slot /\ rd' = rd) \/ \E word : ChipWorks(c.reader, "PUK", word)
      BY <2>7 DEF ExecuteUnblockPin, UnchangedByCommand, worldVars
    <3> QED BY <2>2, <2>4, <2>5, <3>1
  <2>8. CASE ExecuteDestroyPaceChannel \/ ExecuteSetEidPin
    BY <2>2, <2>8 DEF ExecuteDestroyPaceChannel, ExecuteSetEidPin, worldVars
  <2> QED BY <1>5, <2>3, <2>6, <2>7, <2>8 DEF Execute
<1> QED BY <1>3, <1>4, <1>5

(* ... and a card that is moved is not in reach afterwards.                *)
LEMMA SlotsOwnBefore ==
  ASSUME CardTypeOK, SlotInv, World \/ \E s \in Readers : Update(s), NEW r \in Readers, OwnCard(r)'
  PROVE  /\ OwnCard(r) /\ slot'[r] = slot[r] /\ rd'[r] = rd[r]
         /\ chipRc' = chipRc /\ canOpen'[slot[r]] = canOpen[slot[r]]
         /\ ~Update(r)
<1>1. /\ rd \in [Readers -> ReaderData] /\ slot \in [Readers -> Cards \cup {NoCard}]
      /\ \A s \in Readers : rd[s] \in ReaderData /\ slot[s] \in Cards \cup {NoCard}
      /\ canOpen \in [Cards -> BOOLEAN]
      /\ cmds \in Seq(Command) /\ msgs \in Seq(Messages)
  BY DEF CardTypeOK, Messages
<1>2. Reach(r)' /\ ~Unclaimed(r)'
  BY DEF OwnCard
<1>3. ASSUME NEW s \in Readers, TakeCard(s)
      PROVE  OwnCard(r) /\ slot'[r] = slot[r] /\ rd'[r] = rd[r] /\ chipRc' = chipRc
             /\ canOpen'[slot[r]] = canOpen[slot[r]]
  <2>1. /\ slot' = [slot EXCEPT ![s] = NoCard] /\ rd' = [rd EXCEPT ![s] = Broken(@)]
        /\ canOpen' = [canOpen EXCEPT ![slot[s]] = FALSE] /\ UNCHANGED <<chipRc, cmds, msgs>>
        /\ slot[s] # NoCard
    BY <1>3 DEF TakeCard
  <2>2. r # s
    BY <1>1, <1>2, <2>1 DEF Reach
  <2>3. slot'[r] = slot[r] /\ rd'[r] = rd[r]
    BY <1>1, <2>1, <2>2
  <2>4. slot[r] # slot[s] /\ slot[r] \in Cards
    BY <1>1, <1>2, <2>1, <2>2, <2>3 DEF SlotInv, SlotsApart, Reach
  <2>5. Unclaimed(r) => Unclaimed(r)'
    BY <2>1 DEF Unclaimed
  <2> QED BY <1>1, <1>2, <2>1, <2>3, <2>4, <2>5 DEF OwnCard, Reach
<1>4. ASSUME NEW s \in Readers, NEW k \in Cards, PutCard(s, k)
      PROVE  OwnCard(r) /\ slot'[r] = slot[r] /\ rd'[r] = rd[r] /\ chipRc' = chipRc
             /\ canOpen'[slot[r]] = canOpen[slot[r]]
  <2>1. /\ slot' = [slot EXCEPT ![s] = k] /\ slot[s] = NoCard
        /\ UNCHANGED <<chipRc, canOpen, rd, cmds, msgs>>
    BY <1>4 DEF PutCard, chipVars, readerVars
  <2>2. r # s
    BY <1>2, <2>1 DEF Reach, SlotInv, HandlesLive
  <2>3. slot'[r] = slot[r]
    BY <1>1, <2>1, <2>2
  <2>4. Unclaimed(r) => Unclaimed(r)'
    BY <2>1 DEF Unclaimed
  <2> QED BY <1>1, <1>2, <2>1, <2>3, <2>4 DEF OwnCard, Reach
<1>5. ASSUME NEW s \in Readers, Update(s)
      PROVE  OwnCard(r) /\ slot'[r] = slot[r] /\ rd'[r] = rd[r] /\ chipRc' = chipRc
             /\ canOpen'[slot[r]] = canOpen[slot[r]] /\ r # s
  <2>1. PICK o \in PollOutcomes(s, rd[s]) :
          /\ o.events # <<>> /\ rd' = [rd EXCEPT ![s] = o.data]
          /\ UNCHANGED <<slot, chipRc, canOpen, cmds>> /\ \E m : msgs' = Append(msgs, m)
    BY <1>5 DEF Update, worldVars, chipVars
  <2>2. o.data.handle = "closed"
    BY <2>1 DEF PollOutcomes, NoCardInfo
  <2>3. r # s
    BY <1>1, <1>2, <2>1, <2>2 DEF Reach
  <2>4. rd'[r] = rd[r]
    BY <1>1, <2>1, <2>3
  <2>5. Unclaimed(r) => Unclaimed(r)'
    BY <1>1, <2>1, UnclaimedQueues, UnclaimedQueuesNext, AnnouncedStays
  <2> QED BY <1>1, <1>2, <2>1, <2>3, <2>4, <2>5 DEF OwnCard, Reach
<1>6. ~Update(r)
  BY <1>5
<1> QED BY <1>3, <1>4, <1>5, <1>6 DEF World

-----------------------------------------------------------------------------
(* What the workflow knows of the card in front of it.                     *)

OwnRc   == rd[conn.reader].rc
ChipRc  == chipRc[slot[conn.reader]]
ChipCan == canOpen[slot[conn.reader]]

(* The workflow goes on, the counter could be read so far, and the card is *)
(* reached over the connection's own handle.                               *)
Trusted == Going /\ failures = 0 /\ conn # NoConn /\ OwnCard(conn.reader)

(* A password has been asked for and the chip has not seen it yet.         *)
Unanswered == st = "EstablishPaceChannel" /\ (~busy \/ Asked(CallOps, cmds) # {})

(* The states that close the channel the chip may still have open.         *)
Closing == { "ClearPacePasswordsBeforeDestroy", "DestroyPaceAfterPuk", "PacePukEstablished",
             "DestroyPace" }

(* The CAN channel the connection remembers is the one the chip needs.     *)
Rel(can) == (ChipCan => can) /\ (can /\ ChipRc = 1 => ChipCan)

(* The card in front of the workflow needs the password id.                *)
Right(id) ==
  CASE id = "PUK" -> ChipRc = 0
    [] id = "CAN" -> ChipRc = 1 /\ ~ChipCan
    [] OTHER -> ChipRc > 1 \/ (ChipRc = 1 /\ ChipCan)

(* The counter the connection knows is the chip's, from the moment it was  *)
(* read until the chip has seen the password.                              *)
CounterRight ==
  \/ st \in {"VerifyRetryCounter", "PreparePace", "EnterPacePassword"} \/ Unanswered
  \/ st = "MaintainCardConnection" /\ lastPace = "OK"
  => conn.rc = ChipRc

(* The passwords the workflow keeps are meant for that counter.            *)
CounterExpected ==
  st \in {"PreparePace", "EnterPacePassword"} \/ Unanswered => conn.rc = expRc

(* The CAN channel the connection knows is the chip's.                     *)
CanRight ==
  /\ st \notin Closing
  /\ st = "MaintainCardConnection" => lastPace \notin Unrecoverable
  /\ st = "EstablishPaceChannel" => Unanswered
  => Rel(conn.can)

(* The password asked for is the one the card needs.                       *)
WishRight == st = "EnterPacePassword" \/ Runs("EstablishPaceChannel") => Right(idType)

StageInv == CounterRight /\ CounterExpected /\ CanRight /\ WishRight

(* News of the counter n arrive ahead of the answer to the question for it. *)
Informed(q, n) ==
  \A i \in At(News, q) : q[i].rc = n /\ \E j \in Heard({"UPDATE_RC"}, q) : i < j

(* What an answer under way says of the card.                              *)
Promise(m) ==
  /\ m.kind = "UPDATE_RC" /\ m.code = "OK" => OwnRc = ChipRc
  /\ m.kind \in PaceReply =>
       /\ m.code \notin Unrecoverable => Rel(WithPaceResult(conn, m).can)
       /\ m.id = "CAN" => conn.rc = ChipRc
       /\ m.code = "INVALID_PIN" => conn.rc = ChipRc + 1
       /\ m.code \notin {"INVALID_PIN_2", "INVALID_PIN_3"}

(* What is on its way to the workflow is true.                             *)
QueueInv ==
  /\ Informed(msgs, OwnRc)
  /\ NewsFrom(msgs) = {} => conn.rc = OwnRc
  /\ \A m \in Said(msgs) : Promise(m)

(* While the card can be trusted to be the one that was read, all this     *)
(* holds.                                                                  *)
TrustInv == Trusted => StageInv /\ QueueInv

(* The card in reader r looks at a PIN.                                    *)
LooksAtPin(r) == chipRc[slot[r]] > 1 \/ (chipRc[slot[r]] = 1 /\ canOpen[slot[r]])

(* A PIN on its way to a card is one the card looks at, and has not        *)
(* rejected before.                                                        *)
Sendable ==
  failures = 0 =>
    \A i \in Asked({"PACE"}, cmds) :
      cmds[i].id = "PIN" /\ OwnCard(cmds[i].reader) =>
        /\ LooksAtPin(cmds[i].reader)
        /\ cmds[i].reader \in BasicReaders => blame[slot[cmds[i].reader]] = 0

(* A PIN that was rejected is only kept with a counter the card no longer  *)
(* has.                                                                    *)
Behind ==
  /\ \A c \in Cards : blame[c] >= 1 => chipRc[c] < 3
  /\ Going /\ failures = 0 =>
       \A c \in Cards : blame[c] >= 1 /\ pw["PIN"] # NoPassword => chipRc[c] < expRc

(* The inductive invariant of the PIN and its counter.                     *)
PinInv == TrustInv /\ Sendable /\ Behind /\ (failures = 0 => RejectedOnce)

-----------------------------------------------------------------------------
(* The queue of messages towards the workflow.                              *)

(* The order of the news in a queue survives what is done to the queue.    *)
LEMMA QueueIndex ==
  ASSUME NEW q \in Seq(Messages)
  PROVE  /\ Len(q) \in Nat /\ DOMAIN q = 1 .. Len(q) /\ \A i \in DOMAIN q : i \in Nat
         /\ DOMAIN Disown(q) = DOMAIN q
         /\ q # <<>> => /\ 1 \in DOMAIN q /\ q[1] = Head(q)
                        /\ \A i \in DOMAIN Tail(q) : i + 1 \in DOMAIN q /\ Tail(q)[i] = q[i + 1]
                        /\ \A i \in DOMAIN q : i > 1 => i - 1 \in DOMAIN Tail(q)
                                                        /\ Tail(q)[i - 1] = q[i]
         /\ \A m : /\ Len(q) + 1 \in DOMAIN Append(q, m) /\ Append(q, m)[Len(q) + 1] = m
                   /\ \A i \in DOMAIN q : i \in DOMAIN Append(q, m) /\ Append(q, m)[i] = q[i]
                   /\ \A i \in DOMAIN Append(q, m) : i \in DOMAIN q \/ i = Len(q) + 1
<1>1. Len(q) \in Nat /\ DOMAIN q = 1 .. Len(q) /\ \A i \in DOMAIN q : i \in Nat
  BY LenProperties
<1>2. DOMAIN Disown(q) = DOMAIN q
  BY DEF Disown
<1>3. ASSUME q # <<>>
      PROVE  /\ 1 \in DOMAIN q /\ q[1] = Head(q)
             /\ \A i \in DOMAIN Tail(q) : i + 1 \in DOMAIN q /\ Tail(q)[i] = q[i + 1]
             /\ \A i \in DOMAIN q : i > 1 => i - 1 \in DOMAIN Tail(q) /\ Tail(q)[i - 1] = q[i]
  BY <1>1, <1>3, HeadTailProperties, LenProperties
<1>4. ASSUME NEW m
      PROVE  /\ Len(q) + 1 \in DOMAIN Append(q, m) /\ Append(q, m)[Len(q) + 1] = m
             /\ \A i \in DOMAIN q : i \in DOMAIN Append(q, m) /\ Append(q, m)[i] = q[i]
             /\ \A i \in DOMAIN Append(q, m) : i \in DOMAIN q \/ i = Len(q) + 1
  BY <1>1
<1> QED BY <1>1, <1>2, <1>3, <1>4

(* News stay news when nobody waits any more.                              *)
LEMMA DisownedEvents ==
  ASSUME NEW q \in Seq(Messages), NEW i \in DOMAIN q
  PROVE  /\ Disown(q)[i] \in News => q[i] \in News /\ Disown(q)[i].rc = q[i].rc
         /\ \A S : i \in Heard(S, q) => i \in Heard(S, Disown(q))
<1>1. q[i] \in Messages /\ Disown(q)[i] = [q[i] EXCEPT !.mine = FALSE] /\ i \in DOMAIN Disown(q)
  BY ElementOfSeq, QueueIndex DEF Disown
<1>2. CASE q[i] \in Event
  <2>1. ASSUME NEW e \in Event
        PROVE  /\ [e EXCEPT !.mine = FALSE] \in Event /\ [e EXCEPT !.mine = FALSE].rc = e.rc
               /\ [e EXCEPT !.mine = FALSE].conn = e.conn
    BY DEF Event
  <2> QED BY <1>1, <1>2, <2>1, EventsReplies DEF News, Heard
<1>3. CASE q[i] \in Reply
  <2>1. ASSUME NEW m \in Reply
        PROVE  [m EXCEPT !.mine = FALSE] \in Reply /\ [m EXCEPT !.mine = FALSE].kind = m.kind
    BY DEF Reply
  <2> QED BY <1>1, <1>3, <2>1, EventsReplies DEF News, Heard
<1> QED BY <1>1, <1>2, <1>3 DEF Messages

(* News stay ahead of their answer.                                        *)
LEMMA InformedStays ==
  ASSUME NEW q \in Seq(Messages), NEW n, Informed(q, n)
  PROVE  /\ \A m : m \notin News => Informed(Append(q, m), n)
         /\ Informed(Disown(q), n)
         /\ q # <<>> => Informed(Tail(q), n)
<1>1. \A i \in At(News, q) :
        i \in DOMAIN q /\ q[i] \in News /\ q[i].rc = n
        /\ \E j \in Heard({"UPDATE_RC"}, q) : i < j
  BY DEF Informed, At
<1>2. ASSUME NEW m, m \notin News PROVE Informed(Append(q, m), n)
  <2>1. ASSUME NEW i \in At(News, Append(q, m))
        PROVE  i \in At(News, q) /\ Append(q, m)[i] = q[i]
    BY <1>2, <2>1, QueueIndex DEF At
  <2>2. \A j \in Heard({"UPDATE_RC"}, q) : j \in Heard({"UPDATE_RC"}, Append(q, m))
    BY QueueIndex DEF Heard
  <2> QED BY <1>1, <2>1, <2>2 DEF Informed
<1>3. Informed(Disown(q), n)
  <2>1. ASSUME NEW i \in At(News, Disown(q))
        PROVE  i \in At(News, q) /\ Disown(q)[i].rc = q[i].rc
    BY <2>1, QueueIndex, DisownedEvents DEF At
  <2>2. \A j \in Heard({"UPDATE_RC"}, q) : j \in Heard({"UPDATE_RC"}, Disown(q))
    BY DisownedEvents DEF Heard
  <2> QED BY <1>1, <2>1, <2>2 DEF Informed
<1>4. ASSUME q # <<>> PROVE Informed(Tail(q), n)
  <2>1. ASSUME NEW i \in At(News, Tail(q))
        PROVE  Tail(q)[i].rc = n /\ \E j \in Heard({"UPDATE_RC"}, Tail(q)) : i < j
    <3>1. i + 1 \in At(News, q) /\ Tail(q)[i] = q[i + 1] /\ i \in Nat
      <4>1. Tail(q) \in Seq(Messages)
        BY <1>4, Queues
      <4> QED BY <1>4, <2>1, <4>1, QueueIndex DEF At
    <3>2. PICK j \in Heard({"UPDATE_RC"}, q) : i + 1 < j
      BY <1>1, <3>1
    <3>3. j \in DOMAIN q /\ j \in Nat /\ j > 1
      BY <3>1, <3>2, QueueIndex DEF Heard
    <3>4. j - 1 \in Heard({"UPDATE_RC"}, Tail(q))
      BY <1>4, <3>2, <3>3, QueueIndex DEF Heard
    <3>5. i < j - 1
      BY <3>1, <3>2, <3>3
    <3> QED BY <1>1, <3>1, <3>4, <3>5
  <2> QED BY <2>1 DEF Informed
<1> QED BY <1>2, <1>3, <1>4

(* A queue without news brought none before.                               *)
LEMMA NoNewsBefore ==
  ASSUME NEW q \in Seq(Messages)
  PROVE  /\ \A m : NewsFrom(Append(q, m)) = {} => NewsFrom(q) = {} /\ m \notin News
         /\ q # <<>> /\ Head(q) \notin News /\ NewsFrom(Tail(q)) = {} => NewsFrom(q) = {}
<1>1. ASSUME NEW m, NewsFrom(Append(q, m)) = {} PROVE NewsFrom(q) = {} /\ m \notin News
  <2>1. \A i \in DOMAIN Append(q, m) : Append(q, m)[i] \notin News
    BY <1>1 DEF NewsFrom, At
  <2>2. m \notin News
    <3>1. Len(q) + 1 \in DOMAIN Append(q, m) /\ Append(q, m)[Len(q) + 1] = m
      BY QueueIndex
    <3>2. Append(q, m)[Len(q) + 1] \notin News
      BY <2>1, <3>1
    <3> QED BY <3>1, <3>2
  <2>3. \A i \in DOMAIN q : q[i] \notin News
    BY <2>1, QueueIndex
  <2> QED BY <2>2, <2>3 DEF NewsFrom, At
<1>2. ASSUME q # <<>>, Head(q) \notin News, NewsFrom(Tail(q)) = {} PROVE NewsFrom(q) = {}
  <2>1. \A i \in DOMAIN Tail(q) : Tail(q)[i] \notin News
    BY <1>2 DEF NewsFrom, At
  <2>2. ASSUME NEW i \in DOMAIN q PROVE q[i] \notin News
    <3>1. i = 1 \/ i > 1
      BY QueueIndex
    <3> QED BY <1>2, <2>1, <2>2, <3>1, QueueIndex
  <2> QED BY <2>2 DEF NewsFrom, At
<1> QED BY <1>1, <1>2

(* News wait for the answer that follows them.                             *)
LEMMA NewsWait ==
  ASSUME NEW q \in Seq(Messages), NEW n, Informed(q, n),
         Heard({"UPDATE_RC"}, q) = {} \/ (q # <<>> /\ Heard({"UPDATE_RC"}, q) \subseteq {1})
  PROVE  NewsFrom(q) = {}
<1>1. ASSUME NEW i \in At(News, q) PROVE FALSE
  <2>1. i \in DOMAIN q /\ \E j \in Heard({"UPDATE_RC"}, q) : i < j
    BY <1>1 DEF Informed, At
  <2> QED BY <2>1, QueueIndex
<1> QED BY <1>1 DEF NewsFrom

(* The answers in a queue.                                                 *)
LEMMA HeardMeans ==
  ASSUME NEW q, NEW S \in SUBSET CallOps
  PROVE  /\ \A i \in Heard(S, q) : q[i] \in Said(q) /\ q[i].kind \in S
         /\ Heard(S, q) \subseteq Heard(CallOps, q)
BY DEF Heard, Said

(* Without an answer under way there are no news.                          *)
LEMMA NoneSaidNoNews ==
  ASSUME NEW q \in Seq(Messages), NEW n, Informed(q, n), Said(q) = {}
  PROVE  NewsFrom(q) = {} /\ Heard({"UPDATE_RC"}, q) = {}
<1>1. Heard({"UPDATE_RC"}, q) = {}
  BY HeardMeans DEF CallOps
<1> QED BY <1>1, NewsWait

(* The main thread touches neither the card nor what the reader knows.     *)
LEMMA MainScalars ==
  ASSUME CardTypeOK, MainStep, ~Closes, conn # NoConn
  PROVE  /\ conn' # NoConn /\ conn'.reader = conn.reader
         /\ OwnRc' = OwnRc /\ ChipRc' = ChipRc /\ ChipCan' = ChipCan
         /\ UNCHANGED <<slot, rd, chipRc, canOpen, failures>>
<1>1. conn' # NoConn
  BY ConnStays
<1>2. conn'.reader = conn.reader
  BY <1>1, ConnFate
<1>3. UNCHANGED <<slot, rd, chipRc, canOpen, failures>>
  BY DEF MainStep, Kept, Asks, Silences, Claims, FinishConnectCard, Forwards, Learns,
         TakesAnswer, Still, Post, worldVars, chipVars
<1> QED BY <1>1, <1>2, <1>3 DEF OwnRc, ChipRc, ChipCan

(* No connection is left after it was closed, and only taking a worker     *)
(* makes one.                                                              *)
LEMMA ClosesConn ==
  ASSUME Closes PROVE conn' = NoConn
BY DEF Closes, ResetCardConnection, RunCleanUpReaderManager, CleanUpReaderManager

LEMMA NoConnStays ==
  ASSUME MainStep, ~Claims, conn = NoConn
  PROVE  conn' = NoConn
<1>1. WithPaceResult(conn, Head(msgs)) = NoConn
  BY DEF WithPaceResult
<1> QED BY <1>1
    DEF MainStep, Kept, Asks, Closes, ResetCardConnection, RunCleanUpReaderManager,
        CleanUpReaderManager, Silences, FinishConnectCard, Forwards, Learns, TakesAnswer

(* What is trusted after a step of the main thread was so before, unless   *)
(* the step took a new worker.                                             *)
LEMMA TrustedBefore ==
  ASSUME CardTypeOK, MainStep, MainThread \/ User, ~Claims, Trusted'
  PROVE  Trusted /\ ~Closes
<1>1. Going' /\ failures' = 0 /\ conn' # NoConn
  BY DEF Trusted
<1>2. ~Closes /\ conn # NoConn
  BY <1>1, ClosesConn, NoConnStays
<1>3. Going
  BY <1>1, GoingStays
<1>4. failures = 0 /\ conn'.reader = conn.reader
  BY <1>1, <1>2, MainScalars
<1>5. PICK r : r = conn.reader
  OBVIOUS
<1>6. OwnCard(r)'
  BY <1>4, <1>5 DEF Trusted, OwnCard, Reach, Unclaimed
<1>7. OwnCard(r)
  BY <1>2, <1>6, MainOwnBefore
<1> QED BY <1>2, <1>3, <1>4, <1>5, <1>7 DEF Trusted

(* What the main thread does to the queue of messages.                     *)
LEMMA QueueShapes ==
  ASSUME CardTypeOK, MainStep, ~Closes, ~Claims
  PROVE  \/ msgs' \in {msgs, Append(msgs, CreateCall), Disown(msgs)}
         \/ /\ msgs # <<>>
            /\ msgs' \in {Tail(msgs), Append(Tail(msgs), CreateCall), Disown(Tail(msgs))}
            /\ Head(msgs) \in News => Learns
<1>1. msgs # <<>> /\ Head(msgs).kind = "CREATE" => Head(msgs) \notin News
  BY DEF News, Event
<1>2. msgs # <<>> /\ IsAnswer(Head(msgs)) => Head(msgs) \notin News
  BY EventsReplies DEF IsAnswer
<1>3. CASE Kept \/ Asks \/ FinishConnectCard
  BY <1>3 DEF Kept, Asks, Post, FinishConnectCard
<1>4. CASE Silences
  BY <1>1, <1>4 DEF Silences
<1>5. CASE Forwards \/ Learns \/ TakesAnswer
  BY <1>2, <1>5 DEF Forwards, Learns, TakesAnswer
<1> QED BY <1>3, <1>4, <1>5 DEF MainStep

(* What is under way for the connection stays true, in the main thread ... *)
LEMMA QueueMain ==
  ASSUME TypeOK, Trusted, Trusted', QueueInv, OneCall, CallsSettled, MainStep, ~Closes, ~Claims
  PROVE  QueueInv'
<1>1. /\ CardTypeOK /\ msgs \in Seq(Messages) /\ conn # NoConn
      /\ msgs # <<>> => Tail(msgs) \in Seq(Messages)
  BY Queues DEF TypeOK, CardTypeOK, Messages, Trusted
<1>2. /\ conn' # NoConn /\ conn'.reader = conn.reader
      /\ OwnRc' = OwnRc /\ ChipRc' = ChipRc /\ ChipCan' = ChipCan
  BY <1>1, MainScalars
<1>3. /\ Informed(msgs, OwnRc) /\ (NewsFrom(msgs) = {} => conn.rc = OwnRc)
      /\ \A m \in Said(msgs) : Promise(m)
  BY DEF QueueInv
<1>4. CreateCall \notin News
  BY CallIsNoNews
<1>5. Informed(msgs', OwnRc)
  <2>1. /\ Informed(Append(msgs, CreateCall), OwnRc) /\ Informed(Disown(msgs), OwnRc)
        /\ msgs # <<>> => Informed(Tail(msgs), OwnRc)
    BY <1>1, <1>3, <1>4, InformedStays
  <2>2. msgs # <<>> => /\ Informed(Append(Tail(msgs), CreateCall), OwnRc)
                       /\ Informed(Disown(Tail(msgs)), OwnRc)
    BY <1>1, <1>4, <2>1, InformedStays
  <2> QED BY <1>1, <1>3, <2>1, <2>2, QueueShapes
<1>6. ASSUME NewsFrom(msgs') = {} PROVE conn'.rc = OwnRc
  <2>1. CASE Learns
    <3>1. Head(msgs) \in News /\ msgs # <<>> /\ Head(msgs).rc \in RetryCounters
      BY <2>1 DEF Learns, News, Event
    <3>2. 1 \in At(News, msgs) /\ msgs[1] = Head(msgs)
      BY <1>1, <3>1, QueueIndex DEF At
    <3>3. Head(msgs).rc = OwnRc
      BY <1>3, <3>2 DEF Informed
    <3>4. conn' = [conn EXCEPT !.rc = Head(msgs).rc]
      BY <2>1 DEF Learns
    <3> QED BY <1>1, <3>1, <3>3, <3>4, NewsLink
  <2>2. CASE ~Learns
    <3>1. conn'.rc = conn.rc
      <4>1. CASE TakesAnswer
        BY <1>1, <4>1, ResultLink DEF TakesAnswer
      <4>2. CASE FinishConnectCard
        BY <1>1, <4>2 DEF FinishConnectCard, CardTypeOK, Connection
      <4>3. CASE Kept \/ Asks \/ Silences \/ Forwards
        BY <4>3 DEF Kept, Asks, Post, Silences, Forwards
      <4> QED BY <2>2, <4>1, <4>2, <4>3 DEF MainStep
    <3>2. NewsFrom(msgs) = {}
      <4>1. CASE msgs' \in {msgs, Append(msgs, CreateCall), Disown(msgs)}
        <5>1. CASE msgs' = msgs
          BY <1>6, <5>1
        <5>2. CASE msgs' = Append(msgs, CreateCall)
          BY <1>1, <1>6, <5>2, NoNewsBefore
        <5>3. CASE msgs' = Disown(msgs)
          BY <1>1, <1>6, <5>3, NewsQueue
        <5> QED BY <4>1, <5>1, <5>2, <5>3
      <4>2. CASE /\ msgs # <<>> /\ Head(msgs) \notin News
                 /\ msgs' \in {Tail(msgs), Append(Tail(msgs), CreateCall), Disown(Tail(msgs))}
        <5>1. NewsFrom(Tail(msgs)) = {}
          <6>1. CASE msgs' = Tail(msgs)
            BY <1>6, <6>1
          <6>2. CASE msgs' = Append(Tail(msgs), CreateCall)
            BY <1>1, <1>6, <4>2, <6>2, NoNewsBefore
          <6>3. CASE msgs' = Disown(Tail(msgs))
            BY <1>1, <1>6, <4>2, <6>3, NewsQueue
          <6> QED BY <4>2, <6>1, <6>2, <6>3
        <5> QED BY <1>1, <4>2, <5>1, NoNewsBefore
      <4> QED BY <1>1, <2>2, <4>1, <4>2, QueueShapes
    <3> QED BY <1>3, <3>1, <3>2
  <2> QED BY <2>1, <2>2
<1>7. ASSUME NEW m \in Said(msgs') PROVE Promise(m)'
  <2>1. m \in Said(msgs) /\ UNCHANGED <<st, busy>> /\ Said(msgs') # {}
    BY <1>7 DEF CallsSettled
  <2>2. Promise(m)
    BY <1>3, <2>1
  <2>3. CASE conn' = conn
    BY <1>2, <2>2, <2>3 DEF Promise, Rel
  <2>4. CASE Learns
    <3>1. m.kind \notin PaceReply
      <4>1. Head(msgs) \in News /\ msgs # <<>>
        BY <2>4 DEF Learns
      <4>2. 1 \in At(News, msgs)
        BY <1>1, <4>1, QueueIndex DEF At
      <4>3. PICK j \in Heard({"UPDATE_RC"}, msgs) : TRUE
        BY <1>3, <4>2 DEF Informed
      <4>4. j \in Heard(CallOps, msgs) /\ msgs[j].kind = "UPDATE_RC"
        BY <4>3, HeardMeans DEF CallOps
      <4>5. PICK i \in Heard(CallOps, msgs) : m = msgs[i]
        BY <2>1 DEF Said
      <4>6. i = j
        BY <4>4, <4>5 DEF OneCall, Alone
      <4> QED BY <4>4, <4>5, <4>6 DEF PaceReply
    <3> QED BY <1>2, <2>2, <3>1 DEF Promise
  <2>5. CASE TakesAnswer
    <3>1. msgs # <<>> /\ IsAnswer(Head(msgs)) /\ msgs' = Tail(msgs)
      BY <2>5 DEF TakesAnswer
    <3>2. cmds \in Seq(Command) /\ msgs \in Seq(Messages)
      BY <1>1 DEF CardTypeOK
    <3>3. Heard(CallOps, Tail(msgs)) = {}
      BY <3>1, <3>2, TakenAlone DEF OneCall, Alone, IsAnswer
    <3> QED BY <1>1, <2>1, <3>1, <3>3, CallQueues
  <2>6. CASE FinishConnectCard
    BY <2>1, <2>6 DEF FinishConnectCard, Goto
  <2>7. CASE Kept \/ Asks \/ Silences \/ Forwards
    BY <2>3, <2>7 DEF Kept, Asks, Post, Silences, Forwards
  <2> QED BY <2>4, <2>5, <2>6, <2>7 DEF MainStep
<1>8. Informed(msgs', OwnRc')
  BY <1>2, <1>5
<1> QED BY <1>2, <1>6, <1>7, <1>8 DEF QueueInv

(* A trusted card lies in the slot of the connection's reader.             *)
LEMMA ChipRcRange ==
  ASSUME CardTypeOK, Trusted
  PROVE  ChipRc \in 0 .. 3 /\ slot[conn.reader] \in Cards /\ conn.reader \in Readers
BY DEF CardTypeOK, Trusted, OwnCard, Reach, ChipRc, Connection

(* A step that changes neither the stage nor the card.                     *)
LEMMA StageCarries ==
  ASSUME StageInv, ChipRc' = ChipRc, ChipCan' = ChipCan,
         conn'.rc = conn.rc, conn'.can = conn.can,
         UNCHANGED <<st, expRc, idType, lastPace>>,
         busy => busy', Unanswered' => Unanswered
  PROVE  StageInv'
BY DEF StageInv, CounterRight, CounterExpected, CanRight, WishRight, Rel, Right, Runs

(* A password not yet seen by the chip is asked for, or still to be.       *)
LEMMA StillUnanswered ==
  ASSUME CardTypeOK, MainStep, ~Closes, busy => busy', st' = st
  PROVE  Unanswered' => Unanswered
<1>1. cmds \in Seq(Command)
  BY DEF CardTypeOK
<1>2. CASE Asks
  BY <1>2 DEF Asks, Unanswered
<1>3. CASE ~Asks
  <2>1. \A op \in {"CREATE", "DROP"} : op \notin CallOps
    BY DEF CallOps
  <2>2. /\ Fewer(CallOps, cmds, cmds) /\ Fewer(CallOps, Disown(cmds), cmds)
        /\ \A c : c.op \notin CallOps => Fewer(CallOps, Append(cmds, c), cmds)
    BY <1>1, FewerCommands
  <2>3. Fewer(CallOps, cmds', cmds)
    BY <1>3, <2>1, <2>2
       DEF MainStep, Kept, Silences, Claims, FinishConnectCard, Forwards, Learns, TakesAnswer
  <2>4. Asked(CallOps, cmds) = {} => Asked(CallOps, cmds') = {}
    BY <2>3, FewerNone
  <2> QED BY <2>4 DEF Unanswered
<1> QED BY <1>2, <1>3

(* The steps of the state machine.                                         *)
LEMMA StageRuns ==
  ASSUME TypeOK, SelectsFree, LinkInv, Connected, ~CanAllowedMode,
         Trusted, Trusted', StageInv, RunPace, MainStep, ~Closes
  PROVE  StageInv'
<1>1. /\ CardTypeOK /\ conn # NoConn /\ conn' # NoConn /\ Going' /\ Going
      /\ ChipRc' = ChipRc /\ ChipCan' = ChipCan /\ ChipRc \in 0 .. 3
  BY MainScalars, ChipRcRange DEF TypeOK, Trusted
<1>2. st \notin {"SelectReader", "ConnectCard"} \/ Waits("ConnectCard")
  BY <1>1 DEF SelectsFree, LinkInv, LateListener
<1>3. st \notin AfterError \ {"MaintainCardConnection"} /\ st' \notin AfterError \ {"MaintainCardConnection"}
  BY <1>1 DEF Going
<1> USE DEF Runs, Waits, Goto, Wait, UnchangedReader, cardVars
<1>4. CASE RunMaintainCardConnection
  <2>1. ~MaintainAborts
    BY <1>3 DEF MaintainAborts, AfterError
  <2>2. ~MaintainAfterCardGone
    BY <1>1 DEF MaintainAfterCardGone, ResetCardConnection
  <2>3. CASE MaintainAfterWrongPassword
    BY <1>1, <1>4, <2>3
       DEF MaintainAfterWrongPassword, RunMaintainCardConnection, MustAbort, StageInv,
           CounterRight, CounterExpected, CanRight, WishRight, Rel, Unanswered, Closing
  <2>4. CASE MaintainProceeds
    BY <1>1, <1>4, <2>4
       DEF MaintainProceeds, RunMaintainCardConnection, MustAbort, StageInv,
           CounterRight, CounterExpected, CanRight, WishRight, Rel, Unanswered, Closing
  <2> QED BY <1>4, <2>1, <2>2, <2>3, <2>4 DEF RunMaintainCardConnection
<1>5. CASE RunClearPacePasswordsOnError \/ RunSelectReader \/ RunConnectCard
           \/ RunUnfortunateCardPosition
  BY <1>1, <1>2, <1>3, <1>5
     DEF RunClearPacePasswordsOnError, RunSelectReader, RunConnectCard,
         RunUnfortunateCardPosition, AfterError, Connected
<1>6. CASE FinishConnectCard
  <2>1. conn'.can = conn.can /\ conn'.rc = conn.rc
    BY <1>1, <1>6 DEF FinishConnectCard, CardTypeOK, Connection
  <2> QED BY <1>1, <1>6, <2>1
      DEF FinishConnectCard, StageInv, CounterRight, CounterExpected, CanRight, WishRight, Rel,
          Unanswered, Closing
<1>7. CASE RunUpdateRetryCounter
  BY <1>1, <1>7
     DEF RunUpdateRetryCounter, RunUpdate, PostUpdateRetryCounter, Post, StageInv, CounterRight,
         CounterExpected, CanRight, WishRight, Rel, Unanswered, Closing
<1>8. CASE RunVerifyRetryCounter
  BY <1>1, <1>8
     DEF RunVerifyRetryCounter, StageInv, CounterRight, CounterExpected, CanRight, WishRight, Rel,
         Unanswered, Closing
<1>9. CASE RunPreparePace
  <2>1. /\ Demand(Demanded(conn.rc, conn.can)) /\ conn' = conn /\ st = "PreparePace"
        /\ UNCHANGED <<expRc, lastPace>>
    BY <1>1, <1>9 DEF RunPreparePace
  <2>2. conn.rc = ChipRc /\ conn.rc = expRc /\ Rel(conn.can)
    BY <2>1 DEF StageInv, CounterRight, CounterExpected, CanRight, Closing
  <2>3. Right(Demanded(conn.rc, conn.can))
    BY <1>1, <2>2 DEF Right, Demanded, Rel
  <2>4. /\ idType' = Demanded(conn.rc, conn.can)
        /\ st' \in {"EnterPacePassword", "EstablishPaceChannel"} /\ ~busy'
    BY <2>1 DEF Demand
  <2>5. Right(idType)'
    BY <1>1, <2>3, <2>4 DEF Right
  <2>6. Rel(conn.can)'
    BY <1>1, <2>1, <2>2 DEF Rel
  <2> QED BY <1>1, <2>1, <2>2, <2>4, <2>5, <2>6
      DEF StageInv, CounterRight, CounterExpected, CanRight, WishRight, Unanswered
<1>10. CASE RunEstablishPaceChannel
  <2>1. Unanswered /\ conn.rc = ChipRc /\ conn.rc = expRc /\ Rel(conn.can)
    BY <1>10
       DEF RunEstablishPaceChannel, Unanswered, StageInv, CounterRight, CounterExpected, CanRight,
           Closing
  <2>2. /\ conn' = conn /\ expRc' = expRc
        /\ \/ st' = "MaintainCardConnection" /\ lastPace' = "OK"
           \/ st' = "EstablishPaceChannel" /\ busy'
    BY <1>1, <1>10
       DEF RunEstablishPaceChannel, EstablishWithoutPassword, EstablishWithPassword, Post
  <2>3. Rel(conn.can)'
    BY <1>1, <2>1, <2>2 DEF Rel
  <2> QED BY <1>1, <2>1, <2>2, <2>3
      DEF StageInv, CounterRight, CounterExpected, CanRight, WishRight, Unanswered
<1>11. CASE RunClearPacePasswordsBeforeDestroy \/ RunDestroyPaceAfterPuk
  BY <1>1, <1>11
     DEF RunClearPacePasswordsBeforeDestroy, RunDestroyPaceAfterPuk, RunDestroy, StageInv,
         CounterRight, CounterExpected, CanRight, WishRight, Unanswered, Closing
<1> QED BY <1>4, <1>5, <1>6, <1>7, <1>8, <1>9, <1>10, <1>11 DEF RunPace

(* News come only while the workflow waits for the counter.                *)
LEMMA LearnsWhen ==
  ASSUME CardTypeOK, OneCall, QueueInv, Learns
  PROVE  Waits("UpdateRetryCounter")
<1>1. msgs \in Seq(Messages) /\ msgs # <<>> /\ Head(msgs) \in News
  BY DEF CardTypeOK, Messages, Learns
<1>2. 1 \in At(News, msgs)
  BY <1>1, QueueIndex DEF At
<1>3. PICK j \in Heard({"UPDATE_RC"}, msgs) : TRUE
  BY <1>2 DEF QueueInv, Informed
<1>4. msgs[j] \in Said(msgs) /\ msgs[j].kind = "UPDATE_RC"
  BY <1>3, HeardMeans DEF CallOps
<1>5. WaitsFor("UPDATE_RC")
  BY <1>4 DEF OneCall
<1> QED BY <1>5 DEF WaitsFor

(* The counter read last is the chip's.                                    *)
LEMMA UpdateSaid ==
  ASSUME CardTypeOK, OneCall, QueueInv, msgs # <<>>,
         IsAnswer(Head(msgs)), Head(msgs).kind = "UPDATE_RC", Head(msgs).code = "OK"
  PROVE  conn.rc = ChipRc
<1>1. msgs \in Seq(Messages)
  BY DEF CardTypeOK, Messages
<1>2. Head(msgs) \in Said(msgs) /\ 1 \in Heard(CallOps, msgs)
  BY <1>1, QueueIndex, CallQueues DEF Heard, IsAnswer
<1>3. OwnRc = ChipRc
  BY <1>2 DEF QueueInv, Promise
<1>4. Heard({"UPDATE_RC"}, msgs) \subseteq {1}
  BY <1>2, HeardMeans DEF OneCall, Alone, CallOps
<1>5. NewsFrom(msgs) = {}
  BY <1>1, <1>4, NewsWait DEF QueueInv
<1> QED BY <1>3, <1>5 DEF QueueInv

(* The answers to a password.                                              *)
LEMMA PaceSaid ==
  ASSUME CardTypeOK, OneCall, QueueInv, msgs # <<>>, Head(msgs) \in Reply,
         Head(msgs).kind \in PaceReply
  PROVE  /\ Promise(Head(msgs))
         /\ Head(msgs).id \in {"PIN", "CAN", "PUK"}
         /\ Head(msgs).kind = "UNBLOCK" => Head(msgs).id = "PUK"
<1>1. msgs \in Seq(Messages)
  BY DEF CardTypeOK, Messages
<1>2. Head(msgs) \in Said(msgs)
  BY <1>1, CallQueues DEF IsAnswer, CallOps, PaceReply
<1> QED BY <1>2 DEF QueueInv, OneCall, Fits, PaceReply

(* The answer to a password tells where the workflow goes on.              *)
LEMMA StagePace ==
  ASSUME TypeOK, Connected, ~CanAllowedMode, OneCall, QueueInv,
         Trusted, Trusted', StageInv, DeliverPace, ChipRc' = ChipRc, ChipCan' = ChipCan
  PROVE  StageInv'
<1> DEFINE m == Head(msgs)
<1>1. /\ CardTypeOK /\ conn # NoConn /\ conn' # NoConn
      /\ msgs # <<>> /\ m.kind \in PaceReply
  BY DEF TypeOK, Trusted, DeliverPace, DeliversPace
<1>2. m \in Reply
  BY <1>1, FirstMessage DEF PaceReply, CommandOps
<1>3. Promise(m) /\ m.id \in {"PIN", "CAN", "PUK"}
  BY <1>1, <1>2, PaceSaid
<1>4. ~PaceCardGone
  BY <1>1 DEF PaceCardGone, ResetCardConnection
<1>5. conn' = WithPaceResult(conn, m) /\ conn'.rc = conn.rc
  BY <1>1, <1>4, ResultLink DEF DeliverPace, PaceDone, PaceFailed
<1>6. m.code \notin Unrecoverable => Rel(WithPaceResult(conn, m).can)
  BY <1>1, <1>3 DEF Promise
<1> HIDE DEF m
<1>7. m.code \notin Unrecoverable => Rel(conn.can)'
  BY <1>5, <1>6 DEF Rel
<1>8. CASE PaceDone
  <2>1. m.code = "OK" /\ m.code \notin Unrecoverable
    BY <1>8 DEF PaceDone, Unrecoverable, m
  <2>2. CASE m.id = "PIN"
    <3>1. st' = "PaceChannelEstablished"
      BY <1>8, <2>2 DEF PaceDone, Goto, m
    <3> QED BY <1>7, <2>1, <3>1
        DEF StageInv, CounterRight, CounterExpected, CanRight, WishRight, Unanswered, Runs
  <2>3. CASE m.id = "CAN"
    <3>1. st' = "MaintainCardConnection" /\ lastPace' = "OK"
      BY <1>8, <2>3 DEF PaceDone, Goto, m
    <3>2. conn.rc = ChipRc
      BY <1>1, <1>3, <2>3 DEF Promise, m
    <3> QED BY <1>5, <1>7, <2>1, <3>1, <3>2
        DEF StageInv, CounterRight, CounterExpected, CanRight, WishRight, Unanswered, Runs
  <2>4. CASE m.id = "PUK"
    <3>1. st' = "ClearPacePasswordsBeforeDestroy"
      BY <1>8, <2>4 DEF PaceDone, Goto, m
    <3> QED BY <3>1
        DEF StageInv, CounterRight, CounterExpected, CanRight, WishRight, Unanswered, Runs, Closing
  <2> QED BY <1>3, <2>2, <2>3, <2>4
<1>9. CASE PaceFailed
  <2>1. /\ st' = "MaintainCardConnection" /\ lastPace' # "OK"
        /\ lastPace' \in Unrecoverable <=> m.code \in Unrecoverable
    BY <1>9 DEF PaceFailed, Goto, m, Attempt, Unrecoverable
  <2> QED BY <1>7, <2>1
      DEF StageInv, CounterRight, CounterExpected, CanRight, WishRight, Unanswered, Runs
<1> QED BY <1>4, <1>8, <1>9 DEF DeliverPace

(* The answers that come in ...                                            *)
LEMMA StageDelivers ==
  ASSUME TypeOK, SelectsFree, LinkInv, Connected, OneCall, QueueInv, ~CanAllowedMode,
         Trusted, Trusted', StageInv, DeliverToPace \/ DeliverToChangePin,
         MainStep, ~Closes, ~Claims
  PROVE  StageInv'
<1>1. /\ CardTypeOK /\ conn # NoConn /\ conn' # NoConn /\ Going' /\ Going
      /\ ChipRc' = ChipRc /\ ChipCan' = ChipCan
  BY MainScalars DEF TypeOK, Trusted
<1>2. AtRest => st \notin {"SelectReader", "ConnectCard"}
  BY <1>1 DEF SelectsFree, AtRest
<1>3. st' \notin AfterError \ {"MaintainCardConnection"}
  BY <1>1 DEF Going
<1> USE DEF Runs, Waits, Goto, Wait
<1>4. ASSUME UNCHANGED <<st, busy, idType, expRc, lastPace>>, conn' = conn PROVE StageInv'
  <2>1. Unanswered' => Unanswered
    BY <1>1, <1>4, StillUnanswered
  <2> QED BY <1>1, <1>4, <2>1, StageCarries
<1>5. CASE DeliverCall
  BY <1>4, <1>5 DEF DeliverCall, paceVars, contextVars, controlVars
<1>6. CASE DeliverCreate
  BY <1>1, <1>2, <1>4, <1>6 DEF DeliverCreate, contextVars
<1>7. CASE DeliverEvent
  <2>1. CASE conn' = conn
    BY <1>2, <1>4, <1>7, <2>1 DEF DeliverEvent
  <2>2. CASE conn' # conn
    <3>1. AtRest /\ msgs # <<>> /\ Head(msgs).conn
          /\ Head(msgs).kind \in {"inserted", "removed", "counter"}
          /\ conn' = [conn EXCEPT !.rc = Head(msgs).rc]
          /\ UNCHANGED <<st, busy, lastPace, expRc, idType>>
      BY <1>2, <1>7, <2>2 DEF DeliverEvent
    <3>2. Head(msgs) \in Event /\ Head(msgs).rc \in RetryCounters
      BY <1>1, <3>1, FirstMessage
    <3>3. msgs \in Seq(Messages) /\ Head(msgs) \in News
      BY <1>1, <3>1, <3>2 DEF News, CardTypeOK, Messages
    <3>4. 1 \in At(News, msgs)
      BY <3>1, <3>3, QueueIndex DEF At
    <3>5. PICK j \in Heard({"UPDATE_RC"}, msgs) : TRUE
      BY <3>4 DEF QueueInv, Informed
    <3>6. msgs[j] \in Said(msgs) /\ msgs[j].kind = "UPDATE_RC"
      BY <3>5, HeardMeans DEF CallOps
    <3>7. st = "UpdateRetryCounter"
      BY <3>6 DEF OneCall, WaitsFor
    <3>8. conn'.can = conn.can
      BY <1>1, <3>1, <3>2, NewsLink
    <3> QED BY <1>1, <3>1, <3>7, <3>8
        DEF StageInv, CounterRight, CounterExpected, CanRight, WishRight, Unanswered, Rel, Closing
  <2> QED BY <2>1, <2>2
<1>8. CASE DeliverStale
  <2>1. Head(msgs).kind \notin CallOps
    <3>1. msgs # <<>> /\ Head(msgs).kind \in CommandOps /\ ~Head(msgs).mine
          /\ msgs \in Seq(Messages)
      BY <1>1, <1>8 DEF DeliverStale, CardTypeOK, Messages
    <3>2. Head(msgs) \in Reply
      BY <1>1, <3>1, FirstMessage DEF CommandOps
    <3>3. Head(msgs).kind \in CallOps => Head(msgs) \in Said(msgs)
      BY <3>1, <3>2, CallQueues DEF IsAnswer
    <3> QED BY <3>1, <3>3 DEF OneCall
  <2>2. conn' = conn
    BY <1>8, <2>1 DEF DeliverStale, WithPaceResult, CallOps
  <2> QED BY <1>4, <1>8, <2>2 DEF DeliverStale, paceVars, contextVars, controlVars
<1>9. CASE DeliverPace
  BY <1>1, <1>9, StagePace
<1>10. CASE DeliverUpdateRetryCounter
  <2>1. /\ msgs # <<>> /\ Head(msgs).kind = "UPDATE_RC" /\ Head(msgs).code = "OK"
        /\ st = "UpdateRetryCounter" /\ st' = "VerifyRetryCounter" /\ conn' = conn
    BY <1>1, <1>10
       DEF DeliverUpdateRetryCounter, DeliverUpdate, Delivers, ResetCardConnection
  <2>2. IsAnswer(Head(msgs))
    BY <1>1, <2>1, FirstMessage DEF IsAnswer, CallOps, CommandOps
  <2>3. conn.rc = ChipRc
    BY <1>1, <2>1, <2>2, UpdateSaid
  <2> QED BY <1>1, <2>1, <2>3
      DEF StageInv, CounterRight, CounterExpected, CanRight, WishRight, Unanswered, Rel, Closing
<1>11. CASE DeliverDestroyPaceAfterPuk
  BY <1>11
     DEF DeliverDestroyPaceAfterPuk, DeliverDestroy,
         StageInv, CounterRight, CounterExpected, CanRight, WishRight, Unanswered, Closing
<1>12. CASE DeliverDestroyPace \/ DeliverUpdateRetryCounterFinal
  BY <1>3, <1>12
     DEF DeliverDestroyPace, DeliverDestroy, DeliverUpdateRetryCounterFinal, DeliverUpdate,
         AfterError
<1>13. CASE DeliverSetEidPin
  <2>1. /\ st = "ChangePin" /\ lastPace' = Head(msgs).code /\ conn' = conn
        /\ \/ lastPace' = "OK" /\ st' = "DestroyPace"
           \/ st' = "MaintainCardConnection" /\ UpdateStatus("Cancelled")
           \/ st' = "ClearPacePasswords"
           \/ st' = "MaintainCardConnection" /\ lastPace' # "OK"
    BY <1>13 DEF DeliverSetEidPin, Delivers
  <2>2. ~(st' = "MaintainCardConnection" /\ UpdateStatus("Cancelled"))
    BY <1>1 DEF Going, AfterError, UpdateStatus
  <2>3. st' # "ClearPacePasswords"
    BY <1>3 DEF AfterError
  <2> QED BY <1>1, <2>1, <2>2, <2>3
      DEF StageInv, CounterRight, CounterExpected, CanRight, WishRight, Unanswered, Rel, Closing
<1> QED BY <1>5, <1>6, <1>7, <1>8, <1>9, <1>10, <1>11, <1>12, <1>13
    DEF DeliverToPace, DeliverToChangePin

(* ... and what the rest of the workflow and its user do.                  *)
LEMMA StageWorkflow ==
  ASSUME TypeOK, SelectsFree, Trusted, Trusted', StageInv, RunChangePinWorkflow \/ User,
         MainStep, ~Closes
  PROVE  StageInv'
<1>1. /\ CardTypeOK /\ conn # NoConn /\ conn' # NoConn /\ Going' /\ Going
      /\ ChipRc' = ChipRc /\ ChipCan' = ChipCan
  BY MainScalars DEF TypeOK, Trusted
<1>2. st \notin AfterError \ {"MaintainCardConnection"} /\ st' \notin AfterError \ {"MaintainCardConnection"}
  BY <1>1 DEF Going
<1> USE DEF Runs, Goto, Wait, UnchangedReader, cardVars, contextVars
<1>3. CASE PaceChannelEstablished \/ RunPrepareChangePin \/ EnterNewPacePin \/ RunChangePin
           \/ RunDestroyPace
  BY <1>1, <1>3
     DEF PaceChannelEstablished, RunPrepareChangePin, Leads, EnterNewPacePin, RunChangePin,
         RunDestroyPace, RunDestroy, Post,
         StageInv, CounterRight, CounterExpected, CanRight, WishRight, Unanswered, Rel, Closing
<1>4. CASE PacePukEstablished \/ PaceAbort \/ RunClearPacePasswords
           \/ RunUpdateRetryCounterFinal \/ RunCleanUpReaderManager \/ RunFinalState
  BY <1>2, <1>4
     DEF PacePukEstablished, PaceAbort, Leads, RunClearPacePasswords, RunUpdateRetryCounterFinal,
         RunUpdate, RunCleanUpReaderManager, CleanUpReaderManager, RunFinalState, AfterError
<1>5. CASE Cancel \/ CancelKilled
  <2>1. UpdateStatus("Cancelled") /\ st' = AbortTarget(st)
    BY <1>5 DEF Cancel, CancelKilled, UserCancels, KillCancels, OnUserCancelled
  <2>2. status' # "NoError" /\ st' \in {"MaintainCardConnection", "PaceAbort",
                                        "ClearPacePasswords", "CleanUpReaderManager"}
    BY <2>1 DEF UpdateStatus, AbortTarget, PaceAbortTarget
  <2> QED BY <1>1, <2>2 DEF Going, AfterError
<1>6. CASE EnterPacePassword
  <2>1. /\ st = "EnterPacePassword" /\ st' = "EstablishPaceChannel" /\ conn' = conn
        /\ UNCHANGED <<idType, expRc, lastPace>>
    BY <1>6 DEF EnterPacePassword
  <2> QED BY <1>1, <2>1
      DEF StageInv, CounterRight, CounterExpected, CanRight, WishRight, Unanswered, Rel, Right, Closing
<1>7. CASE RetryCardSelection
  BY <1>1, <1>7 DEF RetryCardSelection, SelectsFree, AtRest
<1>8. CASE Kill
  <2>1. UNCHANGED <<st, busy, expRc, idType, lastPace, conn, cmds>>
    BY <1>8 DEF Kill
  <2>2. Unanswered' => Unanswered
    BY <2>1 DEF Unanswered
  <2> QED BY <1>1, <2>1, <2>2, StageCarries
<1> QED BY <1>3, <1>4, <1>5, <1>6, <1>7, <1>8 DEF RunChangePinWorkflow, User

(* What the result of a channel does to the CAN channel the connection     *)
(* knows.                                                                  *)
LEMMA ResultCan ==
  ASSUME CardTypeOK, conn # NoConn, NEW m, m.conn
  PROVE  /\ m.kind # "PACE" => WithPaceResult(conn, m) = conn
         /\ m.kind = "PACE" /\ m.id = "CAN" => (WithPaceResult(conn, m).can <=> m.code = "OK")
         /\ m.kind = "PACE" /\ m.id # "CAN" =>
              (WithPaceResult(conn, m).can <=> conn.can /\ m.code = "OK")
<1>1. conn \in Connection /\ conn.can \in BOOLEAN
  BY DEF CardTypeOK, Connection
<1>2. /\ [conn EXCEPT !.can = (m.code = "OK")].can = (m.code = "OK")
      /\ [conn EXCEPT !.pin = (m.code = "OK"), !.can = @ /\ m.code = "OK"].can
           = (conn.can /\ m.code = "OK")
  BY <1>1 DEF Connection
<1> QED BY <1>1, <1>2 DEF WithPaceResult

(* A new message that is no news.                                          *)
LEMMA QueueGrows ==
  ASSUME CardTypeOK, QueueInv, NEW m, m \notin News, msgs' = Append(msgs, m),
         conn' = conn, OwnRc' = OwnRc,
         IsAnswer(m) => Promise(m)', \A n \in Said(msgs) : Promise(n)'
  PROVE  QueueInv'
<1>1. msgs \in Seq(Messages)
  BY DEF CardTypeOK, Messages
<1>2. Informed(msgs', OwnRc')
  BY <1>1, InformedStays DEF QueueInv
<1>3. NewsFrom(msgs') = {} => conn'.rc = OwnRc'
  BY <1>1, NoNewsBefore DEF QueueInv
<1>4. ASSUME NEW n \in Said(msgs') PROVE Promise(n)'
  <2>1. n \in Said(msgs) \/ (n = m /\ IsAnswer(m))
    BY <1>1, <1>4, CallQueues
  <2> QED BY <2>1
<1> QED BY <1>2, <1>3, <1>4 DEF QueueInv

(* A promise holds while the card and the connection stay as they are.     *)
LEMMA PromiseStays ==
  ASSUME NEW m, Promise(m), conn' = conn, OwnRc' = OwnRc, ChipRc' = ChipRc, ChipCan' = ChipCan
  PROVE  Promise(m)'
BY DEF Promise, Rel

(* The card is trusted before if it is trusted afterwards.                 *)
LEMMA EnvironmentBefore ==
  ASSUME TypeOK, SlotInv, Environment, Trusted'
  PROVE  /\ Trusted /\ conn' = conn /\ slot'[conn.reader] = slot[conn.reader]
         /\ UNCHANGED paceVars
<1>1. CardTypeOK /\ UNCHANGED paceVars /\ UNCHANGED <<st, status>>
  BY DEF TypeOK, Environment, paceVars, controlVars, contextVars
<1>2. conn' = conn
  BY <1>1, Answered DEF Environment, ReaderThread, Update, World, TakeCard, PutCard
<1>3. PICK r : r = conn.reader
  OBVIOUS
<1>4. r \in Readers /\ conn # NoConn
  BY <1>1, <1>2, <1>3 DEF Trusted, CardTypeOK, Connection
<1>5. OwnCard(r)'
  BY <1>2, <1>3 DEF Trusted, OwnCard, Reach, Unclaimed
<1>6. OwnCard(r) /\ slot'[r] = slot[r]
  BY <1>1, <1>4, <1>5, ExecuteOwnBefore, SlotsOwnBefore DEF Environment, ReaderThread
<1>7. failures = 0
  <2>1. failures' \in {failures, failures + 1} /\ failures \in Nat
    BY <1>1
       DEF CardTypeOK, Environment, ReaderThread, Update, World, TakeCard, PutCard, readerVars,
           Execute, ExecuteCreate, ExecuteDrop, ExecuteUpdateRetryCounter, UnchangedByCommand,
           ExecuteEstablishPaceChannel, ExecuteUnblockPin, ExecuteDestroyPaceChannel,
           ExecuteSetEidPin, ChipWorks
  <2> QED BY <2>1 DEF Trusted
<1>8. Going
  BY <1>1 DEF Trusted, Going
<1> QED BY <1>1, <1>2, <1>3, <1>4, <1>6, <1>7, <1>8 DEF Trusted

(* The reader thread does not change the stage of the workflow.            *)
LEMMA StageEnvironment ==
  ASSUME StageInv, UNCHANGED paceVars, conn' = conn, ChipRc' = ChipRc, ChipCan' = ChipCan,
         Asked(CallOps, cmds) = {} => Asked(CallOps, cmds') = {}
  PROVE  StageInv'
<1>1. UNCHANGED <<st, busy, expRc, idType, lastPace>>
  BY DEF paceVars, contextVars, controlVars
<1>2. Unanswered' => Unanswered
  BY <1>1 DEF Unanswered
<1> QED BY <1>1, <1>2, StageCarries

(* Looking into slots, moving cards, ...                                   *)
LEMMA TrustSlots ==
  ASSUME TypeOK, SlotInv, Trusted, Trusted', StageInv, QueueInv, UNCHANGED paceVars,
         conn' = conn, World \/ \E s \in Readers : Update(s)
  PROVE  StageInv' /\ QueueInv'
<1>1. PICK r : r = conn.reader
  OBVIOUS
<1>2. CardTypeOK /\ r \in Readers /\ conn # NoConn /\ msgs \in Seq(Messages)
  BY <1>1 DEF TypeOK, Trusted, CardTypeOK, Connection, Messages
<1>3. OwnCard(r)'
  BY <1>1 DEF Trusted, OwnCard, Reach, Unclaimed
<1>4. /\ slot'[r] = slot[r] /\ rd'[r] = rd[r] /\ chipRc' = chipRc
      /\ canOpen'[slot[r]] = canOpen[slot[r]] /\ ~Update(r)
  BY <1>2, <1>3, SlotsOwnBefore
<1>5. OwnRc' = OwnRc /\ ChipRc' = ChipRc /\ ChipCan' = ChipCan
  BY <1>1, <1>4 DEF OwnRc, ChipRc, ChipCan
<1>6. cmds' = cmds
  BY DEF World, TakeCard, PutCard, readerVars, Update
<1>7. StageInv'
  BY <1>5, <1>6, StageEnvironment
<1>8. \A n \in Said(msgs) : Promise(n)'
  BY <1>5, PromiseStays DEF QueueInv
<1>9. CASE World
  <2>1. msgs' = msgs
    BY <1>9 DEF World, TakeCard, PutCard, readerVars
  <2> QED BY <1>5, <1>7, <1>8, <2>1 DEF QueueInv
<1>10. CASE \E s \in Readers : Update(s)
  <2>1. PICK s \in Readers : Update(s)
    BY <1>10
  <2>2. s # r
    BY <1>4, <2>1
  <2>3. PICK o \in PollOutcomes(s, rd[s]) :
          o.events # <<>> /\ msgs' = Append(msgs, Signal(o.events[1].type, s, o.events[1].rc))
    BY <2>1 DEF Update
  <2> DEFINE e == Signal(o.events[1].type, s, o.events[1].rc)
  <2>4. ~e.conn /\ e.kind = o.events[1].type
    BY <1>1, <2>2 DEF Signal, Listening
  <2>5. e \notin News
    BY <2>4 DEF News
  <2>6. ~IsAnswer(e)
    <3>1. o.events \in {<<[type |-> "removed", rc |-> -1]>>}
            \cup {<<[type |-> "inserted", rc |-> n]>> : n \in {chipRc[slot[s]], -1}}
      BY <2>3 DEF PollOutcomes
    <3>2. o.events[1].type \in {"removed", "inserted"}
      BY <3>1
    <3> QED BY <2>4, <3>2 DEF IsAnswer, CallOps
  <2> HIDE DEF e
  <2>7. msgs' = Append(msgs, e)
    BY <2>3 DEF e
  <2> QED BY <1>2, <1>5, <1>7, <1>8, <2>5, <2>6, <2>7, QueueGrows
<1> QED BY <1>7, <1>9, <1>10

(* ... opening and closing handles ...                                     *)
LEMMA TrustHandles ==
  ASSUME TypeOK, SlotInv, CallsOwn, OneCall, Trusted, Trusted', StageInv, QueueInv,
         UNCHANGED paceVars, Execute, Head(cmds).op \notin CallOps
  PROVE  StageInv' /\ QueueInv'
<1>1. PICK r : r = conn.reader
  OBVIOUS
<1>2. /\ CardTypeOK /\ r \in Readers /\ conn # NoConn /\ msgs \in Seq(Messages)
      /\ cmds # <<>> /\ cmds' = Tail(cmds) /\ cmds \in Seq(Command)
      /\ Head(cmds) \in Command /\ conn' = conn
  BY <1>1, Answered, FirstCommand DEF TypeOK, Trusted, CardTypeOK, Connection, Messages
<1>3. OwnCard(r)'
  BY <1>1, <1>2 DEF Trusted, OwnCard, Reach, Unclaimed
<1>4. ExecuteCreate \/ ExecuteDrop
  BY DEF Execute, Executes, ExecuteUpdateRetryCounter, ExecuteEstablishPaceChannel,
         ExecuteUnblockPin, ExecuteDestroyPaceChannel, ExecuteSetEidPin, CallOps
<1>5. ~ExecuteUpdateRetryCounter
  BY DEF ExecuteUpdateRetryCounter, Executes, CallOps
<1>6. OwnCard(r) /\ slot'[r] = slot[r] /\ rd'[r] = rd[r]
  BY <1>2, <1>3, <1>5, ExecuteOwnBefore
<1>7. chipRc' = chipRc /\ canOpen'[slot[r]] = canOpen[slot[r]]
  <2>1. CASE ExecuteCreate
    BY <2>1 DEF ExecuteCreate, chipVars
  <2>2. CASE ExecuteDrop
    <3> DEFINE s == Head(cmds).reader
    <3>1. /\ chipRc' = chipRc /\ canOpen' = ResetChip(s, rd[s]) /\ s \in Readers
          /\ rd' = [rd EXCEPT ![s] = Closed(@)]
      BY <1>2, <2>2 DEF ExecuteDrop, Command
    <3> HIDE DEF s
    <3>2. r # s
      BY <1>2, <1>3, <3>1 DEF OwnCard, Reach, Closed, CardTypeOK, ReaderData
    <3>3. slot[s] # NoCard => slot[s] # slot[r]
      BY <1>2, <3>1, <3>2 DEF SlotInv, SlotsApart
    <3>4. canOpen'[slot[r]] = canOpen[slot[r]]
      BY <1>2, <1>6, <3>1, <3>3 DEF ResetChip, OwnCard, Reach, CardTypeOK
    <3> QED BY <3>1, <3>4
  <2> QED BY <1>4, <2>1, <2>2
<1>8. OwnRc' = OwnRc /\ ChipRc' = ChipRc /\ ChipCan' = ChipCan
  BY <1>1, <1>2, <1>6, <1>7 DEF OwnRc, ChipRc, ChipCan
<1>9. Asked(CallOps, cmds) = {} => Asked(CallOps, cmds') = {}
  <2>1. Fewer(CallOps, cmds', cmds)
    BY <1>2, FewerCommands
  <2> QED BY <2>1, FewerNone
<1>10. StageInv'
  BY <1>2, <1>8, <1>9, StageEnvironment
<1>11. \A n \in Said(msgs) : Promise(n)'
  BY <1>2, <1>8, PromiseStays DEF QueueInv
<1>12. CASE msgs' = msgs
  BY <1>2, <1>8, <1>10, <1>11, <1>12 DEF QueueInv
<1>13. ASSUME NEW m \in Reply, m.kind = Head(cmds).op, msgs' = Append(msgs, m)
       PROVE  QueueInv'
  <2>1. m \notin News /\ ~IsAnswer(m)
    BY <1>13, EventsReplies DEF IsAnswer
  <2> QED BY <1>2, <1>8, <1>11, <1>13, <2>1, QueueGrows
<1> QED BY <1>2, <1>5, <1>10, <1>12, <1>13, Answered

(* ... and what the connection has asked for: before it is done there is   *)
(* no other answer under way and no news of the counter.                   *)
LEMMA AskedCard ==
  ASSUME TypeOK, CallsOwn, OneCall, Trusted, QueueInv, Execute, UNCHANGED <<st, busy>>,
         NEW c, c = Head(cmds), c.op \in CallOps
  PROVE  /\ c \in Command /\ c.reader = conn.reader /\ WaitsFor(c.op) /\ Fits(c.op, c.id)
         /\ c.conn /\ c.mine /\ Listening(c.reader)
         /\ Said(msgs) = {} /\ NewsFrom(msgs) = {} /\ conn.rc = OwnRc
         /\ Asked(CallOps, cmds') = {} /\ Asked(CallOps, cmds) # {}
         /\ msgs \in Seq(Messages)
<1>1. /\ CardTypeOK /\ msgs \in Seq(Messages) /\ cmds \in Seq(Command)
      /\ cmds # <<>> /\ cmds' = Tail(cmds) /\ c \in Command
  BY Answered, FirstCommand DEF TypeOK, CardTypeOK, Messages
<1>2. Said(msgs) = {} /\ Posted(cmds') = {} /\ c \in Posted(cmds)
  BY <1>1, ExecuteCalls
<1>3. /\ Asked(CallOps, cmds') = {} /\ Asked(CallOps, cmds) # {}
  BY <1>2 DEF Posted
<1>4. NewsFrom(msgs) = {}
  BY <1>1, <1>2, NoneSaidNoNews DEF QueueInv
<1>5. Listening(c.reader) /\ Fits(c.op, c.id)
  BY <1>2 DEF Posted, CallsOwn
<1>6. WaitsFor(c.op) /\ c.conn /\ c.mine
  BY <1>2 DEF OneCall
<1> QED BY <1>1, <1>2, <1>3, <1>4, <1>5, <1>6 DEF QueueInv, Listening

(* The counter is read: news of it go ahead of the answer.                 *)
LEMMA TrustUpdate ==
  ASSUME TypeOK, SlotInv, CallsOwn, OneCall, Trusted, Trusted', StageInv, QueueInv,
         UNCHANGED paceVars, Execute, ExecuteUpdateRetryCounter
  PROVE  StageInv' /\ QueueInv'
<1>1. PICK c : c = Head(cmds)
  OBVIOUS
<1>2. c.op = "UPDATE_RC" /\ c.op \in CallOps /\ UNCHANGED <<st, busy>>
  BY <1>1 DEF ExecuteUpdateRetryCounter, Executes, CallOps, paceVars, controlVars
<1>3. /\ c \in Command /\ c.reader = conn.reader /\ c.conn /\ c.mine /\ Listening(c.reader)
      /\ Said(msgs) = {} /\ NewsFrom(msgs) = {} /\ conn.rc = OwnRc
      /\ Asked(CallOps, cmds') = {} /\ msgs \in Seq(Messages)
  BY <1>1, <1>2, AskedCard
<1>4. PICK r : r = conn.reader
  OBVIOUS
<1>5. /\ CardTypeOK /\ r \in Readers /\ conn # NoConn /\ failures = 0 /\ Reach(r)
      /\ slot[r] \in Cards
  BY <1>4 DEF TypeOK, Trusted, CardTypeOK, Connection, OwnCard, Reach
<1> DEFINE k == chipRc[slot[r]]
           changed == rd[r].rc # -1 /\ rd[r].rc # k
           e == Signal("counter", r, k)
           m == Answer(c, "OK")
           d == [rd[r] EXCEPT !.rc = k]
<1>6. /\ rd' = [rd EXCEPT ![r] = d] /\ UNCHANGED <<slot, chipRc, canOpen, conn>>
      /\ msgs' = msgs \o (IF changed THEN <<e>> ELSE <<>>) \o <<m>>
  <2>1. failures' = 0
    BY DEF Trusted
  <2>2. failures' # failures + 1
    BY <1>5, <2>1
  <2> QED BY <1>1, <1>3, <1>4, <1>5, <2>2 DEF ExecuteUpdateRetryCounter, worldVars, chipVars
<1>7. k \in 0 .. 3 /\ d.rc = k
  BY <1>5 DEF CardTypeOK, ReaderData
<1>8. e \in News /\ e.rc = k
  BY <1>3, <1>4, <1>5, <1>7, Counters DEF Signal, News, Event
<1>9. m \in Reply /\ m.kind = "UPDATE_RC"
  BY <1>2, <1>3 DEF Answer, Command, Reply, Codes
<1>10. ~changed => rd[r].rc = k
  BY <1>5 DEF SlotInv, CountersKnown, Reach
<1> HIDE DEF k, e, m, d
<1>11. OwnRc' = k /\ ChipRc' = k /\ ChipRc = k /\ ChipCan' = ChipCan
  BY <1>4, <1>5, <1>6, <1>7 DEF OwnRc, ChipRc, ChipCan, CardTypeOK, k
<1>12. StageInv'
  BY <1>3, <1>6, <1>11, StageEnvironment
<1>13. Promise(m)'
  BY <1>9, <1>11 DEF Promise, PaceReply
<1>14. CASE ~changed
  <2>1. msgs' = Append(msgs, m)
    <3>1. msgs' = msgs \o <<>> \o <<m>>
      BY <1>6, <1>14
    <3> QED BY <3>1, <1>3, ConcatEmptySeq, AppendIsConcat
  <2>2. OwnRc' = OwnRc
    BY <1>4, <1>10, <1>11, <1>14 DEF OwnRc
  <2> QED BY <1>3, <1>5, <1>6, <1>9, <1>12, <1>13, <2>1, <2>2, EventsReplies, QueueGrows
<1>15. CASE changed
  <2>1. msgs' = Append(Append(msgs, e), m)
    <3>1. msgs' = msgs \o <<e>> \o <<m>>
      BY <1>6, <1>15
    <3>2. Append(msgs, e) \in Seq(Messages \cup {e}) /\ msgs \in Seq(Messages \cup {e})
      BY <1>3
    <3>3. msgs \o <<e>> = Append(msgs, e)
      BY <3>2, AppendIsConcat
    <3>4. Append(msgs, e) \o <<m>> = Append(Append(msgs, e), m)
      BY <3>2, AppendIsConcat
    <3> QED BY <3>1, <3>3, <3>4
  <2>2. e \notin Reply /\ m \notin News /\ e \in Messages
    BY <1>8, <1>9, EventsReplies DEF Messages
  <2>3. Append(msgs, e) \in Seq(Messages)
    BY <1>3, <2>2
  <2> DEFINE q == Append(msgs, e)
  <2>4. \A i \in At(News, msgs') : i = Len(msgs) + 1 /\ msgs'[i] = e
    <3>1. ASSUME NEW i \in At(News, msgs') PROVE i = Len(msgs) + 1 /\ msgs'[i] = e
      <4>1. i \in DOMAIN q \/ i = Len(q) + 1
        BY <2>1, <2>3, <3>1, QueueIndex DEF At
      <4>2. i \in DOMAIN q /\ msgs'[i] = q[i]
        BY <2>1, <2>2, <2>3, <3>1, <4>1, QueueIndex DEF At
      <4>3. i \notin DOMAIN msgs
        <5>1. \A j \in DOMAIN msgs : msgs[j] \notin News
          BY <1>3 DEF NewsFrom, At
        <5>3. \A j \in DOMAIN msgs : q[j] = msgs[j]
          BY <1>3, QueueIndex
        <5>2. q[i] \in News
          BY <3>1, <4>2 DEF At
        <5> QED BY <5>1, <5>2, <5>3, <4>2
      <4> QED BY <1>3, <4>2, <4>3, QueueIndex
    <3> QED BY <3>1
  <2>5. Len(q) + 1 \in Heard({"UPDATE_RC"}, msgs') /\ Len(msgs) + 1 < Len(q) + 1
    BY <1>3, <1>9, <2>1, <2>3, QueueIndex DEF Heard
  <2>6. Informed(msgs', k)
    BY <1>8, <2>4, <2>5 DEF Informed
  <2>7. NewsFrom(msgs') # {}
    BY <1>3, <1>8, <2>1, <2>3, NoNewsBefore
  <2>8. ASSUME NEW n \in Said(msgs') PROVE n = m
    <3>1. Said(q) = {}
      BY <1>3, <2>2, CallQueues DEF IsAnswer
    <3> QED BY <2>1, <2>3, <2>8, <3>1, CallQueues
  <2> QED BY <1>11, <1>12, <1>13, <2>6, <2>7, <2>8 DEF QueueInv
<1> QED BY <1>14, <1>15

(* The chip's answer, and what it leaves behind.                           *)
LEMMA ChipResult ==
  ASSUME CardTypeOK, NEW k \in Cards, NEW id, NEW word
  PROVE  LET a == ChipAnswer(k, id, word)
         IN /\ a.code \in Codes /\ a.rc \in 0 .. 3 /\ a.can \in BOOLEAN
            /\ a.code \notin {"INVALID_PIN_2", "INVALID_PIN_3"}
            /\ id = "CAN" => /\ a.rc = chipRc[k] /\ a.code # "INVALID_PIN"
                             /\ a.can <=> a.code = "OK"
            /\ id = "PUK" => /\ a.code \in {"OK", "INVALID_PUK"} /\ ~a.can
                             /\ a.rc = IF a.code = "OK" THEN 3 ELSE chipRc[k]
            /\ id = "PIN" => /\ a.code \in {"PROTOCOL_ERROR", "OK", "INVALID_PIN"}
                             /\ a.code # "PROTOCOL_ERROR" => ~a.can
                             /\ a.code = "PROTOCOL_ERROR" => a.rc = chipRc[k]
                             /\ a.code = "OK" => a.rc = 3
                             /\ a.code = "INVALID_PIN" => a.rc = chipRc[k] - 1
<1>1. chipRc[k] \in 0 .. 3 /\ canOpen[k] \in BOOLEAN
  BY DEF CardTypeOK
<1>2. CASE id = "CAN"
  BY <1>1, <1>2 DEF ChipAnswer, Codes
<1>3. CASE id = "PUK"
  BY <1>1, <1>3 DEF ChipAnswer, Codes
<1>4. CASE id \notin {"CAN", "PUK"}
  <2>1. CASE chipRc[k] = 0 \/ (chipRc[k] = 1 /\ ~canOpen[k])
    <3>1. ChipAnswer(k, id, word)
            = [code |-> "PROTOCOL_ERROR", rc |-> chipRc[k], can |-> canOpen[k]]
      BY <1>4, <2>1 DEF ChipAnswer
    <3> QED BY <1>1, <1>4, <3>1 DEF Codes
  <2>2. CASE ~(chipRc[k] = 0 \/ (chipRc[k] = 1 /\ ~canOpen[k])) /\ word = k
    <3>1. ChipAnswer(k, id, word) = [code |-> "OK", rc |-> 3, can |-> FALSE]
      BY <1>4, <2>2 DEF ChipAnswer
    <3> QED BY <1>4, <3>1 DEF Codes
  <2>3. CASE ~(chipRc[k] = 0 \/ (chipRc[k] = 1 /\ ~canOpen[k])) /\ word # k
    <3>1. ChipAnswer(k, id, word) = [code |-> "INVALID_PIN", rc |-> chipRc[k] - 1, can |-> FALSE]
      BY <1>4, <2>3 DEF ChipAnswer
    <3>2. chipRc[k] - 1 \in 0 .. 3
      BY <1>1, <2>3
    <3> QED BY <1>4, <3>1, <3>2 DEF Codes
  <2> QED BY <2>1, <2>2, <2>3
<1> QED BY <1>2, <1>3, <1>4

(* The answer carries on what the command said.                            *)
LEMMA AnswerIs ==
  ASSUME NEW c \in Command, NEW code \in Codes
  PROVE  /\ Answer(c, code) \in Reply
         /\ Answer(c, code).kind = c.op /\ Answer(c, code).id = c.id
         /\ Answer(c, code).code = code /\ Answer(c, code).conn = c.conn
BY DEF Answer, Command, Reply

(* The chip has looked at a password: its answer tells the connection what *)
(* it has to know.                                                         *)
LEMMA ChipPromise ==
  ASSUME TypeOK, Trusted, Trusted', conn' = conn,
         NEW c \in Command, c = Head(cmds), c.conn, c.op \in PaceReply, Fits(c.op, c.id),
         NEW r, r = conn.reader, NEW word, ChipWorks(r, c.id, word),
         conn.rc = ChipRc, Rel(conn.can), c.op = "UNBLOCK" => ChipRc = 0
  PROVE  \E m \in Reply : /\ msgs' = Append(msgs, m) /\ m.kind \in PaceReply
                          /\ Promise(m)' /\ OwnRc' = OwnRc
<1> DEFINE k == slot[r]
           a == ChipAnswer(k, c.id, word)
           m == Answer(c, a.code)
<1>1. CardTypeOK /\ r \in Readers /\ k \in Cards /\ conn # NoConn
  BY ChipRcRange DEF TypeOK, Trusted
<1>2. slot'[r] # NoCard
  BY <1>1 DEF Trusted, OwnCard, Reach
<1>3. /\ msgs' = Append(msgs, m) /\ UNCHANGED <<slot, rd>>
      /\ chipRc' = [chipRc EXCEPT ![k] = a.rc] /\ canOpen' = [canOpen EXCEPT ![k] = a.can]
  <2>1. ~(slot' = [slot EXCEPT ![r] = NoCard])
    BY <1>1, <1>2 DEF CardTypeOK
  <2> QED BY <2>1 DEF ChipWorks, Finish, worldVars
<1>4. /\ a.code \in Codes /\ a.rc \in 0 .. 3 /\ a.can \in BOOLEAN
      /\ a.code \notin {"INVALID_PIN_2", "INVALID_PIN_3"}
      /\ c.id = "CAN" => /\ a.rc = chipRc[k] /\ a.code # "INVALID_PIN"
                         /\ a.can <=> a.code = "OK"
      /\ c.id = "PUK" => /\ a.code \in {"OK", "INVALID_PUK"} /\ ~a.can
                         /\ a.rc = IF a.code = "OK" THEN 3 ELSE chipRc[k]
      /\ c.id = "PIN" => /\ a.code \in {"PROTOCOL_ERROR", "OK", "INVALID_PIN"}
                         /\ a.code # "PROTOCOL_ERROR" => ~a.can
                         /\ a.code = "PROTOCOL_ERROR" => a.rc = chipRc[k]
                         /\ a.code = "OK" => a.rc = 3
                         /\ a.code = "INVALID_PIN" => a.rc = chipRc[k] - 1
  BY <1>1, ChipResult
<1>5. ChipRc = chipRc[k] /\ ChipRc' = a.rc /\ ChipCan' = a.can /\ OwnRc' = OwnRc
      /\ ChipRc \in 0 .. 3
  BY <1>1, <1>3, <1>4 DEF ChipRc, ChipCan, OwnRc, CardTypeOK
<1>6. PICK n \in Reply : /\ n = m /\ n.kind = c.op /\ n.id = c.id /\ n.code = a.code
                        /\ n.conn
  BY <1>4, AnswerIs
<1>7. \/ c.op = "UNBLOCK" /\ c.id = "PUK"
      \/ c.op = "PACE" /\ c.id \in {"PIN", "CAN"}
  BY DEF Fits, PaceReply
<1> HIDE DEF k, a, m
<1>8. /\ n.kind # "PACE" => WithPaceResult(conn, n) = conn
      /\ n.kind = "PACE" /\ n.id = "CAN" => (WithPaceResult(conn, n).can <=> n.code = "OK")
      /\ n.kind = "PACE" /\ n.id # "CAN" =>
           (WithPaceResult(conn, n).can <=> conn.can /\ n.code = "OK")
  BY <1>1, <1>6, ResultCan
<1>9. WithPaceResult(conn, n)' = WithPaceResult(conn, n)
  BY DEF WithPaceResult
<1>10. a.code \notin Unrecoverable => Rel(WithPaceResult(conn, n).can)'
  <2>1. CASE c.id = "PUK"
    BY <1>4, <1>5, <1>6, <1>7, <1>8, <1>9, <2>1 DEF Rel
  <2>2. CASE c.id = "CAN"
    BY <1>4, <1>5, <1>6, <1>7, <1>8, <1>9, <2>2 DEF Rel
  <2>3. CASE c.id = "PIN"
    BY <1>4, <1>5, <1>6, <1>7, <1>8, <1>9, <2>3 DEF Rel, Unrecoverable
  <2> QED BY <1>7, <2>1, <2>2, <2>3
<1>11. a.code = "INVALID_PIN" => conn.rc = a.rc + 1
  BY <1>4, <1>5, <1>7
<1>12. c.id = "CAN" => conn.rc = a.rc
  BY <1>4, <1>5
<1>13. Promise(n)'
  BY <1>4, <1>5, <1>6, <1>7, <1>10, <1>11, <1>12 DEF Promise, PaceReply
<1> QED BY <1>3, <1>5, <1>6, <1>13

(* A password goes to the card ...                                         *)
LEMMA TrustPassword ==
  ASSUME TypeOK, CallsOwn, OneCall, Trusted, Trusted', StageInv, QueueInv,
         UNCHANGED paceVars, Execute, ExecuteEstablishPaceChannel \/ ExecuteUnblockPin
  PROVE  StageInv' /\ QueueInv'
<1>1. PICK c : c = Head(cmds)
  OBVIOUS
<1>2. c.op \in PaceReply /\ c.op \in CallOps /\ UNCHANGED <<st, busy, idType>>
  BY <1>1
     DEF ExecuteEstablishPaceChannel, ExecuteUnblockPin, Executes, CallOps, PaceReply, paceVars,
         controlVars, contextVars
<1>3. /\ c \in Command /\ c.reader = conn.reader /\ c.conn /\ WaitsFor(c.op) /\ Fits(c.op, c.id)
      /\ Said(msgs) = {} /\ NewsFrom(msgs) = {} /\ conn.rc = OwnRc
      /\ Asked(CallOps, cmds') = {} /\ Asked(CallOps, cmds) # {} /\ msgs \in Seq(Messages)
  BY <1>1, <1>2, AskedCard
<1>4. PICK r : r = conn.reader
  OBVIOUS
<1>5. /\ CardTypeOK /\ r \in Readers /\ conn # NoConn /\ Reach(r) /\ slot[r] \in Cards
      /\ conn' = conn /\ slot'[r] # NoCard
  BY <1>4, Answered DEF TypeOK, Trusted, CardTypeOK, Connection, OwnCard, Reach
<1>6. Waits("EstablishPaceChannel") /\ Unanswered
  BY <1>2, <1>3 DEF WaitsFor, PaceReply, Waits, Unanswered
<1>7. conn.rc = ChipRc /\ Rel(conn.can)
  BY <1>6 DEF StageInv, CounterRight, CanRight, Unanswered, Closing
<1>8. StageInv'
  <2>1. st' = "EstablishPaceChannel" /\ busy' /\ ~Unanswered'
    BY <1>2, <1>3, <1>6 DEF Waits, Unanswered
  <2> QED BY <2>1 DEF StageInv, CounterRight, CounterExpected, CanRight, WishRight, Runs
<1>9. Fits(c.op, c.id) /\ c.conn
  BY <1>3
<1>10. ASSUME NEW word, ChipWorks(r, c.id, word), c.op = "UNBLOCK" => ChipRc = 0
       PROVE  QueueInv'
  <2>1. PICK m \in Reply : /\ msgs' = Append(msgs, m) /\ m.kind \in PaceReply
                           /\ Promise(m)' /\ OwnRc' = OwnRc
    BY <1>1, <1>2, <1>3, <1>4, <1>5, <1>7, <1>10, ChipPromise
  <2> QED BY <1>3, <1>5, <2>1, EventsReplies, QueueGrows
<1>11. ASSUME NEW code \in Unrecoverable \cup {"PIN_NOT_BLOCKED"}, Finish(code),
              UnchangedByCommand, code = "PIN_NOT_BLOCKED" => c.op = "UNBLOCK"
       PROVE  QueueInv'
  <2>1. PICK m \in Reply : m = Answer(c, code) /\ m.kind = c.op /\ m.code = code
                           /\ m.conn /\ m.id = c.id
    <3>1. code \in Codes
      BY <1>11 DEF Unrecoverable, Codes
    <3> QED BY <1>2, <1>3, <3>1, AnswerIs
  <2>2. msgs' = Append(msgs, m)
    BY <1>1, <1>11, <2>1 DEF Finish
  <2>3. OwnRc' = OwnRc /\ ChipRc' = ChipRc /\ ChipCan' = ChipCan
    BY <1>5, <1>11 DEF UnchangedByCommand, worldVars, chipVars, OwnRc, ChipRc, ChipCan
  <2>4. code = "PIN_NOT_BLOCKED" => WithPaceResult(conn, m) = conn
    BY <1>5, <1>11, <2>1, ResultCan
  <2>5. WithPaceResult(conn, m)' = WithPaceResult(conn, m)
    BY <1>5 DEF WithPaceResult
  <2>6. m.code \notin Unrecoverable => Rel(WithPaceResult(conn, m).can)'
    BY <1>7, <1>11, <2>1, <2>3, <2>4, <2>5 DEF Rel
  <2>7. m.code \notin {"INVALID_PIN", "INVALID_PIN_2", "INVALID_PIN_3"}
    BY <1>11, <2>1 DEF Unrecoverable
  <2>8. Promise(m)'
    BY <1>2, <1>5, <1>7, <2>1, <2>3, <2>6, <2>7 DEF Promise, PaceReply
  <2> QED BY <1>2, <1>3, <1>5, <2>1, <2>2, <2>3, <2>8, EventsReplies, QueueGrows DEF PaceReply
<1>12. Reach(r) /\ rd[r].obj
  BY <1>5 DEF Reach
<1>13. CASE ExecuteEstablishPaceChannel
  <2>1. c.op = "PACE"
    BY <1>1, <1>13 DEF ExecuteEstablishPaceChannel, Executes
  <2>2. \/ \E code \in {"CANCELLATION_BY_USER", "INPUT_TIME_OUT"} :
             Finish(code) /\ UnchangedByCommand
        \/ \E word : ChipWorks(r, c.id, word)
    BY <1>1, <1>3, <1>4, <1>12, <1>13 DEF ExecuteEstablishPaceChannel
  <2> QED BY <1>8, <1>10, <1>11, <2>1, <2>2 DEF Unrecoverable
<1>14. CASE ExecuteUnblockPin
  <2>1. c.op = "UNBLOCK" /\ c.id = "PUK"
    BY <1>1, <1>3, <1>14 DEF ExecuteUnblockPin, Executes, Fits
  <2>2. \/ Finish("PIN_NOT_BLOCKED") /\ UnchangedByCommand
        \/ Finish("PUK_INOPERATIVE") /\ UnchangedByCommand
        \/ rd[r].rc <= 0 /\ \E word : ChipWorks(r, c.id, word)
    BY <1>1, <1>3, <1>4, <1>12, <1>14, <2>1 DEF ExecuteUnblockPin
  <2>3. rd[r].rc <= 0 => ChipRc = 0
    BY <1>3, <1>4, <1>5, <1>7, ChipRcRange DEF OwnRc
  <2> QED BY <1>8, <1>10, <1>11, <2>1, <2>2, <2>3 DEF Unrecoverable
<1> QED BY <1>8, <1>13, <1>14

(* ... the channel is closed, a new PIN is set.                            *)
LEMMA TrustOther ==
  ASSUME TypeOK, CallsOwn, OneCall, Trusted, Trusted', StageInv, QueueInv,
         UNCHANGED paceVars, Execute, ExecuteDestroyPaceChannel \/ ExecuteSetEidPin
  PROVE  StageInv' /\ QueueInv'
<1>1. PICK c : c = Head(cmds)
  OBVIOUS
<1>2. c.op \in {"DESTROY", "SET_PIN"} /\ c.op \in CallOps /\ UNCHANGED <<st, busy>>
  BY <1>1
     DEF ExecuteDestroyPaceChannel, ExecuteSetEidPin, Executes, CallOps, paceVars, controlVars
<1>3. /\ c \in Command /\ WaitsFor(c.op) /\ Said(msgs) = {} /\ Asked(CallOps, cmds') = {}
      /\ msgs \in Seq(Messages)
  BY <1>1, <1>2, AskedCard
<1>4. /\ CardTypeOK /\ conn # NoConn /\ conn' = conn
      /\ UNCHANGED <<slot, rd, chipRc>>
  BY Answered DEF TypeOK, Trusted, ExecuteDestroyPaceChannel, ExecuteSetEidPin, worldVars
<1>5. OwnRc' = OwnRc /\ ChipRc' = ChipRc
  BY <1>4 DEF OwnRc, ChipRc
<1>6. StageInv'
  <2>1. CASE ExecuteDestroyPaceChannel
    <3>1. c.op = "DESTROY"
      BY <1>1, <2>1 DEF ExecuteDestroyPaceChannel, Executes
    <3>2. st' \in {"DestroyPace", "DestroyPaceAfterPuk"}
      BY <1>2, <1>3, <3>1 DEF WaitsFor, Waits
    <3> QED BY <3>2
        DEF StageInv, CounterRight, CounterExpected, CanRight, WishRight, Unanswered, Runs, Closing
  <2>2. CASE ExecuteSetEidPin
    <3>1. ChipCan' = ChipCan
      BY <1>4, <2>2 DEF ExecuteSetEidPin, ChipCan
    <3> QED BY <1>3, <1>4, <1>5, <3>1, StageEnvironment
  <2> QED BY <2>1, <2>2
<1>7. PICK m \in Reply : m.kind = c.op /\ msgs' = Append(msgs, m)
  BY <1>1, <1>2, <1>4, Answered
     DEF ExecuteDestroyPaceChannel, ExecuteSetEidPin, ExecuteDrop, ExecuteUpdateRetryCounter,
         Executes
<1>8. Promise(m)'
  BY <1>2, <1>7 DEF Promise, PaceReply
<1> QED BY <1>3, <1>4, <1>5, <1>6, <1>7, <1>8, EventsReplies, QueueGrows

(* A new connection knows the card.                                        *)
LEMMA TrustClaims ==
  ASSUME TypeOK, ConnInv, Going, OneCall, Trusted', Claims
  PROVE  StageInv' /\ QueueInv'
<1>1. PICK m : m = Head(msgs)
  OBVIOUS
<1>2. PICK r : r = m.reader
  OBVIOUS
<1>3. /\ CardTypeOK /\ msgs \in Seq(Messages) /\ msgs # <<>> /\ msgs' = Tail(msgs)
      /\ conn = NoConn /\ Waits("ConnectCard") /\ UNCHANGED <<st, busy, slot, rd, chipRc, canOpen>>
      /\ conn' = [reader |-> r, rc |-> rd[r].rc, can |-> FALSE, pin |-> FALSE, listening |-> FALSE]
  BY <1>1, <1>2 DEF TypeOK, CardTypeOK, Messages, Claims, Still
<1>4. conn'.reader = r /\ conn'.rc = rd[r].rc /\ ~conn'.can /\ st' = "ConnectCard"
  BY <1>3 DEF Waits
<1>5. conn' # NoConn /\ slot[r] \in Cards
  <2>1. OwnCard(r)' /\ conn' # NoConn
    BY <1>4 DEF Trusted, OwnCard, Reach, Unclaimed
  <2>2. r \in Readers
    <3>1. m \in Messages
      BY <1>1, <1>3, HeadTailProperties
    <3> QED BY <1>2, <3>1 DEF Messages, Reply, Event
  <2> QED BY <1>3, <2>1, <2>2 DEF OwnCard, Reach, CardTypeOK
<1>6. ~canOpen[slot[r]]
  BY <1>3, <1>5 DEF ConnInv, CanOwned
<1>7. OwnRc' = conn'.rc /\ ~ChipCan'
  BY <1>3, <1>4, <1>6 DEF OwnRc, ChipCan
<1>8. StageInv'
  BY <1>4, <1>7
     DEF StageInv, CounterRight, CounterExpected, CanRight, WishRight, Rel, Unanswered, Runs
<1>9. NewsFrom(msgs') = {}
  BY <1>3, LinkFree, NewsQueue DEF ConnInv, LinkInv
<1>10. Said(msgs') = {}
  BY <1>3, NothingUnderWay, CallQueues DEF Waits
<1>11. At(News, msgs') = {}
  BY <1>9 DEF NewsFrom
<1> QED BY <1>7, <1>8, <1>10, <1>11 DEF QueueInv, Informed

(* What the workflow knows of a card it reaches over its own handle is     *)
(* right as long as the counter could be read.                             *)
LEMMA NextTrust ==
  ASSUME ~CanAllowedMode, TypeOK, HandleInv, SlotInv, ConnInv, CallInv, TrustInv, [Next]_allVars
  PROVE  TrustInv'
<1> SUFFICES ASSUME Trusted' PROVE StageInv' /\ QueueInv'
  BY DEF TrustInv
<1>1. /\ CardTypeOK /\ SelectsFree /\ LinkInv /\ Connected /\ CallsOwn
  BY DEF TypeOK, HandleInv, ConnInv, LinkInv
<1>2. CASE MainThread \/ User
  <2>1. MainStep
    BY <1>1, <1>2, MainSteps
  <2>2. Going' /\ Going /\ OneCall
    BY <1>2, GoingStays DEF Trusted, CallInv
  <2>3. CASE Claims
    BY <2>2, <2>3, TrustClaims
  <2>4. CASE ~Claims
    <3>1. Trusted /\ ~Closes
      BY <1>1, <1>2, <2>1, <2>4, TrustedBefore
    <3>2. StageInv /\ QueueInv
      BY <3>1 DEF TrustInv
    <3>3. CallsSettled
      BY <2>1, <2>2, MainCalls
    <3>4. QueueInv'
      BY <2>1, <2>2, <2>4, <3>1, <3>2, <3>3, QueueMain
    <3>5. CASE RunPace
      BY <1>1, <2>1, <3>1, <3>2, <3>4, <3>5, StageRuns
    <3>6. CASE DeliverToPace \/ DeliverToChangePin
      BY <1>1, <2>1, <2>2, <2>4, <3>1, <3>2, <3>4, <3>6, StageDelivers
    <3>7. CASE RunChangePinWorkflow \/ User
      BY <1>1, <2>1, <3>1, <3>2, <3>4, <3>7, StageWorkflow
    <3> QED BY <1>2, <3>5, <3>6, <3>7 DEF MainThread
  <2> QED BY <2>3, <2>4
<1>3. CASE Environment
  <2>1. Trusted /\ conn' = conn /\ UNCHANGED paceVars
    BY <1>3, EnvironmentBefore
  <2>2. StageInv /\ QueueInv /\ OneCall
    BY <2>1 DEF TrustInv, CallInv, Trusted
  <2>3. CASE World \/ \E s \in Readers : Update(s)
    BY <2>1, <2>2, <2>3, TrustSlots
  <2>4. CASE Execute
    <3>1. CASE Head(cmds).op \notin CallOps
      BY <1>1, <2>1, <2>2, <2>4, <3>1, TrustHandles
    <3>2. CASE ExecuteUpdateRetryCounter
      BY <1>1, <2>1, <2>2, <2>4, <3>2, TrustUpdate
    <3>3. CASE ExecuteEstablishPaceChannel \/ ExecuteUnblockPin
      BY <1>1, <2>1, <2>2, <2>4, <3>3, TrustPassword
    <3>4. CASE ExecuteDestroyPaceChannel \/ ExecuteSetEidPin
      BY <1>1, <2>1, <2>2, <2>4, <3>4, TrustOther
    <3>5. ExecuteCreate \/ ExecuteDrop => Head(cmds).op \notin CallOps
      BY DEF ExecuteCreate, ExecuteDrop, Executes, CallOps
    <3> QED BY <2>4, <3>1, <3>2, <3>3, <3>4, <3>5 DEF Execute
  <2> QED BY <1>3, <2>3, <2>4 DEF Environment, ReaderThread
<1>4. CASE UNCHANGED allVars
  BY <1>4
     DEF allVars, cardVars, paceVars, controlVars, contextVars, TrustInv, Trusted, Going,
         OwnCard, Reach, Unclaimed, StageInv, QueueInv, CounterRight, CounterExpected, CanRight,
         WishRight, Rel, Right, Unanswered, Runs, OwnRc, ChipRc, ChipCan, Promise, Closing
<1> QED BY <1>2, <1>3, <1>4 DEF Next, Terminated

LEMMA InitTrust == Init => TrustInv
BY DEF Init, CardInit, TrustInv, Trusted

(* Only StateEstablishPaceChannel posts a password.                        *)
LEMMA PostsPassword ==
  ASSUME TypeOK, MainThread \/ User, ~busy, Waits("EstablishPaceChannel")'
  PROVE  RunEstablishPaceChannel
<1> USE DEF Runs, Waits, Goto, Wait, Delivers, AtRest, Interactive
<1>1. st' = "EstablishPaceChannel" /\ busy'
  OBVIOUS
<1>2. CASE RunPace
  BY <1>1, <1>2
     DEF RunPace, RunMaintainCardConnection, MaintainAborts, MaintainAfterWrongPassword,
         MaintainAfterCardGone, MaintainProceeds, RunClearPacePasswordsOnError,
         RunSelectReader, SelectReaderNow, RunConnectCard, FinishConnectCard,
         RunUpdateRetryCounter, RunUpdate, RunVerifyRetryCounter, RunPreparePace, Demand,
         RunUnfortunateCardPosition, RunClearPacePasswordsBeforeDestroy,
         RunDestroyPaceAfterPuk, RunDestroy
<1>3. CASE DeliverToPace \/ DeliverToChangePin
  BY <1>1, <1>3
     DEF DeliverToPace, DeliverToChangePin, DeliverCall, DeliverCreate, DeliverEvent,
         SelectReaderNow, DeliverUpdateRetryCounter, DeliverUpdate, DeliverPace, DeliversPace,
         DeliverDestroyPaceAfterPuk, DeliverDestroy, DeliverStale, DeliverSetEidPin,
         DeliverDestroyPace, DeliverUpdateRetryCounterFinal, paceVars, controlVars
<1>4. CASE RunChangePinWorkflow
  BY <1>1, <1>4
     DEF RunChangePinWorkflow, Leads, PaceChannelEstablished, PacePukEstablished, PaceAbort,
         RunPrepareChangePin, RunChangePin, RunDestroyPace, RunDestroy, RunClearPacePasswords,
         RunUpdateRetryCounterFinal, RunUpdate, RunCleanUpReaderManager, CleanUpReaderManager,
         CancelKilled, KillCancels, OnUserCancelled
<1>5. CASE User
  BY <1>1, <1>5
     DEF User, EnterPacePassword, EnterNewPacePin, RunFinalState, RetryCardSelection, Cancel,
         UserCancels, OnUserCancelled, Kill
<1> QED BY <1>2, <1>3, <1>4, <1>5 DEF MainThread

(* The main thread keeps the PIN only with the counter it belongs to, and  *)
(* forgets the rejections only when the user enters a PIN.                 *)
KeepsPin ==
  \/ /\ blame' = blame
     /\ pw'["PIN"] # NoPassword => pw'["PIN"] = pw["PIN"] /\ expRc' \in {expRc, 3}
  \/ blame' = [c \in Cards |-> 0]

(* No other step of the states touches the PIN or the counter it is kept   *)
(* for.                                                                    *)
LEMMA RunKeepsPin ==
  ASSUME TypeOK, RunPace
  PROVE  KeepsPin
<1>1. "PIN" \in Secrets /\ NoPasswords["PIN"] = NoPassword
  BY DEF Secrets, NoPasswords
<1>2. RunVerifyRetryCounter => KeepsPin
  BY <1>1 DEF RunVerifyRetryCounter, CounterAsExpected, ResetPacePasswords, KeepsPin,
              UnchangedReader, cardVars
<1>3. ASSUME RunPace, ~RunVerifyRetryCounter PROVE KeepsPin
  BY <1>1, <1>3
     DEF KeepsPin, RunPace, RunMaintainCardConnection, MaintainAborts, MaintainAfterWrongPassword,
         MaintainAfterCardGone, MaintainProceeds, ResetCardConnection, ResetPacePasswords,
         RunClearPacePasswordsOnError, RunSelectReader, RunConnectCard, FinishConnectCard,
         RunUpdateRetryCounter, RunUpdate, PostUpdateRetryCounter, Post, RunPreparePace,
         RunEstablishPaceChannel, EstablishWithoutPassword, EstablishWithPassword,
         RunUnfortunateCardPosition, RunClearPacePasswordsBeforeDestroy,
         RunDestroyPaceAfterPuk, RunDestroy, UnchangedReader, cardVars, chipVars, contextVars
<1> QED BY <1>2, <1>3

LEMMA DeliverKeepsPin ==
  ASSUME TypeOK, DeliverToPace \/ DeliverToChangePin
  PROVE  KeepsPin
<1>1. "PIN" \in Secrets /\ NoPasswords["PIN"] = NoPassword
  BY DEF Secrets, NoPasswords
<1>2. CASE DeliverPace
  <2>1. CASE PaceDone
    <3>1. blame' = blame
      BY <2>1 DEF PaceDone, chipVars
    <3>2. CASE Head(msgs).id = "PUK"
      BY <1>1, <2>1, <3>1, <3>2 DEF PaceDone, KeepsPin
    <3>3. CASE Head(msgs).id # "PUK"
      <4>1. pw' = pw /\ expRc' \in {expRc, 3}
        BY <2>1, <3>3 DEF PaceDone
      <4> QED BY <3>1, <4>1 DEF KeepsPin
    <3> QED BY <3>2, <3>3
  <2>2. CASE PaceCardGone
    BY <2>2 DEF PaceCardGone, ResetCardConnection, KeepsPin
  <2>3. CASE PaceFailed
    BY <2>3 DEF PaceFailed, chipVars, KeepsPin
  <2> QED BY <1>2, <2>1, <2>2, <2>3 DEF DeliverPace
<1>3. CASE ~DeliverPace
  BY <1>3
     DEF DeliverToPace, DeliverToChangePin, DeliverCall, DeliverCreate, DeliverEvent,
         DeliverUpdateRetryCounter, DeliverUpdate, DeliverDestroyPaceAfterPuk, DeliverDestroy,
         DeliverStale, DeliverSetEidPin, DeliverDestroyPace, DeliverUpdateRetryCounterFinal,
         ResetCardConnection, paceVars, contextVars, chipVars, KeepsPin
<1> QED BY <1>2, <1>3

LEMMA WorkflowKeepsPin ==
  ASSUME TypeOK, Connected, RunChangePinWorkflow \/ User
  PROVE  KeepsPin
<1>1. /\ "PIN" \in Secrets /\ "NEW_PIN" \in Secrets /\ NoPasswords["PIN"] = NoPassword
      /\ pw \in [Secrets -> Passwords \cup {NoPassword}]
  BY DEF Secrets, NoPasswords, TypeOK, ContextTypeOK
<1>2. CASE RunChangePinWorkflow
  BY <1>1, <1>2
     DEF RunChangePinWorkflow, Leads, PaceChannelEstablished, PacePukEstablished, PaceAbort,
         RunPrepareChangePin, RunChangePin, RunDestroyPace, RunDestroy, RunClearPacePasswords,
         ResetPacePasswords, RunUpdateRetryCounterFinal, RunUpdate, PostUpdateRetryCounter, Post,
         RunCleanUpReaderManager, CleanUpReaderManager, CancelKilled, KillCancels,
         OnUserCancelled, UnchangedReader, cardVars, chipVars, contextVars, KeepsPin
<1>3. CASE EnterPacePassword
  <2>1. st = "EnterPacePassword" /\ idType \in {"PIN", "CAN", "PUK"} /\ expRc' = expRc
    BY <1>3 DEF EnterPacePassword, Runs, Connected
  <2>2. CASE UNCHANGED <<pw, blame>>
    BY <2>1, <2>2 DEF KeepsPin
  <2>3. CASE idType = "PIN" /\ blame' = [c \in Cards |-> 0]
    BY <2>3 DEF KeepsPin
  <2>4. ASSUME NEW word \in Passwords, idType # "PIN", blame' = blame,
               pw' = [pw EXCEPT ![idType] = word]
        PROVE  KeepsPin
    <3>1. pw'["PIN"] = pw["PIN"]
      BY <1>1, <2>4
    <3> QED BY <2>1, <2>4, <3>1 DEF KeepsPin
  <2> QED BY <1>3, <2>2, <2>3, <2>4 DEF EnterPacePassword
<1>4. CASE EnterNewPacePin
  <2>1. blame' = blame /\ expRc' = expRc /\ pw'["PIN"] = pw["PIN"]
    BY <1>1, <1>4 DEF EnterNewPacePin, UnchangedReader, cardVars
  <2> QED BY <2>1 DEF KeepsPin
<1>5. CASE RunFinalState \/ RetryCardSelection \/ Cancel \/ Kill
  BY <1>5
     DEF RunFinalState, RetryCardSelection, Cancel, UserCancels, OnUserCancelled, Kill,
         UnchangedReader, cardVars, chipVars, contextVars, KeepsPin
<1> QED BY <1>2, <1>3, <1>4, <1>5 DEF User

(* The main thread never undoes a failed reading, and the chip's counter   *)
(* is not its business.                                                    *)
LEMMA MainFailures ==
  ASSUME CardTypeOK, MainStep, readerName \in Readers \cup {NoReader}
  PROVE  /\ failures' = 0 => failures = 0
         /\ chipRc' = chipRc
<1>1. failures \in Nat
  BY DEF CardTypeOK
<1>2. CASE ~Closes
  BY <1>1, <1>2
     DEF MainStep, Kept, Asks, Silences, Claims, FinishConnectCard, Forwards, Learns,
         TakesAnswer, Still, Post, worldVars, chipVars
<1>3. CASE Closes
  <2>1. /\ chipRc' = chipRc /\ failures' \in {failures, failures + 1}
    BY <1>3 DEF Closes, ResetCardConnection, RunCleanUpReaderManager, CleanUpReaderManager
  <2> QED BY <1>1, <2>1
<1> QED BY <1>2, <1>3

(* The main thread keeps a rejected PIN only with a counter the card no    *)
(* longer has.                                                             *)
LEMMA BlameMain ==
  ASSUME TypeOK, SelectsFree, LinkInv, Connected, Behind, failures = 0 => RejectedOnce,
         MainThread \/ User
  PROVE  Behind' /\ (failures = 0 => RejectedOnce)'
<1>1. /\ CardTypeOK /\ readerName \in Readers \cup {NoReader}
      /\ blame \in [Cards -> Nat] /\ chipRc \in [Cards -> 0 .. 3]
      /\ expRc \in RetryCounters
  BY DEF TypeOK, CardTypeOK, ContextTypeOK
<1>2. chipRc' = chipRc /\ (failures' = 0 => failures = 0)
  BY <1>1, MainSteps, MainFailures
<1>3. KeepsPin
  BY RunKeepsPin, DeliverKeepsPin, WorkflowKeepsPin DEF MainThread
<1>4. Going' => Going
  BY GoingStays
<1>5. CASE blame' = [c \in Cards |-> 0]
  BY <1>5 DEF Behind, RejectedOnce
<1>6. CASE /\ blame' = blame
           /\ pw'["PIN"] # NoPassword => pw'["PIN"] = pw["PIN"] /\ expRc' \in {expRc, 3}
  <2>1. (\A c \in Cards : blame[c] >= 1 => chipRc[c] < 3)'
    BY <1>2, <1>6 DEF Behind
  <2>2. ASSUME Going', failures' = 0, NEW c \in Cards, blame'[c] >= 1, pw'["PIN"] # NoPassword
        PROVE  chipRc'[c] < expRc'
    BY <1>2, <1>4, <1>6, <2>2 DEF Behind
  <2>3. Behind'
    BY <2>1, <2>2 DEF Behind
  <2>4. failures' = 0 => RejectedOnce'
    BY <1>2, <1>6 DEF RejectedOnce
  <2> QED BY <2>3, <2>4
<1> QED BY <1>3, <1>5, <1>6 DEF KeepsPin

(* A PIN under way stays one to be sent, while nothing is done to the card *)
(* it is for.                                                              *)
LEMMA SendableStays ==
  ASSUME CardTypeOK, Sendable, failures' = 0 => failures = 0, Fewer({"PACE"}, cmds', cmds),
         \A r \in Readers :
           OwnCard(r)' => /\ OwnCard(r) /\ slot'[r] = slot[r] /\ chipRc' = chipRc
                          /\ canOpen'[slot[r]] = canOpen[slot[r]]
                          /\ blame' = blame \/ blame' = [c \in Cards |-> 0]
  PROVE  Sendable'
<1>1. PICK k \in Nat : \A i \in Asked({"PACE"}, cmds') :
        i \in Nat /\ i + k \in Asked({"PACE"}, cmds) /\ SameCommand(cmds'[i], cmds[i + k])
  BY DEF Fewer
<1>2. cmds \in Seq(Command) /\ slot \in [Readers -> Cards \cup {NoCard}]
  BY DEF CardTypeOK
<1>3. ASSUME failures' = 0, NEW i \in Asked({"PACE"}, cmds'), cmds'[i].id = "PIN",
             NEW r, r = cmds'[i].reader, OwnCard(r)'
      PROVE  LooksAtPin(r)' /\ (r \in BasicReaders => blame'[slot'[r]] = 0)
  <2>1. /\ i + k \in Asked({"PACE"}, cmds) /\ cmds[i + k].id = "PIN" /\ cmds[i + k].reader = r
    BY <1>1, <1>3 DEF SameCommand
  <2>2. r \in Readers
    <3>1. cmds[i + k] \in Command
      BY <1>2, <2>1, ElementOfSeq DEF Asked
    <3> QED BY <2>1, <3>1 DEF Command
  <2>3. /\ OwnCard(r) /\ slot'[r] = slot[r] /\ chipRc' = chipRc
        /\ canOpen'[slot[r]] = canOpen[slot[r]]
        /\ blame' = blame \/ blame' = [c \in Cards |-> 0]
    BY <1>3, <2>2
  <2>4. LooksAtPin(r) /\ (r \in BasicReaders => blame[slot[r]] = 0)
    BY <1>3, <2>1, <2>3 DEF Sendable
  <2>5. slot[r] \in Cards
    BY <1>2, <2>2, <2>3 DEF OwnCard, Reach
  <2> QED BY <2>3, <2>4, <2>5 DEF LooksAtPin
<1>4. ASSUME failures' = 0, NEW i \in Asked({"PACE"}, cmds'), cmds'[i].id = "PIN",
             OwnCard(cmds[i].reader)'
      PROVE  /\ LooksAtPin(cmds[i].reader)'
             /\ cmds'[i].reader \in BasicReaders => blame'[slot'[cmds'[i].reader]] = 0
  <2>1. PICK r : r = cmds'[i].reader
    OBVIOUS
  <2>2. OwnCard(r)'
    BY <1>4, <2>1 DEF OwnCard, Reach, Unclaimed
  <2>3. LooksAtPin(r)' /\ (r \in BasicReaders => blame'[slot'[r]] = 0)
    BY <1>3, <1>4, <2>1, <2>2
  <2> QED BY <2>1, <2>3 DEF LooksAtPin
<1> QED BY <1>4 DEF Sendable

(* ... in the main thread, which posts a PIN only for a card that looks at *)
(* it and has not rejected it ...                                          *)
LEMMA SendableMain ==
  ASSUME TypeOK, SelectsFree, LinkInv, Connected, CallInv, TrustInv, Behind, Sendable,
         MainThread \/ User
  PROVE  Sendable'
<1>1. /\ CardTypeOK /\ readerName \in Readers \cup {NoReader} /\ cmds \in Seq(Command)
      /\ MainStep /\ KeepsPin
  BY MainSteps, RunKeepsPin, DeliverKeepsPin, WorkflowKeepsPin DEF TypeOK, CardTypeOK, ContextTypeOK, MainThread
<1>2. chipRc' = chipRc /\ (failures' = 0 => failures = 0)
  BY <1>1, MainFailures
<1>3. CASE Closes \/ Claims
  <2>1. cmds' = <<>>
    BY <1>3 DEF Closes, Claims, ResetCardConnection, RunCleanUpReaderManager, CleanUpReaderManager
  <2> QED BY <2>1 DEF Sendable, Asked
<1>4. CASE ~Closes /\ ~Claims
  <2>1. UNCHANGED <<slot, canOpen>>
    BY <1>1, <1>4
       DEF MainStep, Kept, Asks, Silences, FinishConnectCard, Forwards, Learns, TakesAnswer,
           Still, Post, worldVars, chipVars
  <2>2. \A r \in Readers :
          OwnCard(r)' => /\ OwnCard(r) /\ slot'[r] = slot[r] /\ chipRc' = chipRc
                         /\ canOpen'[slot[r]] = canOpen[slot[r]]
                         /\ blame' = blame \/ blame' = [c \in Cards |-> 0]
    BY <1>1, <1>2, <1>4, <2>1, MainOwnBefore DEF KeepsPin
  <2>3. /\ Fewer({"PACE"}, cmds, cmds) /\ Fewer({"PACE"}, Disown(cmds), cmds)
        /\ \A c : c.op # "PACE" => Fewer({"PACE"}, Append(cmds, c), cmds)
    BY <1>1, FewerCommands
  <2>4. CASE Fewer({"PACE"}, cmds', cmds)
    BY <1>1, <1>2, <2>2, <2>4, SendableStays
  <2>5. CASE ~Fewer({"PACE"}, cmds', cmds)
    <3>1. Asks
      BY <1>1, <1>4, <2>3, <2>5
         DEF MainStep, Kept, Silences, FinishConnectCard, Forwards, Learns, TakesAnswer
    <3>2. PICK op \in CallOps, id \in PaceIds, word \in Passwords \cup {NoPassword} :
            /\ Fits(op, id) /\ Post(op, id, word)
            /\ WaitsFor(op)' \/ (op = "UPDATE_RC" /\ st' = "UpdateRetryCounterFinal")
      BY <3>1 DEF Asks
    <3>3. op = "PACE"
      BY <2>3, <2>5, <3>2 DEF Post
    <3>4. ~busy /\ Waits("EstablishPaceChannel")'
      BY <3>1, <3>2, <3>3 DEF Asks, WaitsFor
    <3>5. RunEstablishPaceChannel
      BY <3>4, PostsPassword
    <3>6. /\ Runs("EstablishPaceChannel") /\ Going /\ conn # NoConn /\ Unanswered
          /\ idType \in {"PIN", "CAN", "PUK"}
      BY <3>5 DEF RunEstablishPaceChannel, Going, AfterError, Connected, Runs, Unanswered
    <3>7. ~UNCHANGED cmds
      BY <2>3, <2>5
    <3>8. EstablishWithPassword
      BY <3>5, <3>6, <3>7
         DEF RunEstablishPaceChannel, EstablishWithoutPassword, UnchangedReader, cardVars
    <3> DEFINE e == [op |-> IF idType = "PUK" THEN "UNBLOCK" ELSE "PACE", reader |-> conn.reader,
                     id |-> idType, pw |-> Secret, mine |-> TRUE, conn |-> TRUE]
    <3>9. /\ cmds' = Append(cmds, e) /\ e.reader = conn.reader /\ e.id = idType
          /\ blame' = blame /\ (Secret # NoPassword \/ conn.reader \notin BasicReaders)
      BY <3>8 DEF EstablishWithPassword, Post, chipVars
    <3> HIDE DEF e
    <3>10. Asked(CallOps, cmds) = {}
      BY <1>1, <3>6, NothingUnderWay, CallQueues DEF CallInv, Runs
    <3>11. \A i \in Asked({"PACE"}, cmds') : cmds'[i] = e
      <4>1. Asked({"PACE"}, cmds) = {}
        BY <3>10 DEF Asked, CallOps
      <4> QED BY <1>1, <3>9, <4>1, OneMore
    <3>12. PICK r : r = conn.reader
      OBVIOUS
    <3>13. ASSUME failures' = 0, idType = "PIN", OwnCard(r)'
           PROVE  LooksAtPin(r)' /\ (r \in BasicReaders => blame'[slot'[r]] = 0)
      <4>1. r \in Readers
        BY <1>1, <3>6, <3>12 DEF CardTypeOK, Connection
      <4>2. OwnCard(r)
        BY <1>1, <1>4, <3>13, <4>1, MainOwnBefore
      <4>3. Trusted
        BY <1>2, <3>6, <3>12, <3>13, <4>2 DEF Trusted
      <4>4. /\ Right("PIN") /\ conn.rc = ChipRc /\ conn.rc = expRc
        BY <3>6, <3>13, <4>3 DEF TrustInv, StageInv, WishRight, CounterRight, CounterExpected
      <4>5. LooksAtPin(r)'
        BY <1>2, <2>1, <3>12, <4>4 DEF Right, LooksAtPin, ChipRc, ChipCan
      <4>6. slot[r] \in Cards /\ blame[slot[r]] \in Nat /\ chipRc[slot[r]] = expRc
            /\ expRc \in RetryCounters
        BY <1>1, <3>12, <4>1, <4>2, <4>4 DEF CardTypeOK, OwnCard, Reach, ChipRc, TypeOK, ContextTypeOK
      <4>7. r \in BasicReaders => pw["PIN"] # NoPassword
        BY <3>9, <3>12, <3>13 DEF Secret
      <4>8. ASSUME r \in BasicReaders, blame[slot[r]] >= 1 PROVE FALSE
        <5>1. chipRc[slot[r]] < expRc
          BY <1>2, <3>6, <3>13, <4>6, <4>7, <4>8 DEF Behind
        <5> QED BY <4>6, <5>1 DEF RetryCounters
      <4> QED BY <2>1, <3>9, <4>5, <4>6, <4>8
    <3>14. ASSUME failures' = 0, NEW i \in Asked({"PACE"}, cmds'), cmds'[i].id = "PIN",
                  OwnCard(cmds[i].reader)'
           PROVE  /\ LooksAtPin(cmds[i].reader)'
                  /\ cmds'[i].reader \in BasicReaders => blame'[slot'[cmds'[i].reader]] = 0
      <4>1. cmds'[i].reader = r /\ idType = "PIN"
        BY <3>9, <3>11, <3>12, <3>14
      <4>2. OwnCard(r)'
        BY <3>14, <4>1 DEF OwnCard, Reach, Unclaimed
      <4>3. LooksAtPin(r)' /\ (r \in BasicReaders => blame'[slot'[r]] = 0)
        BY <3>13, <3>14, <4>1, <4>2
      <4> QED BY <4>1, <4>3 DEF LooksAtPin
    <3> QED BY <3>14 DEF Sendable
  <2> QED BY <2>4, <2>5
<1> QED BY <1>3, <1>4

(* A command that asks nothing of the card leaves alone the card that is   *)
(* reached over the connection's own handle.                               *)
LEMMA HandlesApart ==
  ASSUME CardTypeOK, SlotInv, Execute, Head(cmds).op \notin CallOps,
         NEW r \in Readers, OwnCard(r)'
  PROVE  /\ OwnCard(r) /\ slot'[r] = slot[r] /\ rd'[r] = rd[r]
         /\ chipRc' = chipRc /\ blame' = blame /\ canOpen'[slot[r]] = canOpen[slot[r]]
<1>1. /\ cmds # <<>> /\ Head(cmds) \in Command
  BY Answered, FirstCommand
<1>2. ExecuteCreate \/ ExecuteDrop
  BY DEF Execute, Executes, ExecuteUpdateRetryCounter, ExecuteEstablishPaceChannel,
         ExecuteUnblockPin, ExecuteDestroyPaceChannel, ExecuteSetEidPin, CallOps
<1>3. ~ExecuteUpdateRetryCounter
  BY DEF ExecuteUpdateRetryCounter, Executes, CallOps
<1>4. OwnCard(r) /\ slot'[r] = slot[r] /\ rd'[r] = rd[r]
  BY <1>3, ExecuteOwnBefore
<1>5. CASE ExecuteCreate
  BY <1>4, <1>5 DEF ExecuteCreate, chipVars
<1>6. CASE ExecuteDrop
  <2> DEFINE s == Head(cmds).reader
  <2>1. /\ chipRc' = chipRc /\ blame' = blame /\ canOpen' = ResetChip(s, rd[s]) /\ s \in Readers
        /\ rd' = [rd EXCEPT ![s] = Closed(@)]
    BY <1>1, <1>6 DEF ExecuteDrop, Command
  <2> HIDE DEF s
  <2>2. r # s
    BY <2>1 DEF OwnCard, Reach, Closed, CardTypeOK, ReaderData
  <2>3. slot[s] # NoCard => slot[s] # slot[r]
    BY <2>1, <2>2 DEF SlotInv, SlotsApart
  <2>4. canOpen'[slot[r]] = canOpen[slot[r]]
    BY <1>4, <2>1, <2>3 DEF ResetChip, OwnCard, Reach, CardTypeOK
  <2> QED BY <1>4, <2>1, <2>4
<1> QED BY <1>2, <1>5, <1>6

(* ... and in the reader thread, which comes to a PIN only after what was  *)
(* posted before it.                                                       *)
LEMMA SendableExecute ==
  ASSUME TypeOK, SlotInv, SecretFirst, Sendable, Execute
  PROVE  Sendable'
<1>1. /\ CardTypeOK /\ cmds # <<>> /\ cmds' = Tail(cmds) /\ cmds \in Seq(Command)
      /\ failures \in Nat
  BY Answered DEF TypeOK, CardTypeOK
<1>2. failures' = 0 => failures = 0
  <2>1. failures' = failures \/ failures' = failures + 1
    BY DEF Execute, ExecuteCreate, ExecuteDrop, ExecuteUpdateRetryCounter, UnchangedByCommand,
           ExecuteEstablishPaceChannel, ExecuteUnblockPin, ExecuteDestroyPaceChannel,
           ExecuteSetEidPin, ChipWorks
  <2> QED BY <1>1, <2>1
<1>3. CASE Head(cmds).op \notin CallOps
  <2>1. Fewer({"PACE"}, cmds', cmds)
    BY <1>1, FewerCommands
  <2>2. \A r \in Readers :
          OwnCard(r)' => /\ OwnCard(r) /\ slot'[r] = slot[r] /\ chipRc' = chipRc
                         /\ canOpen'[slot[r]] = canOpen[slot[r]]
                         /\ blame' = blame \/ blame' = [c \in Cards |-> 0]
    BY <1>1, <1>3, HandlesApart
  <2> QED BY <1>1, <1>2, <2>1, <2>2, SendableStays
<1>4. CASE Head(cmds).op \in CallOps
  <2>1. 1 \in Asked(CallOps, cmds)
    BY <1>1, <1>4, LenProperties, HeadTailProperties DEF Asked
  <2>2. ASSUME NEW i \in Asked({"PACE"}, cmds') PROVE FALSE
    <3>1. i \in Nat /\ i >= 1 /\ i + 1 \in DOMAIN cmds /\ cmds[i + 1] = cmds'[i]
      BY <1>1, <2>2, LenProperties, HeadTailProperties DEF Asked
    <3>2. i + 1 \in Asked(CallOps, cmds) /\ cmds[i + 1].op = "PACE"
      BY <2>2, <3>1 DEF Asked, CallOps
    <3>3. 1 < i + 1
      BY <3>1
    <3> QED BY <2>1, <3>2, <3>3 DEF SecretFirst
  <2> QED BY <2>2 DEF Sendable
<1> QED BY <1>3, <1>4

(* Moving a card only takes it out of reach of a PIN on its way.           *)
LEMMA SendableSlots ==
  ASSUME TypeOK, SlotInv, Sendable, World \/ \E s \in Readers : Update(s)
  PROVE  Sendable'
<1>1. /\ CardTypeOK /\ cmds \in Seq(Command) /\ failures \in Nat
  BY DEF TypeOK, CardTypeOK
<1>2. cmds' = cmds /\ blame' = blame /\ (failures' = 0 => failures = 0)
  BY <1>1 DEF World, TakeCard, PutCard, readerVars, chipVars, Update
<1>3. Fewer({"PACE"}, cmds', cmds)
  BY <1>1, <1>2, FewerCommands
<1>4. \A r \in Readers :
        OwnCard(r)' => /\ OwnCard(r) /\ slot'[r] = slot[r] /\ chipRc' = chipRc
                       /\ canOpen'[slot[r]] = canOpen[slot[r]]
                       /\ blame' = blame \/ blame' = [c \in Cards |-> 0]
  BY <1>1, <1>2, SlotsOwnBefore
<1> QED BY <1>1, <1>2, <1>3, <1>4, SendableStays

(* What a password does to the counters of the chips.                      *)
LEMMA ChipBlame ==
  ASSUME CardTypeOK, NEW r \in Readers, slot[r] \in Cards, NEW id \in {"PIN", "CAN", "PUK"},
         NEW word, ChipWorks(r, id, word), NEW c \in Cards
  PROVE  \/ blame'[c] = 0
         \/ blame'[c] = blame[c] /\ chipRc'[c] <= chipRc[c]
         \/ /\ c = slot[r] /\ id = "PIN" /\ r \in BasicReaders /\ ~Unclaimed(r)
            /\ blame'[c] = blame[c] + 1 /\ chipRc'[c] = chipRc[c] - 1
<1> DEFINE k == slot[r]
           a == ChipAnswer(k, id, word)
<1>1. /\ chipRc' = [chipRc EXCEPT ![k] = a.rc]
      /\ blame' = IF a.code = "INVALID_PIN" /\ r \in BasicReaders /\ ~Unclaimed(r)
                  THEN [blame EXCEPT ![k] = @ + 1]
                  ELSE IF a.code = "OK" /\ id # "CAN" THEN [blame EXCEPT ![k] = 0] ELSE blame
  BY DEF ChipWorks
<1>2. /\ blame \in [Cards -> Nat] /\ chipRc \in [Cards -> 0 .. 3] /\ k \in Cards
      /\ chipRc[c] \in 0 .. 3
  BY DEF CardTypeOK
<1>3. /\ id = "CAN" => a.rc = chipRc[k] /\ a.code # "INVALID_PIN"
      /\ id = "PUK" => /\ a.code \in {"OK", "INVALID_PUK"}
                       /\ a.rc = IF a.code = "OK" THEN 3 ELSE chipRc[k]
      /\ id = "PIN" => /\ a.code \in {"PROTOCOL_ERROR", "OK", "INVALID_PIN"}
                       /\ a.code = "PROTOCOL_ERROR" => a.rc = chipRc[k]
                       /\ a.code = "INVALID_PIN" => a.rc = chipRc[k] - 1
  BY <1>2, ChipResult
<1> HIDE DEF a
<1>4. CASE c # k
  BY <1>1, <1>2, <1>4
<1>5. CASE c = k
  <2>1. chipRc'[k] = a.rc
    BY <1>1, <1>2
  <2>2. CASE a.code = "INVALID_PIN" /\ r \in BasicReaders /\ ~Unclaimed(r)
    <3>1. id = "PIN" /\ a.rc = chipRc[k] - 1
      BY <1>3, <2>2
    <3>2. blame'[k] = blame[k] + 1
      BY <1>1, <1>2, <2>2
    <3> QED BY <1>5, <2>1, <2>2, <3>1, <3>2
  <2>3. CASE ~(a.code = "INVALID_PIN" /\ r \in BasicReaders /\ ~Unclaimed(r))
    <3>1. CASE a.code = "OK" /\ id # "CAN"
      <4>1. blame' = [blame EXCEPT ![k] = 0]
        BY <1>1, <2>3, <3>1
      <4> QED BY <1>2, <1>5, <4>1
    <3>2. CASE ~(a.code = "OK" /\ id # "CAN")
      <4>1. blame' = blame
        BY <1>1, <2>3, <3>2
      <4>2. a.rc \in {chipRc[k], chipRc[k] - 1}
        BY <1>3, <3>2
      <4>3. chipRc'[c] <= chipRc[c]
        BY <1>2, <1>5, <2>1, <4>2
      <4> QED BY <4>1, <4>3
    <3> QED BY <3>1, <3>2
  <2> QED BY <2>2, <2>3
<1> QED BY <1>4, <1>5

(* A password leaves the counters that matter alone ...                    *)
LEMMA BlameStays ==
  ASSUME TypeOK, CardTypeOK', Behind, failures = 0 => RejectedOnce, failures' = 0 => failures = 0,
         UNCHANGED paceVars,
         \A c \in Cards : blame'[c] = 0 \/ (blame'[c] = blame[c] /\ chipRc'[c] <= chipRc[c])
  PROVE  Behind' /\ (failures = 0 => RejectedOnce)'
<1>1. /\ blame \in [Cards -> Nat] /\ chipRc \in [Cards -> 0 .. 3] /\ expRc \in -1 .. 3
      /\ chipRc' \in [Cards -> 0 .. 3] /\ UNCHANGED <<pw, expRc>> /\ (Going' => Going)
  BY DEF TypeOK, CardTypeOK, ContextTypeOK, RetryCounters, paceVars, contextVars, controlVars, Going
<1> USE DEF RejectedOnce
<1>2. ASSUME NEW c \in Cards, blame'[c] >= 1
      PROVE  blame[c] = blame'[c] /\ blame[c] >= 1 /\ chipRc'[c] <= chipRc[c] /\ chipRc[c] \in 0 .. 3 /\ chipRc'[c] \in 0 .. 3
  BY <1>1, <1>2
<1>3. ASSUME NEW c \in Cards, blame'[c] >= 1
      PROVE  chipRc'[c] < 3
  <2>1. chipRc[c] < 3
    BY <1>2, <1>3 DEF Behind
  <2> QED BY <1>2, <1>3, <2>1
<1>4. ASSUME Going', failures' = 0, NEW c \in Cards, blame'[c] >= 1, pw'["PIN"] # NoPassword
      PROVE  chipRc'[c] < expRc'
  <2>1. chipRc[c] < expRc /\ expRc' = expRc
    BY <1>1, <1>2, <1>4 DEF Behind
  <2> QED BY <1>1, <1>2, <1>4, <2>1
<1>5. ASSUME failures' = 0, NEW c \in Cards PROVE blame'[c] <= 1
  BY <1>1, <1>5
<1> QED BY <1>3, <1>4, <1>5 DEF Behind

(* ... or is rejected: for the first time, and with the counter the        *)
(* workflow expects the card to have.                                      *)
LEMMA BlameChip ==
  ASSUME TypeOK, CallsOwn, CallInv, TrustInv, Sendable, Behind, failures = 0 => RejectedOnce,
         UNCHANGED paceVars, Execute,
         NEW c \in Command, c = Head(cmds), c.op \in PaceReply,
         NEW r, r = c.reader, Reach(r), NEW word, ChipWorks(r, c.id, word)
  PROVE  Behind' /\ (failures = 0 => RejectedOnce)'
<1>1. /\ CardTypeOK /\ cmds # <<>> /\ cmds \in Seq(Command) /\ r \in Readers /\ slot[r] \in Cards
      /\ failures' = failures /\ CardTypeOK'
  BY Answered, ReaderThreadType DEF TypeOK, CardTypeOK, Command, Reach, ChipWorks, ReaderThread
<1>2. 1 \in Asked(CallOps, cmds) /\ cmds[1] = c
  BY <1>1, LenProperties, HeadTailProperties DEF Asked, CallOps, PaceReply
<1>3. Listening(r) /\ Fits(c.op, c.id)
  BY <1>2 DEF CallsOwn
<1>4. c.id \in {"PIN", "CAN", "PUK"} /\ (c.id = "PIN" => c.op = "PACE")
  BY <1>3 DEF Fits, PaceReply
<1> DEFINE k == slot[r]
           Counted == /\ c.id = "PIN" /\ r \in BasicReaders /\ ~Unclaimed(r)
                      /\ blame'[k] = blame[k] + 1 /\ chipRc'[k] = chipRc[k] - 1
<1>5. \A d \in Cards : \/ blame'[d] = 0 \/ (blame'[d] = blame[d] /\ chipRc'[d] <= chipRc[d])
                       \/ d = k /\ Counted
  BY <1>1, <1>4, ChipBlame
<1>6. CASE ~Counted
  BY <1>1, <1>5, <1>6, BlameStays
<1>7. CASE Counted
  <2>1. /\ blame \in [Cards -> Nat] /\ chipRc \in [Cards -> 0 .. 3] /\ expRc \in -1 .. 3
        /\ chipRc' \in [Cards -> 0 .. 3] /\ UNCHANGED <<pw, expRc, st, busy>> /\ (Going' => Going)
    BY <1>1 DEF TypeOK, CardTypeOK, ContextTypeOK, RetryCounters, paceVars, contextVars, controlVars, Going
  <2>2. OwnCard(r) /\ conn # NoConn /\ conn.reader = r
    BY <1>3, <1>7 DEF OwnCard, Listening
  <2>3. failures = 0 => blame[k] = 0
    <3>1. 1 \in Asked({"PACE"}, cmds) /\ cmds[1].id = "PIN" /\ cmds[1].reader = r
      BY <1>2, <1>4, <1>7 DEF Asked
    <3>2. ASSUME failures = 0 PROVE blame[slot[cmds[1].reader]] = 0
      <4>1. OwnCard(cmds[1].reader) /\ cmds[1].reader \in BasicReaders
        BY <1>7, <2>2, <3>1
      <4> QED BY <3>1, <3>2, <4>1 DEF Sendable
    <3> QED BY <3>1, <3>2
  <2>4. ASSUME Going, failures = 0 PROVE chipRc[k] = expRc
    <3>1. Trusted
      BY <2>2, <2>4 DEF Trusted
    <3>2. c \in Posted(cmds)
      BY <1>2 DEF Posted
    <3>3. Waits("EstablishPaceChannel")
      BY <2>4, <3>2 DEF CallInv, OneCall, WaitsFor, PaceReply
    <3>4. Unanswered
      BY <1>2, <3>3 DEF Unanswered, Waits
    <3> QED BY <2>2, <3>1, <3>4 DEF TrustInv, StageInv, CounterRight, CounterExpected, ChipRc
  <2>5. ASSUME NEW d \in Cards, blame'[d] >= 1, d # k
        PROVE  blame[d] >= 1 /\ chipRc'[d] <= chipRc[d] /\ chipRc'[d] \in Int /\ chipRc[d] \in Int
    <3>1. blame'[d] # 0
      BY <2>5
    <3>2. blame'[d] = blame[d] /\ chipRc'[d] <= chipRc[d]
      BY <1>5, <2>5, <3>1
    <3> QED BY <2>1, <2>5, <3>2
  <2>6. chipRc'[k] = chipRc[k] - 1 /\ chipRc[k] \in 0 .. 3 /\ blame'[k] = blame[k] + 1
    BY <1>1, <1>7, <2>1
  <2> HIDE DEF k, Counted
  <2>7. ASSUME NEW d \in Cards, blame'[d] >= 1 PROVE chipRc'[d] < 3
    <3>1. CASE d = k
      BY <2>6, <3>1
    <3>2. CASE d # k
      BY <2>5, <2>7, <3>2 DEF Behind
    <3> QED BY <3>1, <3>2
  <2>8. ASSUME Going', failures' = 0, NEW d \in Cards, blame'[d] >= 1, pw'["PIN"] # NoPassword
        PROVE  chipRc'[d] < expRc'
    <3>1. CASE d = k
      BY <1>1, <2>1, <2>4, <2>6, <2>8, <3>1
    <3>2. CASE d # k
      <4>1. chipRc[d] < expRc
        BY <1>1, <2>1, <2>5, <2>8, <3>2 DEF Behind
      <4> QED BY <2>1, <2>5, <2>8, <3>2, <4>1
    <3> QED BY <3>1, <3>2
  <2>9. ASSUME failures' = 0, NEW d \in Cards PROVE blame'[d] <= 1
    <3>1. CASE d = k
      BY <1>1, <2>3, <2>6, <2>9, <3>1
    <3>2. CASE d # k
      <4>1. blame'[d] = 0 \/ blame'[d] = blame[d]
        BY <1>5, <3>2
      <4> QED BY <1>1, <2>1, <2>9, <4>1 DEF RejectedOnce
    <3> QED BY <3>1, <3>2
  <2> QED BY <2>7, <2>8, <2>9 DEF Behind, RejectedOnce
<1> QED BY <1>6, <1>7

(* The environment: a PIN that was rejected is not sent once more.         *)
LEMMA BlameEnvironment ==
  ASSUME TypeOK, TypeOK', CallsOwn, CallInv, TrustInv, Sendable, Behind,
         failures = 0 => RejectedOnce, Environment
  PROVE  Behind' /\ (failures = 0 => RejectedOnce)'
<1>1. CardTypeOK /\ CardTypeOK' /\ UNCHANGED paceVars /\ blame \in [Cards -> Nat]
      /\ chipRc \in [Cards -> 0 .. 3] /\ failures \in Nat
  BY DEF TypeOK, CardTypeOK, Environment
<1>2. ASSUME UNCHANGED <<blame, chipRc>>, failures' = 0 => failures = 0
      PROVE  Behind' /\ (failures = 0 => RejectedOnce)'
  <2>1. \A c \in Cards : blame'[c] = blame[c] /\ chipRc'[c] <= chipRc[c]
    BY <1>1, <1>2
  <2> QED BY <1>1, <1>2, <2>1, BlameStays
<1>3. CASE World \/ \E s \in Readers : Update(s)
  BY <1>1, <1>2, <1>3 DEF World, TakeCard, PutCard, readerVars, chipVars, Update
<1>4. CASE Execute
  <2>1. PICK c : c = Head(cmds)
    OBVIOUS
  <2>2. PICK r : r = c.reader
    OBVIOUS
  <2>3. /\ c \in Command /\ cmds # <<>> /\ cmds \in Seq(Command)
    BY <1>1, <1>4, <2>1, Answered, FirstCommand DEF CardTypeOK
  <2>4. ASSUME c.op \in PaceReply, Reach(r), NEW word, ChipWorks(r, c.id, word)
        PROVE  Behind' /\ (failures = 0 => RejectedOnce)'
    BY <1>1, <1>4, <2>1, <2>2, <2>3, <2>4, BlameChip
  <2>5. CASE ExecuteCreate \/ ExecuteDrop \/ ExecuteUpdateRetryCounter
             \/ ExecuteDestroyPaceChannel \/ ExecuteSetEidPin
    <3>1. UNCHANGED <<blame, chipRc>>
      BY <2>5
         DEF ExecuteCreate, ExecuteDrop, ExecuteUpdateRetryCounter, ExecuteDestroyPaceChannel,
             ExecuteSetEidPin, chipVars
    <3>2. failures' = failures \/ failures' = failures + 1
      BY <2>5
         DEF ExecuteCreate, ExecuteDrop, ExecuteUpdateRetryCounter, ExecuteDestroyPaceChannel,
             ExecuteSetEidPin
    <3>3. failures' = 0 => failures = 0
      BY <1>1, <3>2
    <3> QED BY <1>2, <3>1, <3>3
  <2>6. CASE ExecuteEstablishPaceChannel
    <3>1. c.op \in PaceReply
      BY <2>1, <2>6 DEF ExecuteEstablishPaceChannel, Executes, PaceReply
    <3>2. UnchangedByCommand \/ (Reach(r) /\ \E word : ChipWorks(r, c.id, word))
      BY <2>1, <2>2, <2>6 DEF ExecuteEstablishPaceChannel
    <3>3. UnchangedByCommand => UNCHANGED <<blame, chipRc, failures>>
      BY DEF UnchangedByCommand, chipVars
    <3> QED BY <1>2, <2>4, <3>1, <3>2, <3>3
  <2>7. CASE ExecuteUnblockPin
    <3>1. c.op = "UNBLOCK" /\ c.op \in PaceReply
      BY <2>1, <2>7 DEF ExecuteUnblockPin, Executes, PaceReply
    <3>2. c.id = "PUK"
      <4>1. 1 \in Asked(CallOps, cmds) /\ cmds[1] = c
        BY <2>1, <2>3, <3>1, LenProperties, HeadTailProperties DEF Asked, CallOps
      <4> QED BY <3>1, <4>1 DEF CallsOwn, Fits
    <3>3. UnchangedByCommand \/ (Reach(r) /\ \E word : ChipWorks(r, c.id, word))
      BY <2>1, <2>2, <2>7, <3>2 DEF ExecuteUnblockPin
    <3>4. UnchangedByCommand => UNCHANGED <<blame, chipRc, failures>>
      BY DEF UnchangedByCommand, chipVars
    <3> QED BY <1>2, <2>4, <3>1, <3>3, <3>4
  <2> QED BY <1>4, <2>5, <2>6, <2>7 DEF Execute
<1> QED BY <1>3, <1>4 DEF Environment, ReaderThread

(* Every step keeps PinInv.                                                *)
LEMMA NextPin ==
  ASSUME ~CanAllowedMode, TypeOK, TypeOK', HandleInv, SlotInv, ConnInv, CallInv, PinInv,
         [Next]_allVars
  PROVE  PinInv'
<1>1. /\ CardTypeOK /\ SelectsFree /\ LinkInv /\ Connected /\ CallsOwn /\ SecretFirst
      /\ TrustInv /\ Sendable /\ Behind /\ (failures = 0 => RejectedOnce)
  BY DEF TypeOK, HandleInv, ConnInv, LinkInv, CallInv, PinInv
<1>2. TrustInv'
  BY <1>1, NextTrust
<1>3. CASE MainThread \/ User
  <2>1. Sendable'
    BY <1>1, <1>3, SendableMain
  <2>2. Behind' /\ (failures = 0 => RejectedOnce)'
    BY <1>1, <1>3, BlameMain
  <2> QED BY <1>2, <2>1, <2>2 DEF PinInv
<1>4. CASE Environment
  <2>1. Sendable'
    BY <1>1, <1>4, SendableExecute, SendableSlots DEF Environment, ReaderThread
  <2>2. Behind' /\ (failures = 0 => RejectedOnce)'
    BY <1>1, <1>4, BlameEnvironment
  <2> QED BY <1>2, <2>1, <2>2 DEF PinInv
<1>5. CASE UNCHANGED allVars
  <2>1. Sendable' /\ Behind' /\ (failures = 0 => RejectedOnce)'
    BY <1>1, <1>5
       DEF allVars, cardVars, paceVars, controlVars, contextVars, Sendable, Behind, RejectedOnce,
           LooksAtPin, Going, OwnCard, Reach, Unclaimed
  <2> QED BY <1>2, <2>1 DEF PinInv
<1> QED BY <1>3, <1>4, <1>5 DEF Next, Terminated

LEMMA InitPin == Init => PinInv
<1> SUFFICES ASSUME Init PROVE PinInv
  OBVIOUS
<1>1. cmds = <<>> /\ blame = [c \in Cards |-> 0]
  BY DEF Init, CardInit
<1>2. Asked({"PACE"}, cmds) = {}
  BY <1>1 DEF Asked
<1> QED BY <1>1, <1>2, InitTrust DEF PinInv, Sendable, Behind, RejectedOnce

(* All that is needed, in one invariant.                                   *)
PinKnown == SlotInv /\ ConnInv /\ CallInv /\ PinInv

(* It is inductive.                                                        *)
LEMMA NextKnown ==
  ASSUME PinModeAssumption, TypeOK, TypeOK', HandleInv, PinKnown, [Next]_allVars
  PROVE  PinKnown'
BY NextSound, NextConn, NextCalls, NextPin DEF PinModeAssumption, PinKnown

(* Workflow, queues and chip always agree about the PIN, its counter and   *)
(* the CAN channel: the invariant the four results below rest on.          *)
THEOREM PinAccounted == Spec => [](TypeOK /\ HandleInv /\ PinKnown)
<1>1. Init => PinKnown
  <2>1. Init => SlotInv
    BY DEF Init, CardInit, NoCardInfo, SlotInv, SlotsApart, HandlesLive, CountersKnown
  <2> QED BY <2>1, InitConn, InitCalls, InitPin DEF PinKnown
<1>2. TypeOK /\ TypeOK' /\ HandleInv /\ PinKnown /\ [Next]_allVars => PinKnown'
  BY NextKnown, PinModeAssumption
<1> QED BY <1>1, <1>2, TypeCorrect, HandlesStay, PTL DEF Spec

(* StatePreparePace asks for the password the card in the reader needs     *)
(* (PIN, CAN before the last attempt, PUK when the PIN is blocked), as     *)
(* long as no reading of a retry counter has failed: the copy of the       *)
(* counter and of the CAN channel in CardConnection is not stale when it   *)
(* decides, whatever the user did with the cards in between.               *)
THEOREM PasswordAskedIsRight == Spec => [](failures = 0 => RightPasswordAsked)
<1>1. TypeOK /\ HandleInv /\ PinKnown => (failures = 0 => RightPasswordAsked)
  <2> SUFFICES ASSUME PinKnown, failures = 0, st = "EnterPacePassword", OwnCard(conn.reader)
               PROVE  Right(idType)
    BY DEF RightPasswordAsked, Right, ChipRc, ChipCan
  <2>1. Trusted
    BY DEF Trusted, Going, AfterError, PinKnown, ConnInv, Connected
  <2> QED BY <2>1 DEF PinKnown, PinInv, TrustInv, StageInv, WishRight
<1> QED BY <1>1, PinAccounted, PTL

(* One entry of the PIN costs a card at most one attempt:                  *)
(* StateVerifyRetryCounter throws away a PIN whose attempt the chip has    *)
(* counted before it could be sent again, also when the answer of the chip *)
(* was lost.                                                               *)
THEOREM PinRejectedOnce == Spec => [](failures = 0 => RejectedOnce)
<1>1. TypeOK /\ HandleInv /\ PinKnown => (failures = 0 => RejectedOnce)
  BY DEF PinKnown, PinInv
<1> QED BY <1>1, PinAccounted, PTL

(* The reader thread sends a PIN only to a chip that looks at it: the last *)
(* attempt is made behind the CAN channel, and none at a blocked PIN.      *)
THEOREM PinLooksBehindCan == Spec /\ [](failures = 0) => LastAttemptBehindCan
<1> DEFINE Step == (cmds # <<>> /\ cmds' = Tail(cmds) /\ Head(cmds).op = "PACE"
                      /\ Head(cmds).id = "PIN" /\ OwnCard(Head(cmds).reader))
                   => LET k == slot[Head(cmds).reader]
                      IN chipRc[k] > 1 \/ (chipRc[k] = 1 /\ canOpen[k])
<1>1. TypeOK /\ HandleInv /\ PinKnown /\ failures = 0 => Step
  <2> SUFFICES ASSUME TypeOK, PinKnown, failures = 0, cmds # <<>>, Head(cmds).op = "PACE",
                      Head(cmds).id = "PIN", OwnCard(Head(cmds).reader)
               PROVE  LooksAtPin(Head(cmds).reader)
    BY DEF LooksAtPin
  <2>1. cmds \in Seq(Command)
    BY DEF TypeOK, CardTypeOK
  <2>2. 1 \in Asked({"PACE"}, cmds) /\ cmds[1] = Head(cmds)
    BY <2>1, LenProperties, HeadTailProperties DEF Asked
  <2>3. cmds[1].id = "PIN" /\ OwnCard(cmds[1].reader)
    BY <2>2
  <2>4. LooksAtPin(cmds[1].reader)
    BY <2>2, <2>3 DEF PinKnown, PinInv, Sendable
  <2> QED BY <2>2, <2>4
<1>2. (TypeOK /\ HandleInv /\ PinKnown /\ failures = 0) /\ [Next]_allVars => [Step]_allVars
  BY <1>1
<1> HIDE DEF Step
<1>3. Spec /\ [](failures = 0) => [][Step]_allVars
  BY <1>2, PinAccounted, PTL DEF Spec
<1> QED BY <1>3 DEF Step, LastAttemptBehindCan

(* What ends the wait for the PACE channel.                                *)
LEMMA PaceWaitEnds ==
  ASSUME [Next]_allVars, Waits("EstablishPaceChannel"), ~(Waits("EstablishPaceChannel")')
  PROVE  DeliverPace \/ Cancel \/ CancelKilled
<1> USE DEF Runs, Waits, Goto, Wait, UnchangedReader, cardVars, contextVars, controlVars, paceVars
<1>1. CASE RunPace
  BY <1>1
     DEF RunPace, RunMaintainCardConnection, RunClearPacePasswordsOnError, RunSelectReader,
         RunConnectCard, FinishConnectCard, RunUpdateRetryCounter, RunUpdate,
         RunVerifyRetryCounter, RunPreparePace, RunEstablishPaceChannel,
         RunUnfortunateCardPosition, RunClearPacePasswordsBeforeDestroy, RunDestroyPaceAfterPuk,
         RunDestroy
<1>2. CASE DeliverToPace
  BY <1>2
     DEF DeliverToPace, DeliverCall, DeliverCreate, DeliverEvent, DeliverUpdateRetryCounter,
         DeliverUpdate, Delivers, DeliverDestroyPaceAfterPuk, DeliverDestroy, DeliverStale
<1>3. CASE DeliverToChangePin
  BY <1>3
     DEF DeliverToChangePin, DeliverSetEidPin, DeliverDestroyPace, DeliverDestroy, DeliverUpdate,
         DeliverUpdateRetryCounterFinal, Delivers
<1>4. CASE RunChangePinWorkflow
  BY <1>4
     DEF RunChangePinWorkflow, Leads, PaceChannelEstablished, PacePukEstablished, PaceAbort,
         RunPrepareChangePin, RunChangePin, RunDestroyPace, RunDestroy, RunClearPacePasswords,
         RunUpdateRetryCounterFinal, RunUpdate, RunCleanUpReaderManager, CleanUpReaderManager
<1>5. CASE User
  BY <1>5
     DEF User, EnterPacePassword, EnterNewPacePin, RunFinalState, RetryCardSelection, Kill
<1>6. CASE Environment \/ Terminated \/ UNCHANGED allVars
  BY <1>6 DEF Environment, Terminated, allVars
<1> QED BY <1>1, <1>2, <1>3, <1>4, <1>5, <1>6 DEF Next, MainThread

(* The rejection of a PIN names the attempt the chip has counted.          *)
LEMMA AttemptTold ==
  ASSUME TypeOK, PinKnown, failures = 0, [Next]_allVars, OwnCard(conn.reader),
         Waits("EstablishPaceChannel"), ~(Waits("EstablishPaceChannel")'),
         lastPace' \in {"INVALID_PIN", "INVALID_PIN_2", "INVALID_PIN_3"}
  PROVE  ChipRc = (CASE lastPace' = "INVALID_PIN" -> 2 [] lastPace' = "INVALID_PIN_2" -> 1
                     [] OTHER -> 0)
<1> DEFINE m == Head(msgs)
<1>1. CardTypeOK /\ Trusted /\ OneCall /\ QueueInv
  BY DEF TypeOK, PinKnown, ConnInv, CallInv, PinInv, TrustInv, Trusted, Going, AfterError,
         Connected, Waits
<1>2. DeliverPace
  <2>1. ~Cancel /\ ~CancelKilled
    BY DEF Cancel, CancelKilled, UserCancels, KillCancels, OnUserCancelled, Waits
  <2> QED BY <2>1, PaceWaitEnds
<1>3. msgs # <<>> /\ m.kind \in PaceReply
  BY <1>2 DEF DeliverPace, DeliversPace
<1>4. m \in Reply
  BY <1>1, <1>3, FirstMessage DEF PaceReply, CommandOps
<1>5. Promise(m)
  BY <1>1, <1>3, <1>4, PaceSaid
<1>6. m.code = "INVALID_PIN" /\ lastPace' = Attempt(conn.rc)
  BY <1>2, <1>3, <1>5
     DEF DeliverPace, PaceDone, PaceCardGone, PaceFailed, CardGone, Promise
<1>7. conn.rc = ChipRc + 1
  BY <1>3, <1>5, <1>6 DEF Promise
<1>8. ChipRc \in 0 .. 3 /\ conn.rc \in RetryCounters
  BY <1>1, ChipRcRange DEF Trusted, CardTypeOK, Connection
<1>9. ChipRc \in {0, 1, 2}
  BY <1>7, <1>8 DEF RetryCounters
<1> QED BY <1>6, <1>7, <1>9 DEF Attempt

(* The message about a wrong PIN names the attempt the chip has counted    *)
(* (StateEstablishPaceChannel::onEstablishConnectionDone maps the counter  *)
(* the connection remembers).                                              *)
THEOREM AttemptToldRight == Spec /\ [](failures = 0) => AttemptReportedRight
<1> DEFINE Step == (Waits("EstablishPaceChannel") /\ ~(Waits("EstablishPaceChannel")')
                      /\ OwnCard(conn.reader)
                      /\ lastPace' \in {"INVALID_PIN", "INVALID_PIN_2", "INVALID_PIN_3"})
                   => chipRc[slot[conn.reader]] =
                        (CASE lastPace' = "INVALID_PIN" -> 2 [] lastPace' = "INVALID_PIN_2" -> 1
                           [] OTHER -> 0)
<1>1. (TypeOK /\ HandleInv /\ PinKnown /\ failures = 0) /\ [Next]_allVars => [Step]_allVars
  BY AttemptTold DEF ChipRc
<1> HIDE DEF Step
<1>2. Spec /\ [](failures = 0) => [][Step]_allVars
  BY <1>1, PinAccounted, PTL DEF Spec
<1> QED BY <1>2 DEF Step, AttemptReportedRight
=============================================================================
