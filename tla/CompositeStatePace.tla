------------------------- MODULE CompositeStatePace -------------------------
(***************************************************************************)
(* The composite state every workflow with an ID card goes through         *)
(* (CompositeStatePace with CompositeStateSelectCard inside): choose a     *)
(* reader, connect the card, learn its retry counter, ask for the right    *)
(* password, open the PACE channel, and start over when a step fails.      *)
(*                                                                         *)
(* It runs in the main thread. Between two events the state machine runs   *)
(* to completion: the user, the quit request and the replies of the reader *)
(* thread are only seen when a state waits (AtRest). The reader thread and *)
(* the user's hands on the card interleave everywhere.                     *)
(*                                                                         *)
(* The signals of the composite state (firePaceChannelEstablished, ...)    *)
(* are states of that name, for the surrounding workflow to leave.         *)
(***************************************************************************)
EXTENDS CardReader

CONSTANTS
  NoReader,        \* the empty reader name
  CanAllowedMode,  \* the workflow accepts the CAN in place of the PIN
  MaxQueue         \* bound: events the main thread may have posted

ASSUME PaceAssumption ==
  /\ NoReader \notin Readers
  /\ CanAllowedMode \in BOOLEAN
  /\ MaxQueue \in Nat

VARIABLES
  st,            \* current state of the state machine
  busy,          \* it has run and waits for a reply or an event
  pw,            \* WorkflowContext: mPin, mCan, mPuk (ChangePinContext: mNewPin)
  idType,        \* mEstablishPaceChannelType
  readerName,    \* mReaderName
  expReader,     \* mExpectedReaderName
  expRc,         \* mExpectedRetryCounter
  lastPace,      \* mLastPaceResult
  status,        \* mStatus: the first error of the workflow
  vanished,      \* mCardVanishedDuringPacePinCount, up to 2
  killed,        \* mWorkflowKilled
  cancelPending  \* killWorkflow has still to emit fireCancelWorkflow

contextVars == <<pw, idType, readerName, expReader, expRc, lastPace, status, vanished>>
controlVars == <<st, busy, killed, cancelPending>>
paceVars    == <<contextVars, controlVars>>

PaceStates ==
  { "MaintainCardConnection", "ClearPacePasswordsOnError", "SelectReader",
    "ConnectCard", "UpdateRetryCounter", "VerifyRetryCounter", "PreparePace",
    "UnfortunateCardPosition", "EnterPacePassword", "EstablishPaceChannel",
    "ClearPacePasswordsBeforeDestroy", "DestroyPaceAfterPuk" }
PaceSignals == {"PaceChannelEstablished", "PacePukEstablished", "PaceAbort"}

Secrets == {"PIN", "CAN", "PUK", "NEW_PIN"}

\* COMMAND_FAILED stands for UNKNOWN, UNDEFINED and UNEXPECTED_TRANSMIT_STATUS, too.
Unrecoverable == {"CANCELLATION_BY_USER", "PUK_INOPERATIVE", "INPUT_TIME_OUT",
                  "COMMAND_FAILED", "PROTOCOL_ERROR"}
WrongPacePassword == {"INVALID_CAN", "INVALID_PIN", "INVALID_PIN_2", "INVALID_PIN_3",
                      "INVALID_PUK", "NEW_PIN_MISMATCH", "NEW_PIN_INVALID_LENGTH",
                      "PIN_NOT_BLOCKED", "PIN_BLOCKED"}
CardGone == {"RETRY_ALLOWED", "CARD_NOT_FOUND"}

ContextTypeOK ==
  /\ busy \in BOOLEAN /\ killed \in BOOLEAN /\ cancelPending \in BOOLEAN
  /\ pw \in [Secrets -> Passwords \cup {NoPassword}]
  /\ idType \in PaceIds
  /\ readerName \in Readers \cup {NoReader}
  /\ expReader \in Readers \cup {NoReader}
  /\ expRc \in RetryCounters
  /\ lastPace \in Codes
  /\ status \in {"NoError", "Cancelled", "Killed", "Error", "CardRemoved", "NoPermission"}
  /\ vanished \in 0 .. 2

ContextInit ==
  /\ busy = FALSE /\ killed = FALSE /\ cancelPending = FALSE
  /\ pw = [s \in Secrets |-> NoPassword]
  /\ idType = "UNKNOWN"
  /\ readerName = NoReader /\ expReader = NoReader
  /\ expRc = -1
  /\ lastPace = "OK"
  /\ status = "NoError"
  /\ vanished = 0

-----------------------------------------------------------------------------
(* Steps of the state machine. *)

Runs(s)  == st = s /\ ~busy
Waits(s) == st = s /\ busy
Goto(s)  == st' = s /\ busy' = FALSE
Wait     == st' = st /\ busy' = TRUE

Interactive == {"EnterPacePassword", "EnterNewPacePin", "EditAccessRights"}

(* The main thread is back in its event loop. *)
AtRest ==
  /\ busy \/ st \in Interactive \cup {"FinalState", "Stopped"}
  /\ ~cancelPending
  /\ conn # NoConn => conn.listening

(* AbstractState::updateStatus: only the first error is kept. *)
UpdateStatus(error) == status' = IF status = "NoError" THEN error ELSE status

(* Mutant: the return code is recorded as it is. *)
StatusOfMutant(code) == code

(* Mutant: a failing command has no status of its own. *)
StatusOfForgetful(code) ==
  IF code = "CANCELLATION_BY_USER" THEN "Cancelled"
  ELSE IF code \in {"COMMAND_FAILED", "PROTOCOL_ERROR"} THEN "NoError" ELSE "Error"

(* CardReturnCodeUtil::toGlobalStatus *)
StatusOf(code) ==
  CASE code \in {"OK", "OK_PUK"} -> "NoError"
    [] code = "CANCELLATION_BY_USER" -> "Cancelled"
    [] OTHER -> "Error"

(* Mutant: the new PIN is kept. *)
ResetPacePasswordsMutant ==
  pw' = [s \in Secrets |-> IF s = "NEW_PIN" THEN pw[s] ELSE NoPassword]

NoPasswords == [s \in Secrets |-> NoPassword]
ResetPacePasswords == pw' = NoPasswords

UnchangedControl == UNCHANGED <<killed, cancelPending>>
UnchangedReader  == UNCHANGED cardVars

(* WorkflowContext::resetCardConnection. The old connection is closed and  *)
(* its reader is polled once more; the call blocks until the reader thread *)
(* has done all that was posted to it before.                              *)
ResetCardConnection(queue) ==
  /\ cmds = <<>>
  /\ conn' = NoConn
  /\ canOpen' = IF conn = NoConn THEN canOpen ELSE ResetChip(conn.reader, rd[conn.reader])
  /\ LET closed == IF conn = NoConn THEN rd
                   ELSE [rd EXCEPT ![conn.reader] = Closed(@)]
     IN IF readerName = NoReader
        THEN rd' = closed /\ msgs' = Detach(queue) /\ failures' = failures
        ELSE \E o \in PollOutcomes(readerName, closed[readerName]) :
               /\ rd' = [closed EXCEPT ![readerName] = o.data]
               /\ failures' = IF FailedRead(o) THEN failures + 1 ELSE failures
               /\ msgs' = Detach(queue) \o
                    [i \in DOMAIN o.events |->
                       [Signal(o.events[i].type, readerName, o.events[i].rc)
                          EXCEPT !.conn = FALSE]]
  /\ UNCHANGED <<worldVars, chipRc, blame, done, cmds>>

(* CardConnection::call: post a command to the reader thread. *)
Post(op, id, word) ==
  /\ cmds' = Append(cmds, [op |-> op, reader |-> conn.reader, id |-> id, pw |-> word,
                           mine |-> TRUE, conn |-> TRUE])
  /\ UNCHANGED <<worldVars, chipVars, rd, failures, msgs, conn>>

-----------------------------------------------------------------------------
(* StateMaintainCardConnection::run *)

(* Mutant: an error reported earlier does not end the workflow. *)
MustAbortMutant == lastPace \in Unrecoverable

MustAbort == status # "NoError" \/ lastPace \in Unrecoverable

MaintainAborts ==
  /\ MustAbort
  /\ UpdateStatus(StatusOf(lastPace))
  /\ Goto("ClearPacePasswordsOnError")
  /\ UNCHANGED <<pw, idType, readerName, expReader, expRc, lastPace, vanished>>
  /\ UnchangedReader

MaintainAfterWrongPassword ==
  /\ ~MustAbort /\ lastPace \in WrongPacePassword
  /\ ResetPacePasswords
  /\ Goto(IF conn # NoConn THEN "UpdateRetryCounter" ELSE "SelectReader")
  /\ UNCHANGED <<idType, readerName, expReader, expRc, lastPace, status, vanished>>
  /\ UnchangedReader

MaintainAfterCardGone ==
  /\ ~MustAbort /\ lastPace \in CardGone
  /\ ResetCardConnection(msgs)
  /\ lastPace' = "OK"
  /\ Goto("SelectReader")
  /\ UNCHANGED <<pw, idType, readerName, expReader, expRc, status, vanished>>

MaintainProceeds ==
  /\ ~MustAbort /\ lastPace \in {"OK", "OK_PUK"}
  /\ lastPace' = "OK"
  /\ Goto(IF lastPace = "OK_PUK" THEN "UpdateRetryCounter"
          ELSE IF conn = NoConn THEN "SelectReader" ELSE "VerifyRetryCounter")
  /\ UNCHANGED <<pw, idType, readerName, expReader, expRc, status, vanished>>
  /\ UnchangedReader

RunMaintainCardConnection ==
  /\ Runs("MaintainCardConnection")
  /\ \/ MaintainAborts
     \/ MaintainAfterWrongPassword
     \/ MaintainAfterCardGone
     \/ MaintainProceeds
  /\ UnchangedControl

(* StateClearPacePasswords::run, before the composite state is aborted.    *)
RunClearPacePasswordsOnError ==
  /\ Runs("ClearPacePasswordsOnError")
  /\ ResetPacePasswords
  /\ Goto("PaceAbort")
  /\ UNCHANGED <<idType, readerName, expReader, expRc, lastPace, status, vanished>>
  /\ UnchangedReader /\ UnchangedControl

-----------------------------------------------------------------------------
(* CompositeStateSelectCard *)

Selectable(r) == rd[r].obj

(* StateSelectReader::onReaderInfoChanged: take a reader that has a card. *)
(* Asking the ReaderManager blocks until the reader thread is idle.       *)
SelectReaderNow ==
  /\ cmds = <<>>
  /\ \/ \E r \in Readers :
          Selectable(r) /\ readerName' = r /\ Goto("ConnectCard")
     \/ (\A r \in Readers : ~Selectable(r)) /\ readerName' = readerName /\ Wait

RunSelectReader ==
  /\ Runs("SelectReader")
  /\ SelectReaderNow
  /\ UNCHANGED <<pw, idType, expReader, expRc, lastPace, status, vanished>>
  /\ UnchangedReader /\ UnchangedControl

(* StateConnectCard::onCardInserted: ask for a connection if there is a    *)
(* card by now. The command starts in the main thread: its first step is   *)
(* an event of the main thread itself.                                     *)
CreateCall ==
  [kind |-> "CALL", reader |-> readerName, id |-> "UNKNOWN", code |-> "OK",
   mine |-> TRUE, conn |-> FALSE]

ConnectIfCard(queue) ==
  /\ cmds = <<>>
  /\ msgs' = IF rd[readerName].obj THEN Append(queue, CreateCall) ELSE queue

RunConnectCard ==
  /\ Runs("ConnectCard")
  /\ ConnectIfCard(msgs)
  /\ Wait
  /\ UNCHANGED <<worldVars, chipVars, rd, failures, cmds, conn>>
  /\ UNCHANGED contextVars /\ UnchangedControl

(* The user picks another kind of reader while a card is looked for        *)
(* (fireReaderPlugInTypesChanged, StateConnectCard::onAbort): try again.   *)
RetryCardSelection ==
  /\ AtRest /\ st \in {"SelectReader", "ConnectCard"}
  /\ Len(msgs) < MaxQueue
  /\ Goto("SelectReader")
  /\ cmds' = Disown(cmds) /\ msgs' = Disown(msgs)
  /\ UNCHANGED <<worldVars, chipVars, rd, failures, conn>>
  /\ UNCHANGED contextVars /\ UnchangedControl

ReaderCommand(op, r, mine) ==
  [op |-> op, reader |-> r, id |-> "UNKNOWN", pw |-> NoPassword, mine |-> mine, conn |-> FALSE]

(* CreateCardConnectionCommand::execute posts the wish to the reader thread. *)
DeliverCall ==
  /\ AtRest /\ msgs # <<>> /\ Head(msgs).kind = "CALL"
  /\ cmds' = Append(cmds, ReaderCommand("CREATE", Head(msgs).reader, Head(msgs).mine))
  /\ msgs' = Tail(msgs)
  /\ UNCHANGED <<worldVars, chipVars, rd, failures, conn>>
  /\ UNCHANGED paceVars

(* Mutant: a worker nobody waits for is kept. *)
DropUnclaimedMutant(q, m) == q

(* The last reference to a worker nobody waits for is dropped. *)
DropUnclaimed(q, m) ==
  IF m.code = "OK" THEN Append(q, ReaderCommand("DROP", m.reader, FALSE)) ELSE q

(* StateConnectCard takes the worker. The constructor of CardConnection    *)
(* asks the reader for its ReaderInfo first and connects to its signal     *)
(* afterwards.                                                             *)
DeliverCreate ==
  /\ AtRest /\ msgs # <<>> /\ Head(msgs).kind = "CREATE"
  /\ LET m == Head(msgs)
     IN \/ /\ ~m.mine
           /\ cmds' = DropUnclaimed(cmds, m)
           /\ msgs' = Tail(msgs)
           /\ UNCHANGED <<st, busy, conn>>
        \/ /\ m.mine /\ Waits("ConnectCard") /\ m.code # "OK"
           /\ Goto("MaintainCardConnection")
           /\ cmds' = Disown(cmds) /\ msgs' = Disown(Tail(msgs))
           /\ conn' = conn
        \/ /\ m.mine /\ Waits("ConnectCard") /\ m.code = "OK"
           /\ cmds = <<>>
           /\ conn' = [reader |-> m.reader, rc |-> rd[m.reader].rc, can |-> FALSE,
                       pin |-> FALSE, listening |-> FALSE]
           /\ msgs' = Tail(msgs)
           /\ UNCHANGED <<st, busy, cmds>>
  /\ UNCHANGED <<worldVars, chipVars, rd, failures>>
  /\ UNCHANGED contextVars /\ UnchangedControl

FinishConnectCard ==
  /\ st = "ConnectCard" /\ conn # NoConn /\ ~conn.listening
  /\ conn' = [conn EXCEPT !.listening = TRUE]
  /\ Goto("UpdateRetryCounter")
  /\ msgs' = Disown(msgs)
  /\ UNCHANGED <<worldVars, chipVars, rd, failures, cmds>>
  /\ UNCHANGED contextVars /\ UnchangedControl

(* A signal of the reader thread: the CardConnection refreshes its copy of *)
(* the ReaderInfo, the states that look for a card look again.             *)
DeliverEvent ==
  /\ AtRest /\ msgs # <<>> /\ Head(msgs).kind \in {"inserted", "removed", "counter"}
  /\ LET m == Head(msgs)
     IN /\ conn' = IF m.conn /\ conn # NoConn THEN [conn EXCEPT !.rc = m.rc] ELSE conn
        /\ \/ /\ st = "SelectReader" /\ m.kind # "counter"
              /\ SelectReaderNow /\ msgs' = Tail(msgs)
           \/ /\ st = "ConnectCard" /\ m.kind = "inserted"
              /\ ConnectIfCard(Tail(msgs)) /\ UNCHANGED <<st, busy, readerName>>
           \/ /\ ~(st = "SelectReader" /\ m.kind # "counter")
              /\ ~(st = "ConnectCard" /\ m.kind = "inserted")
              /\ msgs' = Tail(msgs)
              /\ UNCHANGED <<st, busy, readerName>>
  /\ UNCHANGED <<worldVars, chipVars, rd, failures, cmds>>
  /\ UNCHANGED <<pw, idType, expReader, expRc, lastPace, status, vanished>>
  /\ UnchangedControl

-----------------------------------------------------------------------------
(* The retry counter. *)

PostUpdateRetryCounter == Post("UPDATE_RC", "UNKNOWN", NoPassword)

(* StateUpdateRetryCounter::run; "onAbort" is where the workflow goes on   *)
(* without a connection.                                                   *)
RunUpdate(s, onAbort) ==
  /\ Runs(s)
  /\ \/ conn = NoConn /\ Goto(onAbort) /\ UnchangedReader
     \/ conn # NoConn /\ PostUpdateRetryCounter /\ Wait
  /\ UNCHANGED contextVars /\ UnchangedControl

Delivers(s, kind) ==
  /\ AtRest /\ Waits(s)
  /\ msgs # <<>> /\ Head(msgs).kind = kind /\ Head(msgs).mine

(* StateUpdateRetryCounter::onUpdateRetryCounterDone *)
DeliverUpdate(s, onContinue, onAbort) ==
  /\ Delivers(s, "UPDATE_RC")
  /\ \/ /\ Head(msgs).code = "OK"
        /\ Goto(onContinue)
        /\ msgs' = Tail(msgs)
        /\ UNCHANGED <<worldVars, chipVars, rd, failures, cmds, conn>>
     \/ /\ Head(msgs).code # "OK"
        /\ ResetCardConnection(Tail(msgs))
        /\ Goto(onAbort)
  /\ UNCHANGED contextVars /\ UnchangedControl

RunUpdateRetryCounter == RunUpdate("UpdateRetryCounter", "MaintainCardConnection")

DeliverUpdateRetryCounter ==
  DeliverUpdate("UpdateRetryCounter", "VerifyRetryCounter", "MaintainCardConnection")

(* Mutant: the same reader is enough to keep the passwords. *)
CounterAsExpectedMutant == expReader = readerName

CounterAsExpected == expReader = readerName /\ expRc = conn.rc

(* StateVerifyRetryCounter::run: passwords are kept only for the reader    *)
(* and the counter they were meant for.                                    *)
RunVerifyRetryCounter ==
  /\ Runs("VerifyRetryCounter")
  /\ \/ /\ conn = NoConn
        /\ Goto("MaintainCardConnection")
        /\ UNCHANGED <<pw, expReader, expRc>>
     \/ /\ conn # NoConn
        /\ Goto("PreparePace")
        /\ expReader' = readerName /\ expRc' = conn.rc
        /\ IF CounterAsExpected THEN pw' = pw ELSE ResetPacePasswords
  /\ UNCHANGED <<idType, readerName, lastPace, status, vanished>>
  /\ UnchangedReader /\ UnchangedControl

-----------------------------------------------------------------------------
(* StatePreparePace::run: which password, and do we have it already? *)

Demand(id) ==
  /\ idType' = id
  /\ Goto(IF pw[id] = NoPassword THEN "EnterPacePassword" ELSE "EstablishPaceChannel")

(* Mutant: the CAN is not asked for before the last attempt. *)
DemandedMutant(k, can) == IF k = 0 THEN "PUK" ELSE "PIN"

Demanded(k, can) == IF k = 0 THEN "PUK" ELSE IF k = 1 /\ ~can THEN "CAN" ELSE "PIN"

(* With the PIN channel open already the source ends in Q_UNREACHABLE; the *)
(* optimised build then runs on as if the channel were not open.           *)
RunPreparePace ==
  /\ Runs("PreparePace")
  /\ \/ conn = NoConn /\ Goto("MaintainCardConnection") /\ idType' = idType
     \/ /\ conn # NoConn /\ CanAllowedMode
        /\ IF conn.can THEN Goto("MaintainCardConnection") /\ idType' = "CAN"
                       ELSE Demand("CAN")
     \/ /\ conn # NoConn /\ ~CanAllowedMode
        /\ Demand(Demanded(conn.rc, conn.can))
  /\ UNCHANGED <<pw, readerName, expReader, expRc, lastPace, status, vanished>>
  /\ UnchangedReader /\ UnchangedControl

(* The user enters the password asked for, at the client for a basic       *)
(* reader; with a PIN pad there is nothing to enter yet. Once the workflow *)
(* is killed the state is approved as it is.                               *)
EnterPacePassword ==
  /\ Runs("EnterPacePassword")
  /\ \/ /\ ~killed /\ conn.reader \in BasicReaders
        /\ \E word \in Passwords : pw' = [pw EXCEPT ![idType] = word]
        /\ blame' = IF idType = "PIN" THEN [c \in Cards |-> 0] ELSE blame
     \/ (killed \/ conn.reader \notin BasicReaders) /\ UNCHANGED <<pw, blame>>
  /\ Goto("EstablishPaceChannel")
  /\ UNCHANGED <<worldVars, chipRc, canOpen, done, readerVars, conn>>
  /\ UNCHANGED <<idType, readerName, expReader, expRc, lastPace, status, vanished>>
  /\ UnchangedControl

-----------------------------------------------------------------------------
(* StateEstablishPaceChannel *)

Secret == IF idType = "UNKNOWN" THEN NoPassword ELSE pw[idType]

EstablishWithoutPassword ==
  /\ Secret = NoPassword /\ conn.reader \in BasicReaders
  /\ ResetPacePasswords
  /\ lastPace' = "OK"
  /\ Goto("MaintainCardConnection")
  /\ UnchangedReader

EstablishWithPassword ==
  /\ Secret # NoPassword \/ conn.reader \notin BasicReaders
  /\ Post(IF idType = "PUK" THEN "UNBLOCK" ELSE "PACE", idType, Secret)
  /\ Wait
  /\ UNCHANGED <<pw, lastPace>>

RunEstablishPaceChannel ==
  /\ Runs("EstablishPaceChannel")
  /\ \/ conn = NoConn /\ Goto("MaintainCardConnection") /\ lastPace' = "OK"
        /\ UNCHANGED <<pw, idType>> /\ UnchangedReader
     \/ conn # NoConn /\ idType' = "UNKNOWN"
        /\ (EstablishWithoutPassword \/ EstablishWithPassword)
  /\ UNCHANGED <<readerName, expReader, expRc, status, vanished>>
  /\ UnchangedControl

(* Mutant: any CAN channel that was tried counts as open. *)
WithPaceResultMutant(c, m) ==
  IF c = NoConn \/ ~m.conn \/ m.kind # "PACE" THEN c
  ELSE IF m.id = "CAN" THEN [c EXCEPT !.can = TRUE]
  ELSE [c EXCEPT !.pin = (m.code = "OK"), !.can = @ /\ m.code = "OK"]

(* CardConnection keeps the result of the last CAN and PIN channel, also   *)
(* when the state that asked has gone.                                     *)
WithPaceResult(c, m) ==
  IF c = NoConn \/ ~m.conn \/ m.kind # "PACE" THEN c
  ELSE IF m.id = "CAN" THEN [c EXCEPT !.can = (m.code = "OK")]
  ELSE [c EXCEPT !.pin = (m.code = "OK"), !.can = @ /\ m.code = "OK"]

PaceReply == {"PACE", "UNBLOCK"}

DeliversPace ==
  /\ AtRest /\ Waits("EstablishPaceChannel")
  /\ msgs # <<>> /\ Head(msgs).kind \in PaceReply /\ Head(msgs).mine

(* onEstablishConnectionDone, return code OK *)
PaceDone ==
  LET m == Head(msgs)
  IN /\ m.code = "OK"
     /\ expRc' = CASE m.id = "PIN" -> 3 [] m.id = "PUK" -> -1 [] OTHER -> expRc
     /\ pw' = IF m.id = "PUK" THEN NoPasswords ELSE pw
     /\ lastPace' = IF m.id = "PUK" THEN "OK_PUK" ELSE "OK"
     /\ vanished' = 0
     /\ conn' = WithPaceResult(conn, m)
     /\ msgs' = Tail(msgs)
     /\ Goto(CASE m.id = "PIN" -> "PaceChannelEstablished"
               [] m.id = "CAN" /\ CanAllowedMode -> "PaceChannelEstablished"
               [] m.id = "PUK" -> "ClearPacePasswordsBeforeDestroy"
               [] OTHER -> "MaintainCardConnection")
     /\ UNCHANGED <<status, worldVars, chipVars, rd, failures, cmds>>

(* ... the card vanished: the user may hold it badly (handleWrongNpaPosition, *)
(* isNpaRepositioningRequired; how long the trouble lasts is open)            *)
PaceCardGone ==
  LET m == Head(msgs)
  IN /\ m.code \in CardGone
     /\ lastPace' = m.code
     /\ vanished' = IF vanished = 2 THEN 2 ELSE vanished + 1
     /\ ResetCardConnection(Tail(msgs))
     /\ \/ Goto("MaintainCardConnection")
        \/ vanished = 2 /\ Goto("UnfortunateCardPosition")
     /\ UNCHANGED <<pw, expRc, status>>

(* Mutant: the counter is taken for the one after the attempt. *)
AttemptMutant(k) == CASE k = 1 -> "INVALID_PIN_2" [] k = 0 -> "INVALID_PIN_3" [] OTHER -> "INVALID_PIN"

(* The counter the connection remembers tells which attempt with the PIN   *)
(* was rejected.                                                           *)
Attempt(k) == CASE k = 2 -> "INVALID_PIN_2" [] k = 1 -> "INVALID_PIN_3" [] OTHER -> "INVALID_PIN"

(* ... any other failure *)
PaceFailed ==
  LET m == Head(msgs)
  IN /\ m.code \notin CardGone \cup {"OK"}
     /\ lastPace' = IF m.code = "INVALID_PIN" THEN Attempt(conn.rc) ELSE m.code
     /\ vanished' = 0
     /\ IF m.code \in {"PUK_INOPERATIVE", "CANCELLATION_BY_USER"}
        THEN UpdateStatus(StatusOf(m.code)) ELSE status' = status
     /\ conn' = WithPaceResult(conn, m)
     /\ msgs' = Tail(msgs)
     /\ Goto("MaintainCardConnection")
     /\ UNCHANGED <<pw, expRc, worldVars, chipVars, rd, failures, cmds>>

DeliverPace ==
  /\ DeliversPace
  /\ PaceDone \/ PaceCardGone \/ PaceFailed
  /\ UNCHANGED <<idType, readerName, expReader>>
  /\ UnchangedControl

(* StateUnfortunateCardPosition::run *)
RunUnfortunateCardPosition ==
  /\ Runs("UnfortunateCardPosition")
  /\ vanished' = 0
  /\ Goto("MaintainCardConnection")
  /\ UNCHANGED <<pw, idType, readerName, expReader, expRc, lastPace, status>>
  /\ UnchangedReader /\ UnchangedControl

(* StateClearPacePasswords::run after the PIN was unblocked *)
RunClearPacePasswordsBeforeDestroy ==
  /\ Runs("ClearPacePasswordsBeforeDestroy")
  /\ ResetPacePasswords
  /\ Goto("DestroyPaceAfterPuk")
  /\ UNCHANGED <<idType, readerName, expReader, expRc, lastPace, status, vanished>>
  /\ UnchangedReader /\ UnchangedControl

(* StateDestroyPace::run and onDestroyPaceDone *)
RunDestroy(s) ==
  /\ Runs(s)
  /\ conn # NoConn
  /\ Post("DESTROY", "UNKNOWN", NoPassword)
  /\ Wait
  /\ UNCHANGED contextVars /\ UnchangedControl

DeliverDestroy(s, next) ==
  /\ Delivers(s, "DESTROY")
  /\ Goto(next)
  /\ msgs' = Tail(msgs)
  /\ UNCHANGED <<worldVars, chipVars, rd, failures, cmds, conn>>
  /\ UNCHANGED contextVars /\ UnchangedControl

RunDestroyPaceAfterPuk == RunDestroy("DestroyPaceAfterPuk")
DeliverDestroyPaceAfterPuk == DeliverDestroy("DestroyPaceAfterPuk", "PacePukEstablished")

-----------------------------------------------------------------------------
(* A reply nobody waits for any more. *)
DeliverStale ==
  /\ AtRest /\ msgs # <<>>
  /\ Head(msgs).kind \in CommandOps \ {"CREATE"} /\ ~Head(msgs).mine
  /\ conn' = WithPaceResult(conn, Head(msgs))
  /\ msgs' = Tail(msgs)
  /\ UNCHANGED <<worldVars, chipVars, rd, failures, cmds>>
  /\ UNCHANGED paceVars

(* Mutant: a cancelled card selection starts again. *)
PaceAbortTargetMutant(s) ==
  IF s \in {"SelectReader", "ConnectCard"} THEN "SelectReader" ELSE "MaintainCardConnection"

(* Where fireAbort of a waiting state of the composite state leads. *)
PaceAbortTarget(s) == IF s = "DestroyPaceAfterPuk" THEN "PaceAbort" ELSE "MaintainCardConnection"

(* AbstractState::onUserCancelled and its override in                      *)
(* StateEstablishPaceChannel, on the way to the state "target".            *)
OnUserCancelled(target) ==
  /\ UpdateStatus("Cancelled")
  /\ lastPace' = IF st = "EstablishPaceChannel" THEN "CANCELLATION_BY_USER" ELSE lastPace
  /\ Goto(target)
  /\ cmds' = Disown(cmds) /\ msgs' = Disown(msgs)
  /\ UNCHANGED <<worldVars, chipVars, rd, failures, conn>>
  /\ UNCHANGED <<pw, idType, readerName, expReader, expRc, vanished>>

(* The user cancels while the workflow waits. *)
UserCancels(states, target(_)) ==
  /\ AtRest /\ st \in states
  /\ OnUserCancelled(target(st))
  /\ UnchangedControl

(* WorkflowContext::killWorkflow: the status is overwritten, a state that  *)
(* waits for approval is approved, and fireCancelWorkflow is emitted.      *)
Kill ==
  /\ AtRest /\ st # "Stopped" /\ ~killed
  /\ killed' = TRUE
  /\ status' = "Killed"
  /\ cancelPending' = TRUE
  /\ UNCHANGED <<st, busy, pw, idType, readerName, expReader, expRc, lastPace, vanished>>
  /\ UnchangedReader

(* ... which reaches the first state that waits. *)
KillCancels(states, target(_)) ==
  /\ cancelPending /\ busy /\ st \in states
  /\ cancelPending' = FALSE /\ killed' = killed
  /\ OnUserCancelled(target(st))

-----------------------------------------------------------------------------
(* What the surrounding workflows share. *)

(* A state that only leads on. *)
Leads(from, to) ==
  /\ Runs(from) /\ Goto(to)
  /\ UnchangedReader /\ UnchangedControl
  /\ UNCHANGED contextVars

(* StateCleanUpReaderManager::run: the scan is stopped and started again,  *)
(* which drops every Reader object with its card and builds a new one that *)
(* has still to look into its slot; then the connection is closed.         *)
CleanUpReaderManager(next) ==
  /\ Runs("CleanUpReaderManager")
  /\ cmds = <<>>
  /\ conn' = NoConn
  /\ rd' = [r \in Readers |-> NoCardInfo]
  /\ canOpen' = [c \in Cards |->
                   canOpen[c] /\ \A r \in Readers : slot[r] = c => rd[r].handle # "open"]
  /\ msgs' = Detach(msgs)
  /\ Goto(next)
  /\ UNCHANGED <<worldVars, chipRc, blame, done, cmds, failures>>
  /\ UNCHANGED contextVars /\ UnchangedControl

(* FinalState::run, once the result on the screen is confirmed. The signal *)
(* fireCancelWorkflow of a quit request finds no state connected any more. *)
RunFinalState ==
  /\ Runs("FinalState") /\ Goto("Stopped")
  /\ cancelPending' = FALSE /\ killed' = killed
  /\ UnchangedReader
  /\ UNCHANGED contextVars

RunPace ==
  \/ RunMaintainCardConnection
  \/ RunClearPacePasswordsOnError
  \/ RunSelectReader
  \/ RunConnectCard
  \/ FinishConnectCard
  \/ RunUpdateRetryCounter
  \/ RunVerifyRetryCounter
  \/ RunPreparePace
  \/ RunEstablishPaceChannel
  \/ RunUnfortunateCardPosition
  \/ RunClearPacePasswordsBeforeDestroy
  \/ RunDestroyPaceAfterPuk

DeliverToPace ==
  \/ DeliverCall
  \/ DeliverCreate
  \/ DeliverEvent
  \/ DeliverUpdateRetryCounter
  \/ DeliverPace
  \/ DeliverDestroyPaceAfterPuk
  \/ DeliverStale
=============================================================================
