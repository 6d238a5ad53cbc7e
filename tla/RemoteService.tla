---------------------------- MODULE RemoteService ----------------------------
(***************************************************************************)
(* A phone as a card reader: RemoteServiceController and its states, the   *)
(* server that lets one client in at a time (RemoteWebSocketServer,        *)
(* ServerMessageHandler) and what they ask of the reader thread. The       *)
(* reader is a basic one and pin pad mode is on: passwords are entered     *)
(* here; without it the handler refuses every request that needs one.      *)
(*                                                                         *)
(* The client, its user and the chip are external. A client may send any   *)
(* request at any time, but waits for the answer to IFDConnect. It does    *)
(* not touch the PIN counter by APDUs of its own.                          *)
(*                                                                         *)
(* Main thread: between two events the state machine runs to completion,   *)
(* as in CompositeStatePace. The reader thread, which CardReader models in *)
(* detail, is reduced here to commands that may fail at any time.          *)
(***************************************************************************)
EXTENDS Integers, Sequences

CONSTANTS
  PaceIds,        \* the passwords a client may ask for
  FullCounter,    \* the PIN counter of a card nobody has tried a wrong PIN on
  MaxSessions,    \* bound: clients that connect, one after the other
  MaxMoves,       \* bound: how often the card is put down or taken away
  MaxReadFailures,\* bound: cards that appear and whose counter cannot be read
  MaxStops,       \* bound: how often the user stops the service in vain
  MaxQueue        \* bound: events that wait when a client sends a request

ASSUME IdAssumption == "PIN" \in PaceIds /\ PaceIds \subseteq {"PIN", "CAN", "PUK"}
ASSUME CounterAssumption == FullCounter \in 1 .. 3
ASSUME BoundAssumption == MaxSessions \in Nat /\ MaxMoves \in Nat /\ MaxQueue \in Nat
                          /\ MaxReadFailures \in Nat /\ MaxStops \in Nat

VARIABLES
  st, busy,       \* the state machine: its state; it has run and waits
  watching,       \* a state that asks the user notices the end of the handler
  pw,             \* mPin, mCan, mPuk, mNewPin
  ctxConn, ctxRc, \* mCardConnection is set, the counter in its ReaderInfo
  expReader,      \* the reader is the expected one
  expRc,          \* mExpectedRetryCounter
  paceMsg,        \* mEstablishPaceChannelMessage: the password it asks for
  paceOut,        \* mEstablishPaceChannelOutput
  modOut,         \* mModifyPinMessageResponseApdu
  listening,      \* the server accepts connections
  client,         \* the session of mServerMessageHandler, 0: none
  sessions,       \* sessions so far
  held,           \* mCardConnections has an entry
  connRc,         \* the counter in the ReaderInfo of that connection
  present,        \* the card is in the reader                      (the world)
  moves, failures,\* its movements, the failed reads of its counter so far
  stops,          \* how often the user has stopped the service
  chipRc, canOpen,\* PIN counter, CAN channel of the chip         (the world)
  rdRc,           \* the counter the Reader knows
  sm,             \* the worker has secure messaging of its own
  cmds, msgs,     \* events posted to the reader thread, to the main thread
  rejections,     \* history: how often the chip has rejected the PIN in mPin
  accepted,       \* history: the chip has accepted the password of this request
  changed         \* history: the chip has changed the PIN for this request

controlVars == <<st, busy, watching>>
passwordVars == <<pw, rejections>>
settingVars == <<ctxConn, ctxRc, expReader, expRc, paceMsg, paceOut, modOut>>
contextVars == <<passwordVars, settingVars>>
serverVars  == <<listening, client, sessions, held, connRc>>
chipVars    == <<chipRc, canOpen, accepted, changed>>
worldVars   == <<present, moves, failures, stops>>
readerVars  == <<worldVars, rdRc, sm, cmds, msgs>>
vars == <<controlVars, contextVars, serverVars, chipVars, readerVars>>

Secrets  == {"PIN", "CAN", "PUK", "NEW_PIN"}
Words    == {"right", "wrong"}
NoWord   == ""
Counters == -1 .. FullCounter

States == {"StartRemoteService", "ProcessRemoteMessages", "UpdateRetryCounter", "VerifyRetryCounter",
           "PreparePace", "EnterPacePassword", "EstablishPaceChannel", "EstablishPaceChannelResponse",
           "PrepareChangePin", "EnterNewPacePin", "ChangePin", "ChangePinResponse",
           "ClearPacePasswords", "StopRemoteService", "FinalState"}

\* INVALID: any code of CardReturnCodeUtil::equalsWrongPacePassword.
Codes    == {"OK", "INVALID", "FAILED"}
\* FAILED stands for every other error, a cancellation among them.
Outputs  == Codes \cup {"UNKNOWN"}
OfState  == {"UPDATE_RC", "PACE", "UNBLOCK", "SET_PIN"}
Commands == [kind : OfState \cup {"CREATE"}, id : PaceIds \cup {"none"},
             word : Words \cup {NoWord}, mine : BOOLEAN]
Replies  == [kind : OfState \cup {"CREATE"}, id : PaceIds \cup {"none"}, code : Codes, mine : BOOLEAN]
\* For the connection of the handler (mine), for that of the context (ctx).
Signals  == [kind : {"changed"}, rc : Counters, mine : BOOLEAN, ctx : BOOLEAN]

\* The ranges of all variables. The expected counter can fall to -2: it is
\* decremented although the actual one was not known.
TypeOK ==
  /\ st \in States /\ busy \in BOOLEAN /\ watching \in BOOLEAN
  /\ pw \in [Secrets -> Words \cup {NoWord}]
  /\ ctxConn \in BOOLEAN /\ ctxRc \in Counters /\ expReader \in BOOLEAN /\ expRc \in -2 .. FullCounter
  /\ paceMsg \in PaceIds \cup {"none"} /\ paceOut \in Outputs
  /\ modOut \in Outputs
  /\ listening \in BOOLEAN /\ client \in 0 .. sessions /\ sessions \in 0 .. MaxSessions
  /\ held \in BOOLEAN /\ connRc \in Counters
  /\ present \in BOOLEAN /\ moves \in 0 .. MaxMoves
  /\ failures \in 0 .. MaxReadFailures /\ stops \in 0 .. MaxStops
  /\ chipRc \in 0 .. FullCounter /\ canOpen \in BOOLEAN /\ rdRc \in Counters /\ sm \in BOOLEAN
  /\ cmds \in Seq(Commands) /\ msgs \in Seq(Replies \cup Signals)
  /\ rejections \in Nat /\ accepted \in BOOLEAN /\ changed \in BOOLEAN

NoPasswords == [s \in Secrets |-> NoWord]
ResetPacePasswords == pw' = NoPasswords /\ rejections' = 0

Init ==
  /\ st = "StartRemoteService" /\ busy = FALSE /\ watching = FALSE
  /\ pw = NoPasswords /\ ctxConn = FALSE /\ ctxRc = -1 /\ expReader = FALSE /\ expRc = -1
  /\ paceMsg = "none" /\ paceOut = "UNKNOWN" /\ modOut = "UNKNOWN"
  /\ listening = FALSE /\ client = 0 /\ sessions = 0 /\ held = FALSE /\ connRc = -1
  /\ present = TRUE /\ moves = 0 /\ failures = 0 /\ stops = 0
  /\ chipRc \in 0 .. FullCounter /\ canOpen = FALSE /\ rdRc = chipRc /\ sm = FALSE
  /\ cmds = <<>> /\ msgs = <<>>
  /\ rejections = 0 /\ accepted = FALSE /\ changed = FALSE

-----------------------------------------------------------------------------
(* Steps of the state machine. *)

Runs(s)  == st = s /\ ~busy
Waits(s) == st = s /\ busy
Leads(from, to) == Runs(from) /\ st' = to /\ busy' = FALSE

\* Replies are delivered to who has asked, as long as that exists: a state
\* that is left, a handler that is deleted get none.
Disown(q, kinds) ==
  [i \in DOMAIN q |-> IF q[i].kind \in kinds THEN [q[i] EXCEPT !.mine = FALSE] ELSE q[i]]

Post(kind, id, word) ==
  cmds' = Append(cmds, [kind |-> kind, id |-> id, word |-> word, mine |-> TRUE])

\* WorkflowContext::resetCardConnection polls the reader: the main thread
\* blocks until the reader thread has done all that was posted before.
ResetCardConnection == cmds = <<>> /\ ctxConn' = FALSE /\ ctxRc' = -1

\* RemoteServiceContext::onResetMessageHandler
OnResetMessageHandler ==
  /\ ResetPacePasswords /\ ResetCardConnection
  /\ paceMsg' = "none" /\ paceOut' = "UNKNOWN"
  /\ UNCHANGED <<expReader, expRc, modOut>>

\* The handler lets go of its connection, and of the ReaderInfo in it.
DropConnection == held' = FALSE /\ connRc' = -1

UnchangedByStep == UNCHANGED <<watching, serverVars, chipVars, readerVars>>

RunStartRemoteService ==
  /\ Leads("StartRemoteService", "ProcessRemoteMessages")
  /\ listening' = TRUE
  /\ UNCHANGED <<watching, contextVars, client, sessions, held, connRc, chipVars, readerVars>>

\* Mutant: nothing is forgotten.
RunProcessRemoteMessagesMutant ==
  /\ Runs("ProcessRemoteMessages") /\ st' = st /\ busy' = TRUE
  /\ UNCHANGED contextVars /\ UnchangedByStep
RunProcessRemoteMessages ==
  /\ Runs("ProcessRemoteMessages") /\ st' = st /\ busy' = TRUE
  /\ IF client = 0 THEN OnResetMessageHandler ELSE UNCHANGED contextVars
  /\ UnchangedByStep

-----------------------------------------------------------------------------
(* A request for a PACE channel. *)

RunUpdateRetryCounter ==
  IF ctxConn
  THEN /\ Runs("UpdateRetryCounter") /\ st' = st /\ busy' = TRUE
       /\ Post("UPDATE_RC", "none", NoWord)
       /\ UNCHANGED <<watching, contextVars, serverVars, chipVars, worldVars, rdRc, sm, msgs>>
  ELSE /\ Leads("UpdateRetryCounter", "EstablishPaceChannelResponse")
       /\ UNCHANGED contextVars /\ UnchangedByStep

\* Mutant: only a new reader is noticed.
RunVerifyRetryCounterMutant ==
  /\ Leads("VerifyRetryCounter", IF ctxConn THEN "PreparePace" ELSE "EstablishPaceChannelResponse")
  /\ IF ctxConn /\ ~expReader
     THEN ResetPacePasswords /\ expReader' = TRUE /\ expRc' = ctxRc
     ELSE UNCHANGED <<passwordVars, expReader, expRc>>
  /\ UNCHANGED <<ctxConn, ctxRc, paceMsg, paceOut, modOut>> /\ UnchangedByStep
\* Another card, or a card somebody else has tried a PIN on: the passwords
\* are not for it.
RunVerifyRetryCounter ==
  /\ Leads("VerifyRetryCounter", IF ctxConn THEN "PreparePace" ELSE "EstablishPaceChannelResponse")
  /\ IF ctxConn /\ (~expReader \/ expRc # ctxRc)
     THEN ResetPacePasswords /\ expReader' = TRUE /\ expRc' = ctxRc
     ELSE UNCHANGED <<passwordVars, expReader, expRc>>
  /\ UNCHANGED <<ctxConn, ctxRc, paceMsg, paceOut, modOut>> /\ UnchangedByStep

RunPreparePace ==
  /\ Leads("PreparePace", IF pw[paceMsg] = NoWord THEN "EnterPacePassword" ELSE "EstablishPaceChannel")
  /\ UNCHANGED contextVars /\ UnchangedByStep

\* The user is asked; the end of the handler is noticed if there is one now.
Asks(s) ==
  /\ Runs(s) /\ st' = st /\ busy' = TRUE
  /\ watching' = (client # 0)
  /\ UNCHANGED <<contextVars, serverVars, chipVars, readerVars>>

RunEstablishPaceChannel ==
  IF ctxConn
  THEN /\ Runs("EstablishPaceChannel") /\ st' = st /\ busy' = TRUE
       /\ Post(IF paceMsg = "PUK" THEN "UNBLOCK" ELSE "PACE", paceMsg, pw[paceMsg])
       /\ UNCHANGED <<watching, contextVars, serverVars, chipVars, worldVars, rdRc, sm, msgs>>
  ELSE /\ Leads("EstablishPaceChannel", "EstablishPaceChannelResponse")
       /\ UNCHANGED contextVars /\ UnchangedByStep

\* The output is sent if there is a handler, to whoever is its client now.
RunEstablishPaceChannelResponse ==
  /\ Leads("EstablishPaceChannelResponse",
           IF paceOut = "INVALID" THEN "ClearPacePasswords" ELSE "ProcessRemoteMessages")
  /\ accepted' = FALSE
  /\ UNCHANGED <<watching, contextVars, serverVars, chipRc, canOpen, changed, readerVars>>

RunClearPacePasswords ==
  /\ Leads("ClearPacePasswords", "ProcessRemoteMessages")
  /\ ResetPacePasswords
  /\ UNCHANGED <<ctxConn, ctxRc, expReader, expRc, paceMsg, paceOut, modOut>> /\ UnchangedByStep

-----------------------------------------------------------------------------
(* A request to change the PIN. *)

RunPrepareChangePin ==
  /\ Leads("PrepareChangePin", IF pw["NEW_PIN"] = NoWord THEN "EnterNewPacePin" ELSE "ChangePin")
  /\ UNCHANGED contextVars /\ UnchangedByStep

RunChangePin ==
  IF ctxConn
  THEN /\ Runs("ChangePin") /\ st' = st /\ busy' = TRUE
       /\ Post("SET_PIN", "none", pw["NEW_PIN"])
       /\ UNCHANGED <<watching, contextVars, serverVars, chipVars, worldVars, rdRc, sm, msgs>>
  ELSE /\ Leads("ChangePin", "ChangePinResponse")
       /\ modOut' = "FAILED"
       /\ UNCHANGED <<passwordVars, ctxConn, ctxRc, expReader, expRc, paceMsg, paceOut>> /\ UnchangedByStep

RunChangePinResponse ==
  /\ Leads("ChangePinResponse", IF modOut = "OK" THEN "ClearPacePasswords" ELSE "ProcessRemoteMessages")
  /\ changed' = FALSE
  /\ UNCHANGED <<watching, contextVars, serverVars, chipRc, canOpen, accepted, readerVars>>

\* onExit stops the server: the handler goes, its card connections with it.
RunStopRemoteService ==
  /\ Leads("StopRemoteService", "FinalState")
  /\ listening' = FALSE /\ client' = 0 /\ DropConnection
  /\ cmds' = Disown(cmds, {"CREATE"}) /\ msgs' = Disown(msgs, {"CREATE"})
  /\ UNCHANGED <<watching, contextVars, sessions, chipVars, worldVars, rdRc, sm>>

Run ==
  \/ RunStartRemoteService
  \/ RunProcessRemoteMessages
  \/ RunUpdateRetryCounter
  \/ RunVerifyRetryCounter
  \/ RunPreparePace
  \/ Asks("EnterPacePassword")
  \/ RunEstablishPaceChannel
  \/ RunEstablishPaceChannelResponse
  \/ RunClearPacePasswords
  \/ RunPrepareChangePin
  \/ Asks("EnterNewPacePin")
  \/ RunChangePin
  \/ RunChangePinResponse
  \/ RunStopRemoteService

-----------------------------------------------------------------------------
(* Replies and signals of the reader thread, one at a time in its order.   *)

Arrives(kind) == busy /\ msgs # <<>> /\ Head(msgs).kind = kind
Taken == msgs' = Tail(msgs)
Goto(s) == st' = s /\ busy' = FALSE

\* Nobody waits for it any more.
DropReply ==
  /\ busy /\ msgs # <<>> /\ Head(msgs).kind # "changed" /\ ~Head(msgs).mine
  /\ Taken
  /\ UNCHANGED <<controlVars, contextVars, serverVars, chipVars, worldVars, rdRc, sm, cmds>>

OnUpdateRetryCounterDone ==
  /\ Arrives("UPDATE_RC") /\ Head(msgs).mine /\ Taken
  /\ IF Head(msgs).code = "OK"
     THEN Goto("VerifyRetryCounter") /\ UNCHANGED <<ctxConn, ctxRc>>
     ELSE Goto("EstablishPaceChannelResponse") /\ ResetCardConnection
  /\ UNCHANGED <<watching, passwordVars, expReader, expRc, paceMsg, paceOut, modOut>>
  /\ UNCHANGED <<serverVars, chipVars, worldVars, rdRc, sm, cmds>>

\* Mutant: a right PIN counts up, as a wrong one counts down.
AfterPinMutant(code) ==
  CASE code = "INVALID" -> expRc - 1
    [] code = "OK" -> expRc + 1
    [] OTHER -> expRc
\* What the answer to a PIN makes of the expected counter.
AfterPin(code) ==
  CASE code = "INVALID" -> expRc - 1
    [] code = "OK" -> FullCounter
    [] OTHER -> expRc

\* CAN and PIN. Only what becomes of a PIN is counted.
OnEstablishConnectionDone ==
  /\ Arrives("PACE") /\ Head(msgs).mine /\ Taken
  /\ Goto("EstablishPaceChannelResponse")
  /\ paceOut' = Head(msgs).code
  /\ expRc' = IF Head(msgs).id = "PIN" THEN AfterPin(Head(msgs).code) ELSE expRc
  /\ UNCHANGED <<watching, passwordVars, ctxConn, ctxRc, expReader, paceMsg, modOut>>
  /\ UNCHANGED <<serverVars, chipVars, worldVars, rdRc, sm, cmds>>

OnUnblockPinDone ==
  /\ Arrives("UNBLOCK") /\ Head(msgs).mine /\ Taken
  /\ Goto("EstablishPaceChannelResponse")
  /\ paceOut' = Head(msgs).code
  /\ IF Head(msgs).code \in {"OK", "INVALID"}
     THEN ResetPacePasswords /\ expRc' = -1
     ELSE UNCHANGED <<passwordVars, expRc>>
  /\ UNCHANGED <<watching, ctxConn, ctxRc, expReader, paceMsg, modOut>>
  /\ UNCHANGED <<serverVars, chipVars, worldVars, rdRc, sm, cmds>>

OnChangePinDone ==
  /\ Arrives("SET_PIN") /\ Head(msgs).mine /\ Taken
  /\ Goto("ChangePinResponse")
  /\ modOut' = Head(msgs).code
  /\ UNCHANGED <<watching, passwordVars, ctxConn, ctxRc, expReader, expRc, paceMsg, paceOut>>
  /\ UNCHANGED <<serverVars, chipVars, worldVars, rdRc, sm, cmds>>

\* The new CardConnection asks its worker for the ReaderInfo and blocks; then
\* it connects to the signals of the worker: it hears none that waits.
OnCreateCardConnectionCommandDone ==
  /\ Arrives("CREATE") /\ Head(msgs).mine
  /\ cmds = <<>>
  /\ IF Head(msgs).code = "OK"
     THEN held' = TRUE /\ connRc' = rdRc /\ msgs' = Disown(Tail(msgs), {"changed"})
     ELSE Taken /\ UNCHANGED <<held, connRc>>
  /\ UNCHANGED <<controlVars, contextVars, listening, client, sessions, chipVars>>
  /\ UNCHANGED <<worldVars, rdRc, sm, cmds>>

\* ServerMessageHandlerImpl::onReaderChanged, after the CardConnections have
\* taken over the ReaderInfo: without a card in the reader the handle goes.
OnReaderChanged ==
  /\ Arrives("changed") /\ Taken
  /\ cmds = <<>>
  /\ IF held /\ present
     THEN held' = held /\ connRc' = IF Head(msgs).mine THEN Head(msgs).rc ELSE connRc
     ELSE DropConnection
  /\ ctxRc' = IF Head(msgs).ctx /\ ctxConn THEN Head(msgs).rc ELSE ctxRc
  /\ UNCHANGED <<controlVars, passwordVars, ctxConn, expReader, expRc, paceMsg, paceOut, modOut>>
  /\ UNCHANGED <<listening, client, sessions, chipVars>>
  /\ UNCHANGED <<worldVars, rdRc, sm, cmds>>

Deliver ==
  \/ DropReply
  \/ OnUpdateRetryCounterDone
  \/ OnEstablishConnectionDone
  \/ OnUnblockPinDone
  \/ OnChangePinDone
  \/ OnCreateCardConnectionCommandDone
  \/ OnReaderChanged

-----------------------------------------------------------------------------
(* The client. Requests for a password are heard in ProcessRemoteMessages  *)
(* only; sent in any other state they are lost and never answered.         *)

Connects ==
  /\ busy /\ listening /\ client = 0 /\ sessions < MaxSessions
  /\ sessions' = sessions + 1 /\ client' = sessions'
  /\ UNCHANGED <<controlVars, contextVars, listening, held, connRc, chipVars, readerVars>>

\* fireClosed deletes the handler before its own slots are through: the reset
\* StateStartRemoteService connects to it never runs; the states hear of
\* "destroyed", if they listen.
Closes ==
  /\ busy /\ client # 0
  /\ client' = 0 /\ DropConnection
  /\ cmds' = Disown(cmds, {"CREATE"}) /\ msgs' = Disown(msgs, {"CREATE"})
  /\ CASE st = "ProcessRemoteMessages" -> OnResetMessageHandler /\ UNCHANGED <<st, busy>>
       [] st = "EnterPacePassword" /\ watching ->
            Goto("EstablishPaceChannelResponse") /\ UNCHANGED contextVars
       [] st = "EnterNewPacePin" /\ watching ->
            Goto("ChangePinResponse") /\ UNCHANGED contextVars
       [] OTHER -> UNCHANGED <<st, busy, contextVars>>
  /\ watching' = FALSE
  /\ UNCHANGED <<listening, sessions, chipVars, worldVars, rdRc, sm>>

Room == Len(cmds) + Len(msgs) < MaxQueue

IfdConnect ==
  /\ busy /\ client # 0 /\ Room
  /\ present /\ ~held
  /\ cmds = <<>>
  /\ \A k \in DOMAIN msgs : msgs[k].kind = "CREATE" => ~msgs[k].mine
  /\ Post("CREATE", "none", NoWord)
  /\ UNCHANGED <<controlVars, contextVars, serverVars, chipVars, worldVars, rdRc, sm, msgs>>

IfdDisconnect ==
  /\ busy /\ held /\ DropConnection
  /\ UNCHANGED <<controlVars, contextVars, listening, client, sessions, chipVars, readerVars>>

\* Mutant: the output of an earlier request stays.
SetEstablishPaceChannelMessageMutant(id) == paceMsg' = id /\ UNCHANGED paceOut
SetEstablishPaceChannelMessage(id) == paceMsg' = id /\ paceOut' = "UNKNOWN"

\* The context takes over the connection of the handler, and what waits for it.
SetCardConnection ==
  /\ ctxConn' = TRUE /\ ctxRc' = connRc
  /\ msgs' = [i \in DOMAIN msgs |->
                IF msgs[i].kind = "changed" THEN [msgs[i] EXCEPT !.ctx = msgs[i].mine] ELSE msgs[i]]

IfdEstablishPaceChannel(id) ==
  /\ Waits("ProcessRemoteMessages") /\ held /\ Room
  /\ Goto("UpdateRetryCounter")
  /\ SetEstablishPaceChannelMessage(id)
  /\ SetCardConnection
  /\ accepted' = FALSE
  /\ UNCHANGED <<watching, passwordVars, expReader, expRc, modOut, serverVars>>
  /\ UNCHANGED <<chipRc, canOpen, changed, worldVars, rdRc, sm, cmds>>

IfdModifyPin ==
  /\ Waits("ProcessRemoteMessages") /\ held /\ Room
  /\ Goto("PrepareChangePin")
  /\ modOut' = "UNKNOWN"
  /\ SetCardConnection
  /\ changed' = FALSE
  /\ UNCHANGED <<watching, passwordVars, expReader, expRc, paceMsg, paceOut, serverVars>>
  /\ UNCHANGED <<chipRc, canOpen, accepted, worldVars, rdRc, sm, cmds>>

\* The first APDU the client has secured itself ends the secure messaging of
\* the worker; the main thread blocks meanwhile. (Any other APDU just goes to
\* the card.)
IfdTransmitSecured ==
  /\ busy /\ held /\ sm
  /\ cmds = <<>>
  /\ sm' = FALSE
  /\ IF st = "ProcessRemoteMessages" THEN Goto("ClearPacePasswords") ELSE UNCHANGED <<st, busy>>
  /\ UNCHANGED <<watching, contextVars, serverVars, chipVars, worldVars, rdRc, cmds, msgs>>

Client ==
  \/ Connects
  \/ Closes
  \/ IfdConnect
  \/ IfdDisconnect
  \/ \E id \in PaceIds : IfdEstablishPaceChannel(id)
  \/ IfdModifyPin
  \/ IfdTransmitSecured

-----------------------------------------------------------------------------
(* The user at the phone. *)

EnterPacePassword(word) ==
  /\ Waits("EnterPacePassword") /\ Goto("EstablishPaceChannel")
  /\ pw' = [pw EXCEPT ![paceMsg] = word]
  /\ rejections' = IF paceMsg = "PIN" THEN 0 ELSE rejections
  /\ watching' = FALSE /\ UNCHANGED <<ctxConn, ctxRc, expReader, expRc, paceMsg, paceOut, modOut>>
  /\ UNCHANGED <<serverVars, chipRc, canOpen, accepted, changed, readerVars>>

\* Any new PIN will do.
EnterNewPacePin ==
  /\ Waits("EnterNewPacePin") /\ Goto("ChangePin")
  /\ pw' = [pw EXCEPT !["NEW_PIN"] = "right"] /\ UNCHANGED rejections
  /\ watching' = FALSE /\ UNCHANGED <<ctxConn, ctxRc, expReader, expRc, paceMsg, paceOut, modOut>>
  /\ UNCHANGED <<serverVars, chipVars, readerVars>>

CancelOutput(out) == IF client = 0 THEN out ELSE "FAILED"

CancelPasswordRequest ==
  /\ \/ /\ Waits("EnterPacePassword") /\ Goto("EstablishPaceChannelResponse")
        /\ paceOut' = CancelOutput(paceOut) /\ UNCHANGED modOut
     \/ /\ Waits("EnterNewPacePin") /\ Goto("ChangePinResponse")
        /\ modOut' = CancelOutput(modOut) /\ UNCHANGED paceOut
  /\ watching' = FALSE /\ UNCHANGED <<passwordVars, ctxConn, ctxRc, expReader, expRc, paceMsg>>
  /\ UNCHANGED <<serverVars, chipVars, readerVars>>

\* RemoteServiceModel::setRunning(false) emits fireCancelWorkflow: every state
\* aborts, but only one of them to the end of the service.
Stop ==
  /\ busy /\ busy' = FALSE
  /\ IF st = "ProcessRemoteMessages" THEN UNCHANGED stops
     ELSE stops < MaxStops /\ stops' = stops + 1
  /\ st' = CASE st = "ProcessRemoteMessages" -> "StopRemoteService"
              [] st \in {"EnterNewPacePin", "ChangePin"} -> "ChangePinResponse"
              [] OTHER -> "EstablishPaceChannelResponse"
  /\ cmds' = Disown(cmds, OfState) /\ msgs' = Disown(msgs, OfState)
  /\ watching' = FALSE
  /\ UNCHANGED <<contextVars, serverVars, chipVars, present, moves, failures, rdRc, sm>>

User ==
  \/ \E word \in Words : EnterPacePassword(word)
  \/ EnterNewPacePin
  \/ CancelPasswordRequest
  \/ Stop

-----------------------------------------------------------------------------
(* The reader thread and the card. *)

Executes(kind) == cmds # <<>> /\ Head(cmds).kind = kind
Answer(code) == [kind |-> Head(cmds).kind, id |-> Head(cmds).id, code |-> code, mine |-> Head(cmds).mine]
Finish(code) == cmds' = Tail(cmds) /\ msgs' = Append(msgs, Answer(code))

Signal(rc) == [kind |-> "changed", rc |-> rc, mine |-> held, ctx |-> ctxConn]

ExecuteCreate ==
  /\ Executes("CREATE")
  /\ \/ present /\ Finish("OK") /\ sm' = FALSE
     \/ Finish("FAILED") /\ UNCHANGED sm
  /\ UNCHANGED <<controlVars, contextVars, serverVars, chipVars, worldVars, rdRc>>

\* The change is signalled only if a counter was known before.
ExecuteUpdateRetryCounter ==
  /\ Executes("UPDATE_RC")
  /\ \/ Finish("FAILED") /\ UNCHANGED rdRc
     \/ /\ present
        /\ rdRc' = chipRc
        /\ cmds' = Tail(cmds)
        /\ msgs' = msgs \o (IF rdRc \in {-1, chipRc} THEN <<>> ELSE <<Signal(chipRc)>>) \o <<Answer("OK")>>
  /\ UNCHANGED <<controlVars, contextVars, serverVars, chipVars, worldVars, sm>>

\* What the chip says to a password, its counter and CAN channel afterwards.
ChipAnswer(id, word) ==
  CASE id = "CAN" -> [code |-> IF word = "right" THEN "OK" ELSE "INVALID",
                      rc |-> chipRc, can |-> word = "right"]
    [] id = "PUK" -> IF word = "right" THEN [code |-> "OK", rc |-> FullCounter, can |-> FALSE]
                     ELSE [code |-> "INVALID", rc |-> chipRc, can |-> FALSE]
    [] OTHER -> IF chipRc = 0 \/ (chipRc = 1 /\ ~canOpen)
                THEN [code |-> "FAILED", rc |-> chipRc, can |-> canOpen]
                ELSE IF word = "right" THEN [code |-> "OK", rc |-> FullCounter, can |-> FALSE]
                ELSE [code |-> "INVALID", rc |-> chipRc - 1, can |-> FALSE]

\* Its answer may get lost on the way.
ChipWorks(id, word) ==
  LET a == ChipAnswer(id, word)
  IN /\ present
     /\ chipRc' = a.rc /\ canOpen' = a.can
     /\ rejections' = IF id = "PIN" /\ a.code = "INVALID" THEN rejections + 1 ELSE rejections
     /\ accepted' = (accepted \/ (Head(cmds).mine /\ a.code = "OK"))
     /\ \/ Finish(a.code) /\ sm' = (sm \/ a.code = "OK")
        \/ Finish("FAILED") /\ UNCHANGED sm
     /\ UNCHANGED changed

ExecuteEstablishPaceChannel ==
  /\ Executes("PACE")
  /\ \/ ChipWorks(Head(cmds).id, Head(cmds).word)
     \/ Finish("FAILED") /\ UNCHANGED <<sm, chipVars, rejections>>
  /\ UNCHANGED <<controlVars, pw, settingVars, serverVars, worldVars, rdRc>>

\* A PIN that is not known to be blocked is refused like a wrong password. The
\* channel of the PUK stays when the reset of the counter or its answer fails.
ExecuteUnblockPin ==
  /\ Executes("UNBLOCK")
  /\ \/ rdRc <= 0 /\ ChipWorks("PUK", Head(cmds).word)
     \/ /\ rdRc <= 0 /\ present /\ Head(cmds).word = "right"
        /\ chipRc' \in {chipRc, FullCounter} /\ canOpen' = FALSE /\ sm' = TRUE
        /\ Finish("FAILED") /\ UNCHANGED <<accepted, changed, rejections>>
     \/ rdRc > 0 /\ Finish("INVALID") /\ UNCHANGED <<sm, chipVars, rejections>>
     \/ Finish("FAILED") /\ UNCHANGED <<sm, chipVars, rejections>>
  /\ UNCHANGED <<controlVars, pw, settingVars, serverVars, worldVars, rdRc>>

ExecuteSetEidPin ==
  /\ Executes("SET_PIN")
  /\ \/ present /\ Finish("OK") /\ changed' = (changed \/ Head(cmds).mine)
     \/ Finish("FAILED") /\ UNCHANGED changed
  /\ UNCHANGED <<controlVars, contextVars, serverVars, chipRc, canOpen, accepted>>
  /\ UNCHANGED <<worldVars, rdRc, sm>>

ReaderThread ==
  \/ ExecuteCreate
  \/ ExecuteUpdateRetryCounter
  \/ ExecuteEstablishPaceChannel
  \/ ExecuteUnblockPin
  \/ ExecuteSetEidPin

\* The card is put down and read; reading its counter may fail.
PutCard ==
  /\ ~present /\ present' = TRUE
  /\ moves < MaxMoves /\ moves' = moves + 1
  /\ \/ rdRc' = chipRc /\ UNCHANGED failures
     \/ rdRc' = -1 /\ failures < MaxReadFailures /\ failures' = failures + 1
  /\ msgs' = Append(msgs, Signal(rdRc'))
  /\ UNCHANGED <<controlVars, contextVars, serverVars, chipVars, stops, sm, cmds>>

TakeCard ==
  /\ present /\ present' = FALSE
  /\ moves < MaxMoves /\ moves' = moves + 1
  /\ rdRc' = -1 /\ canOpen' = FALSE
  /\ msgs' = Append(msgs, Signal(-1))
  /\ UNCHANGED <<controlVars, contextVars, serverVars, chipRc, accepted, changed, failures, stops, sm, cmds>>

-----------------------------------------------------------------------------
MainThread == Run \/ Deliver

Terminated == st = "FinalState" /\ UNCHANGED vars

Next ==
  \/ MainThread
  \/ ReaderThread
  \/ Client
  \/ User
  \/ PutCard
  \/ TakeCard
  \/ Terminated

Spec == Init /\ [][Next]_vars

-----------------------------------------------------------------------------
(* Properties. *)

\* A PIN the chip has rejected is not sent to it once more without the user
\* entering it again: not when the answer is lost, not when a stop throws the
\* answer away, not for the next request nor for the next client. (The first
\* time the counter of a card cannot be read is harmless; when it happens
\* again, the -1 of then passes for the -1 of now.)
RejectedPinNotSentAgain == failures <= 1 => rejections <= 1

\* "OK" is answered to a request only if the chip has accepted the password,
\* or changed the PIN, for this request, whatever an earlier one has left in
\* the context.
AnswerIsHonest ==
  /\ Runs("EstablishPaceChannelResponse") /\ paceOut = "OK" => accepted
  /\ Runs("ChangePinResponse") /\ modOut = "OK" => changed

Forgotten == pw = NoPasswords /\ ~ctxConn /\ paceMsg = "none"

\* While the service waits and no client is there, nothing is left of those
\* that have been: no password, no card connection, no message; whatever state
\* the service was in when its client went.
IdleForgets == Waits("ProcessRemoteMessages") /\ client = 0 => Forgotten
=============================================================================
