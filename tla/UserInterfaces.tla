--------------------------- MODULE UserInterfaces ---------------------------
(***************************************************************************)
(* AppController with those who approve its workflows' states: the         *)
(* graphical user interface (UIPlugInWidgets) and an SDK client that talks *)
(* to the JSON API (UIPlugInJsonApi, MessageDispatcher) over a WebSocket   *)
(* (UIPlugInWebSocket). A client dominates the user interface: only one of *)
(* the two sees the workflows that start.                                  *)
(*                                                                         *)
(* All of it runs in the main thread. A client that asks for the WebSocket *)
(* gets the domination at once; the handshake is finished by a later event *)
(* and only then the JSON API is enabled.                                  *)
(***************************************************************************)
EXTENDS AppController

CONSTANT SdkRequests   \* the authentication requests the client makes (RUN_AUTH)

ASSUME SdkAssumption == SdkRequests \subseteq AuthRequests

(* What a state asks the client (MsgHandler::getStateMsgType). INSERT_CARD *)
(* asks nothing: the state is approved before the message is sent.         *)
Questions == {"ENTER_PIN", "ENTER_CAN", "ENTER_PUK", "ACCESS_RIGHTS"}

VARIABLES
  client,      \* UIPlugInWebSocket: mRequest, mConnection; "lost" if the handshake failed
  step,        \* the state the workflow is in, by what it asks; "asleep": see below
  approved,    \* its context: mStateApproved
  cancelled,   \* its context: fireCancelWorkflow was emitted
  gui,         \* the graphical user interface has the workflow (mActiveWorkflowUi)
  socket,      \* UIPlugInWebSocket has it (mContext)
  dialogue,    \* MessageDispatcher has it: "auth" or "other"; "none" if not
  lastMsg      \* MsgContext: the last of mStateMessages

stepVars == <<step, approved, cancelled, lastMsg>>
attendVars == <<gui, socket, dialogue>>
uiVars == <<client, stepVars, attendVars>>
allVars == <<vars, uiVars>>

UiTypeOK ==
  /\ TypeOK
  /\ client \in {"none", "handshake", "lost", "connected"}
  /\ step \in {"none", "asleep", "plain", "final"} \cup Questions
  /\ approved \in BOOLEAN /\ cancelled \in BOOLEAN
  /\ gui \in BOOLEAN /\ socket \in BOOLEAN
  /\ dialogue \in {"none", "auth", "other"}
  /\ lastMsg \in {"none", "plain"} \cup Questions

UiInit ==
  /\ Init
  /\ client = "none"
  /\ step = "none" /\ approved = FALSE /\ cancelled = FALSE
  /\ gui = FALSE /\ socket = FALSE /\ dialogue = "none" /\ lastMsg = "none"

(* mUiDomination of AppController and of the WebSocket, held from the      *)
(* client's request to its end; the window is disabled as long.            *)
uiDomination == client # "none"

(* UIPlugInJsonApi::mEnabled *)
enabled == client = "connected"

-----------------------------------------------------------------------------
(* States and their approval. *)

(* Mutant: only states that ask something are remembered. *)
AddStateMsgMutant(k) == IF dialogue = "auth" /\ k \in Questions THEN k ELSE lastMsg

(* addStateMsg: a state that asks nothing is remembered, too. *)
AddStateMsg(k) ==
  IF dialogue # "auth" THEN lastMsg
  ELSE IF k \in Questions THEN k ELSE "plain"

(* Mutant: a JSON API that is no longer enabled hears of no state. *)
ApprovedOnEntryMutant(k) ==
  killed' \/ (k \notin Questions /\ (gui' \/ (dialogue' = "auth" /\ client' = "connected")))

(* Who sees the workflow approves a state that asks nothing; the JSON API  *)
(* does so for authentications. A killed workflow needs nobody.            *)
ApprovedOnEntry(k) == killed' \/ (k \notin Questions /\ (gui' \/ dialogue' = "auth"))

(* AbstractState::onEntry and, inside it, the interfaces' onStateChanged.  *)
EnterState(k) ==
  /\ step' = k
  /\ lastMsg' = AddStateMsg(k)
  /\ approved' = ApprovedOnEntry(k)

(* AbstractState::onUserCancelled: the state is left, approved or not.     *)
CancelWorkflow ==
  IF phase = "running"
  THEN EnterState("plain") /\ cancelled' = TRUE
  ELSE UNCHANGED stepVars

(* killWorkflow approves the state that waits and cancels it. Before the   *)
(* first state nobody hears of either; what stays is mStateApproved.       *)
WorkflowKilled ==
  IF phase = "starting"
  THEN approved' = TRUE /\ UNCHANGED <<step, cancelled, lastMsg>>
  ELSE CancelWorkflow

(* A state runs when its approval changes: one that is approved before it  *)
(* is entered sleeps until it is cancelled, unless the window takes the    *)
(* approval back (the reminder of the transport PIN).                      *)
FirstState ==
  /\ UNCHANGED cancelled
  /\ \/ ~approved /\ EnterState("plain")
     \/ approved /\ gui /\ active # "PIN" /\ EnterState("plain")
     \/ approved /\ step' = "asleep" /\ lastMsg' = AddStateMsg("plain") /\ UNCHANGED approved

(* A state that waits is approved and runs: it asks, and goes on when it   *)
(* has its answer.                                                         *)
SetStateApproved ==
  IF step \in Questions /\ ~approved THEN EnterState("plain")
  ELSE approved' = TRUE /\ UNCHANGED <<step, lastMsg>>

-----------------------------------------------------------------------------
(* The interfaces hear of workflows. *)

(* onWorkflowStarted of the three. What the window approves at the end of  *)
(* its own has been entered and approved by then, since it serves the      *)
(* events that are posted when it shows itself (AppQtGui::show).           *)
WorkflowStarted(r) ==
  /\ gui' = ~uiDomination
  /\ socket' = uiDomination
  /\ dialogue' = IF ~enabled THEN "none"
                 ELSE IF r \in AuthRequests \cup {"SELF"} THEN "auth" ELSE "other"
  /\ step' = "none" /\ approved' = FALSE /\ cancelled' = FALSE /\ lastMsg' = "none"

(* onWorkflowFinished of the three. *)
WorkflowFinished ==
  /\ gui' = FALSE /\ socket' = FALSE /\ dialogue' = "none" /\ lastMsg' = "none"
  /\ step' = "none" /\ approved' = FALSE /\ cancelled' = FALSE

(* AppController handles an event; a request that waited starts at once. *)
HandleEvent ==
  /\ Handle
  /\ UNCHANGED client
  /\ CASE active' = Nobody -> WorkflowFinished
       [] active' # Nobody /\ Head(posted) = "start" -> UNCHANGED attendVars /\ FirstState
       [] active' # Nobody /\ Head(posted) = "quit" -> UNCHANGED attendVars /\ WorkflowKilled
       [] active' # Nobody /\ Head(posted) \in Requests \cup {"complete"}
            /\ (active = Nobody \/ Head(posted) = "complete") -> WorkflowStarted(active')
       [] OTHER -> UNCHANGED <<stepVars, attendVars>>

-----------------------------------------------------------------------------
(* The client's connection. *)

(* Mutant: a workflow that runs does not matter. *)
DominationAcceptedMutant == ~uiDomination

(* AppController::onUiDominationRequested *)
DominationAccepted == ~uiDomination /\ active = Nobody

(* A refused request (409, 429) leaves everything as it is. The HTTP server *)
(* is gone one event after the first completeShutdown, here at once.       *)
OnNewWebSocketRequest ==
  /\ ~quitted /\ completions = 0
  /\ DominationAccepted
  /\ client' = "handshake"
  /\ UNCHANGED <<vars, stepVars, attendVars>>

(* QWebSocketServer has finished the handshake. *)
OnNewConnection ==
  /\ ~quitted /\ phase # "starting" /\ client = "handshake"
  /\ client' = "connected"
  /\ UNCHANGED <<vars, stepVars, attendVars>>

(* It refuses the handshake and closes the connection: nobody is told.     *)
HandshakeFails ==
  /\ ~quitted /\ phase # "starting" /\ client = "handshake"
  /\ client' = "lost"
  /\ UNCHANGED <<vars, stepVars, attendVars>>

(* The workflow is cancelled, the domination released, the JSON API no     *)
(* longer enabled.                                                         *)
OnClientDisconnected ==
  /\ ~quitted /\ phase # "starting" /\ client = "connected"
  /\ client' = "none"
  /\ UNCHANGED <<attendVars, vars>>
  /\ IF socket THEN CancelWorkflow ELSE UNCHANGED stepVars

-----------------------------------------------------------------------------
(* The client's commands (MessageDispatcher::createForCommand). One that   *)
(* does not fit is answered BAD_STATE and changes nothing.                 *)

RunAuth(r) ==
  /\ enabled /\ dialogue = "none"
  /\ CallerAsks(r)
  /\ UNCHANGED uiVars

(* SET_PIN, SET_CAN, SET_PUK, ACCEPT: the last message decides. *)
Answer(q) ==
  /\ ~quitted /\ enabled /\ lastMsg = q
  /\ UNCHANGED <<vars, client, attendVars, cancelled>>
  /\ SetStateApproved

Cancel ==
  /\ ~quitted /\ enabled /\ dialogue # "none" /\ phase = "running"
  /\ UNCHANGED <<vars, client, attendVars>>
  /\ CancelWorkflow

-----------------------------------------------------------------------------
(* The user and the browser. *)

(* The window is disabled while a client dominates. *)
GuiAsks(k) ==
  /\ ~uiDomination
  /\ UiAsks(k)
  /\ UNCHANGED uiVars

GuiAnswers ==
  /\ ~quitted /\ gui /\ step \in Questions /\ ~approved
  /\ UNCHANGED <<vars, client, attendVars, cancelled>>
  /\ SetStateApproved

GuiCancels ==
  /\ ~quitted /\ gui /\ phase = "running"
  /\ UNCHANGED <<vars, client, attendVars>>
  /\ CancelWorkflow

(* The result is shown until the user has seen it. *)
GuiConfirms ==
  /\ gui
  /\ ApproveFinalState
  /\ UNCHANGED uiVars

(* completeShutdown stops the WebserviceActivationHandler. *)
BrowserAsks(r) ==
  /\ r \notin SdkRequests /\ completions = 0
  /\ CallerAsks(r)
  /\ UNCHANGED uiVars

-----------------------------------------------------------------------------
(* The workflow, with what it has to do reduced to what it asks. *)

AskQuestion(q) ==
  /\ ~quitted /\ phase = "running" /\ step = "plain" /\ approved
  /\ ~cancelled /\ ~killed
  /\ UNCHANGED <<vars, client, attendVars, cancelled>>
  /\ EnterState(q)

(* The FinalState is approved like every state that asks nothing, but the  *)
(* window may keep it open for a dialog, and does so for the data that a   *)
(* self-authentication shows.                                              *)
EnterFinalState ==
  /\ step = "plain" /\ approved
  /\ ReachFinalState
  /\ cancelled => failed'
  /\ phase' = "final" => dialogue # "auth" /\ ~killed
  /\ phase' = "finished" => dialogue = "auth" \/ killed \/ (gui /\ (active = "SELF" => failed'))
  /\ UNCHANGED <<client, attendVars, cancelled, approved>>
  /\ step' = "final" /\ lastMsg' = AddStateMsg("final")

UserQuits ==
  /\ QuitRequested
  /\ UNCHANGED <<client, attendVars>>
  /\ WorkflowKilled

SignalQuits == GetSignal /\ UNCHANGED uiVars

QuitLoop == Quit /\ UNCHANGED uiVars

UiTerminated == quitted /\ UNCHANGED allVars

-----------------------------------------------------------------------------
UiNext ==
  \/ HandleEvent
  \/ OnNewWebSocketRequest
  \/ OnNewConnection
  \/ HandshakeFails
  \/ OnClientDisconnected
  \/ \E r \in SdkRequests : RunAuth(r)
  \/ \E q \in Questions : Answer(q)
  \/ Cancel
  \/ \E k \in {"PIN", "SELF"} : GuiAsks(k)
  \/ GuiAnswers
  \/ GuiCancels
  \/ GuiConfirms
  \/ \E r \in AuthRequests : BrowserAsks(r)
  \/ \E q \in Questions : AskQuestion(q)
  \/ EnterFinalState
  \/ UserQuits
  \/ SignalQuits
  \/ QuitLoop
  \/ UiTerminated

(* The event loop runs. A workflow that was cancelled or killed comes to   *)
(* its end if its states are approved (modules ChangePinController and     *)
(* AuthController, ErrorEnds and KilledStops).                             *)
EndingRuns == (cancelled \/ killed) /\ EnterFinalState

UiSpec == UiInit /\ [][UiNext]_allVars /\ WF_allVars(HandleEvent) /\ WF_allVars(EndingRuns)

-----------------------------------------------------------------------------
(* The window serves a workflow only while no client dominates it: it is   *)
(* not disabled under the user's hands, and hears of the workflow's end.   *)
OneInCharge == gui => ~uiDomination /\ dialogue = "none"

(* A command that enters a password or accepts the access rights is taken  *)
(* only while the very state that asked for it waits for it.               *)
CommandsFit ==
  lastMsg \in Questions => phase = "running" /\ step = lastMsg /\ ~approved

(* A quit request leads to the end of the client's services, whatever runs, *)
(* unless it has hit a workflow before its first state.                     *)
ShutdownCompletes == shutdownRunning ~> (completions > 0 \/ step = "asleep")

(* What a client leaves behind comes to its end without it: the JSON API   *)
(* goes on approving the states of a workflow it has seen, although it is  *)
(* no longer enabled.                                                      *)
ClientLeavesNothing ==
  (dialogue = "auth" /\ client = "none") ~> (dialogue = "none" \/ quitted)

(* "Make sure the workflow runs to the end without user interaction."      *)
(* (AppController::doShutdown): no quit request needs another one.         *)
ShutdownNeedsNobody == shutdownRunning ~> completions > 0
=============================================================================
