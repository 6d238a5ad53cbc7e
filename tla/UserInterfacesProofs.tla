------------------------ MODULE UserInterfacesProofs ------------------------
(***************************************************************************)
(* AppController with its user interfaces, for any number of callers: all  *)
(* that is proved of AppController alone holds for the composition, the    *)
(* window and the JSON API are never both in charge, and the client's      *)
(* commands meet the state they are meant for.                             *)
(***************************************************************************)
EXTENDS UserInterfaces, AppControllerProofs

(* A step of the composition is one of AppController or leaves it alone.   *)
LEMMA StepIsController ==
  ASSUME [UiNext]_allVars
  PROVE  [Next]_vars
<1>1. CASE HandleEvent
  BY <1>1 DEF HandleEvent, Next
<1>2. CASE OnNewWebSocketRequest \/ OnNewConnection \/ HandshakeFails \/ OnClientDisconnected
  BY <1>2 DEF OnNewWebSocketRequest, OnNewConnection, HandshakeFails, OnClientDisconnected
<1>3. ASSUME NEW r \in SdkRequests, RunAuth(r) PROVE [Next]_vars
  BY <1>3, SdkAssumption DEF RunAuth, Next
<1>4. ASSUME NEW q \in Questions, Answer(q) PROVE UNCHANGED vars
  BY <1>4 DEF Answer
<1>5. CASE Cancel \/ GuiAnswers \/ GuiCancels
  BY <1>5 DEF Cancel, GuiAnswers, GuiCancels
<1>6. ASSUME NEW k \in {"PIN", "SELF"}, GuiAsks(k) PROVE [Next]_vars
  <2>1. k \in UiRequests
    BY DEF UiRequests
  <2> QED BY <1>6, <2>1 DEF GuiAsks, Next
<1>7. CASE GuiConfirms
  BY <1>7 DEF GuiConfirms, Next
<1>8. ASSUME NEW r \in AuthRequests, BrowserAsks(r) PROVE [Next]_vars
  BY <1>8 DEF BrowserAsks, Next
<1>9. ASSUME NEW q \in Questions, AskQuestion(q) PROVE UNCHANGED vars
  BY <1>9 DEF AskQuestion
<1>10. CASE EnterFinalState
  BY <1>10 DEF EnterFinalState, Next
<1>11. CASE UserQuits \/ SignalQuits \/ QuitLoop
  BY <1>11 DEF UserQuits, SignalQuits, QuitLoop, Next
<1>12. CASE UiTerminated \/ UNCHANGED allVars
  BY <1>12 DEF UiTerminated, allVars
<1> QED BY <1>1, <1>2, <1>3, <1>4, <1>5, <1>6, <1>7, <1>8, <1>9, <1>10, <1>11, <1>12
        DEF UiNext

-----------------------------------------------------------------------------
(* The inductive invariant of the composition. *)

(* The window serves only a workflow that exists. *)
GuiServesWorkflow == gui => active # Nobody

(* Only an authentication asks the client. *)
OnlyAuthAsks == lastMsg \in Questions => dialogue = "auth"

UiRanges ==
  /\ client \in {"none", "handshake", "lost", "connected"}
  /\ step \in {"none", "asleep", "plain", "final"} \cup Questions
  /\ approved \in BOOLEAN /\ cancelled \in BOOLEAN
  /\ gui \in BOOLEAN /\ socket \in BOOLEAN
  /\ dialogue \in {"none", "auth", "other"}
  /\ lastMsg \in {"none", "plain"} \cup Questions

UiInv ==
  /\ UiRanges
  /\ OneInCharge
  /\ GuiServesWorkflow
  /\ CommandsFit
  /\ OnlyAuthAsks

(* A state that is left because it was answered or cancelled.              *)
LEMMA EnterPlain ==
  ASSUME UiInv, EnterState("plain"), killed' \in BOOLEAN, gui' = gui, dialogue' = dialogue,
         client' = client
  PROVE  /\ step' = "plain" /\ approved' \in BOOLEAN
         /\ lastMsg' \in {"none", "plain"}
BY DEF UiInv, UiRanges, OnlyAuthAsks, EnterState, AddStateMsg, ApprovedOnEntry, Questions

(* Whoever leaves the client and the interfaces' hold on workflows as they *)
(* are has to look after the commands only.                                *)
LEMMA AttendanceKept ==
  ASSUME UiInv, UNCHANGED <<client, attendVars>>, active' = active,
         step' \in {"none", "asleep", "plain", "final"} \cup Questions,
         approved' \in BOOLEAN, cancelled' \in BOOLEAN,
         lastMsg' \in {"none", "plain"} \cup Questions,
         CommandsFit', OnlyAuthAsks'
  PROVE  UiInv'
BY DEF UiInv, UiRanges, OneInCharge, uiDomination, GuiServesWorkflow, attendVars

LEMMA CancelWorkflowInv ==
  ASSUME UiInv, CancelWorkflow, UNCHANGED attendVars, client' = client,
         killed' \in BOOLEAN, active' = active, phase = "running" \/ phase' # "running"
  PROVE  UiInv'
<1>1. CASE phase = "running"
  <2>1. /\ step' = "plain" /\ approved' \in BOOLEAN
        /\ lastMsg' \in {"none", "plain"} /\ cancelled' = TRUE
    BY <1>1, EnterPlain DEF CancelWorkflow, attendVars
  <2>2. CommandsFit' /\ OnlyAuthAsks'
    BY <2>1 DEF CommandsFit, OnlyAuthAsks, Questions
  <2> QED BY <2>1, <2>2, AttendanceKept
<1>2. CASE phase # "running"
  <2>1. UNCHANGED stepVars
    BY <1>2 DEF CancelWorkflow
  <2>2. CommandsFit' /\ OnlyAuthAsks'
    BY <1>2, <2>1 DEF UiInv, CommandsFit, OnlyAuthAsks, stepVars, attendVars
  <2>3. UiRanges
    BY DEF UiInv
  <2> QED BY <2>1, <2>2, <2>3, AttendanceKept DEF stepVars, UiRanges
<1> QED BY <1>1, <1>2

LEMMA SetStateApprovedInv ==
  ASSUME UiInv, SetStateApproved, UNCHANGED <<vars, client, attendVars, cancelled>>,
         killed \in BOOLEAN
  PROVE  UiInv'
<1>1. UNCHANGED <<active, phase, killed>>
  BY DEF vars, workflowVars
<1>2. UiRanges
  BY DEF UiInv
<1>3. CASE step \in Questions /\ ~approved
  <2>1. /\ step' = "plain" /\ approved' \in BOOLEAN /\ lastMsg' \in {"none", "plain"}
    BY <1>1, <1>3, EnterPlain DEF SetStateApproved, attendVars
  <2>2. CommandsFit' /\ OnlyAuthAsks'
    BY <2>1 DEF CommandsFit, OnlyAuthAsks, Questions
  <2> QED BY <1>1, <1>2, <2>1, <2>2, AttendanceKept DEF UiRanges
<1>4. CASE ~(step \in Questions /\ ~approved)
  <2>1. approved' = TRUE /\ UNCHANGED <<step, lastMsg>>
    BY <1>4 DEF SetStateApproved
  <2>2. lastMsg \notin Questions
    BY <1>4 DEF UiInv, CommandsFit
  <2>3. CommandsFit' /\ OnlyAuthAsks'
    BY <2>1, <2>2 DEF CommandsFit, OnlyAuthAsks
  <2> QED BY <1>1, <1>2, <2>1, <2>3, AttendanceKept DEF UiRanges
<1> QED BY <1>3, <1>4

(* Nobody but the event loop touches the workflow, so its end is the only  *)
(* thing a step without the interfaces may bring.                          *)
LEMMA UiUnchangedInv ==
  ASSUME UiInv, UNCHANGED uiVars, active' = active,
         phase = "running" => phase' = "running"
  PROVE  UiInv'
BY DEF UiInv, UiRanges, OneInCharge, uiDomination, GuiServesWorkflow, CommandsFit, OnlyAuthAsks,
       uiVars, stepVars, attendVars

-----------------------------------------------------------------------------
(* Every step preserves it. *)

(* What the event at the head is, by whom it was handled.                  *)
LEMMA Handled ==
  ASSUME Handle, IInv
  PROVE  /\ Head(posted) = "start" => EnterFirstState
         /\ Head(posted) = "quit" => OnSignal
         /\ Head(posted) = "complete" => OnWorkflowFinished
         /\ (Head(posted) \notin {"start", "quit", "complete"} /\ active # Nobody)
              => (phase = "running" => phase' = "running")
         /\ Head(posted) \notin Requests \cup {"start", "quit", "complete"}
              => active' = active
<1>1. \A r \in AuthRequests : r \notin {"start", "quit", "complete"}
  BY Kinds DEF Ends
<1> QED BY <1>1 DEF Handle, OnChangePinRequested, OnUiWorkflowRequested,
                OnAuthenticationRequest, EnterFirstState, OnMachineFinished, OnSignal,
                OnWorkflowFinished, Arrives, canStartNewAction, Approve, workflowVars,
                Requests, UiRequests

LEMMA WorkflowKilledInv ==
  ASSUME UiInv, NEW q, DoShutdown(q), WorkflowKilled, UNCHANGED <<client, attendVars>>,
         killed' \in BOOLEAN
  PROVE  UiInv'
<1>1. /\ active' = active
      /\ phase = "running" \/ phase' # "running"
  BY DEF DoShutdown, KillWorkflow, Approve
<1>2. CASE phase = "starting"
  <2>1. approved' = TRUE /\ UNCHANGED <<step, cancelled, lastMsg>>
    BY <1>2 DEF WorkflowKilled
  <2>2. lastMsg \notin Questions /\ UiRanges
    BY <1>2 DEF UiInv, CommandsFit
  <2>3. CommandsFit' /\ OnlyAuthAsks'
    BY <2>1, <2>2 DEF CommandsFit, OnlyAuthAsks
  <2> QED BY <1>1, <2>1, <2>2, <2>3, AttendanceKept DEF UiRanges
<1>3. CASE phase # "starting"
  BY <1>1, <1>3, CancelWorkflowInv DEF WorkflowKilled
<1> QED BY <1>2, <1>3

LEMMA FirstStateInv ==
  ASSUME UiInv, EnterFirstState, FirstState, UNCHANGED <<client, attendVars>>,
         killed' \in BOOLEAN
  PROVE  UiInv'
<1>1. active' = active /\ phase = "starting"
  BY DEF EnterFirstState
<1>2. lastMsg \notin Questions /\ UiRanges
  BY <1>1 DEF UiInv, CommandsFit
<1>3. /\ step' \in {"asleep", "plain"} /\ approved' \in BOOLEAN /\ cancelled' = cancelled
      /\ lastMsg' \in {"none", "plain"}
  <2>1. CASE EnterState("plain")
    BY <2>1, EnterPlain DEF FirstState, attendVars
  <2>2. CASE step' = "asleep" /\ lastMsg' = AddStateMsg("plain") /\ UNCHANGED approved
    BY <1>2, <2>2 DEF FirstState, AddStateMsg, UiRanges, Questions
  <2> QED BY <2>1, <2>2 DEF FirstState
<1>4. CommandsFit' /\ OnlyAuthAsks'
  BY <1>3 DEF CommandsFit, OnlyAuthAsks, Questions
<1> QED BY <1>1, <1>2, <1>3, <1>4, AttendanceKept DEF UiRanges

LEMMA HandleEventInv ==
  ASSUME UiInv, IInv, HandleEvent, killed' \in BOOLEAN
  PROVE  UiInv'
<1>1. client' = client /\ UiRanges /\ Handle
  BY DEF HandleEvent, UiInv
<1>2. CASE active' = Nobody
  <2>1. WorkflowFinished
    BY <1>2 DEF HandleEvent
  <2> QED BY <1>1, <2>1
          DEF WorkflowFinished, UiInv, UiRanges, OneInCharge, GuiServesWorkflow, CommandsFit,
              OnlyAuthAsks, Questions
<1>3. CASE active' # Nobody /\ Head(posted) = "start"
  <2>1. FirstState /\ UNCHANGED attendVars
    BY <1>3, Kinds DEF HandleEvent, Requests
  <2> QED BY <1>1, <1>3, <2>1, Handled, FirstStateInv
<1>4. CASE active' # Nobody /\ Head(posted) = "quit"
  <2>1. WorkflowKilled /\ UNCHANGED attendVars
    BY <1>4, Kinds DEF HandleEvent, Requests
  <2>2. DoShutdown(Tail(posted))
    BY <1>1, <1>4, Handled DEF OnSignal
  <2> QED BY <1>1, <2>1, <2>2, WorkflowKilledInv
<1>5. CASE /\ active' # Nobody /\ Head(posted) \in Requests \cup {"complete"}
           /\ active = Nobody \/ Head(posted) = "complete"
  <2>1. WorkflowStarted(active')
    BY <1>5, Kinds DEF HandleEvent, Requests, Ends
  <2>2. /\ gui' = (client = "none") /\ socket' \in BOOLEAN
        /\ dialogue' \in {"none", "auth", "other"}
        /\ client # "connected" => dialogue' = "none"
        /\ step' = "none" /\ cancelled' = FALSE /\ approved' = FALSE /\ lastMsg' = "none"
    BY <2>1 DEF WorkflowStarted, uiDomination, enabled
  <2> QED BY <1>1, <1>5, <2>2
          DEF UiInv, UiRanges, OneInCharge, uiDomination, GuiServesWorkflow, CommandsFit,
              OnlyAuthAsks, Questions
<1>6. CASE /\ active' # Nobody /\ Head(posted) \notin {"start", "quit", "complete"}
           /\ active # Nobody \/ Head(posted) \notin Requests
  <2>1. UNCHANGED <<stepVars, attendVars>>
    BY <1>6 DEF HandleEvent
  <2>2. active # Nobody
    BY <1>1, <1>6, Handled
  <2>3. phase = "running" => phase' = "running"
    BY <1>1, <1>6, <2>2, Handled
  <2> QED BY <1>1, <1>6, <2>1, <2>2, <2>3
          DEF UiInv, UiRanges, OneInCharge, uiDomination, GuiServesWorkflow, CommandsFit,
              OnlyAuthAsks, stepVars, attendVars
<1> QED BY <1>2, <1>3, <1>4, <1>5, <1>6

(* The window hears of no workflow when a client takes the domination: there *)
(* is none.                                                                  *)
LEMMA ConnectionInv ==
  ASSUME UiInv, OnNewWebSocketRequest \/ OnNewConnection \/ HandshakeFails
  PROVE  UiInv'
<1>1. /\ UNCHANGED <<vars, stepVars, attendVars>>
      /\ client' \in {"handshake", "lost", "connected"}
  BY DEF OnNewWebSocketRequest, OnNewConnection, HandshakeFails
<1>2. gui = FALSE
  <2>1. CASE OnNewWebSocketRequest
    BY <2>1 DEF OnNewWebSocketRequest, DominationAccepted, UiInv, UiRanges, GuiServesWorkflow
  <2>2. CASE OnNewConnection \/ HandshakeFails
    BY <2>2 DEF OnNewConnection, HandshakeFails, UiInv, UiRanges, OneInCharge, uiDomination
  <2> QED BY <2>1, <2>2
<1> QED BY <1>1, <1>2
        DEF UiInv, UiRanges, OneInCharge, GuiServesWorkflow, CommandsFit, OnlyAuthAsks,
            vars, workflowVars, stepVars, attendVars

LEMMA OnClientDisconnectedInv ==
  ASSUME UiInv, OnClientDisconnected, killed \in BOOLEAN
  PROVE  UiInv'
<1>1. /\ client = "connected" /\ client' = "none"
      /\ UNCHANGED <<vars, attendVars>>
      /\ CancelWorkflow \/ UNCHANGED stepVars
  BY DEF OnClientDisconnected
<1>2. UNCHANGED <<active, phase, killed, gui, socket, dialogue>>
  BY <1>1 DEF vars, workflowVars, attendVars
<1>3. gui = FALSE /\ UiRanges
  BY <1>1 DEF UiInv, UiRanges, OneInCharge, uiDomination
<1>4. CASE CancelWorkflow /\ phase = "running"
  <2>1. /\ step' = "plain" /\ cancelled' = TRUE /\ approved' \in BOOLEAN
        /\ lastMsg' \in {"none", "plain"}
    BY <1>2, <1>3, <1>4
       DEF CancelWorkflow, EnterState, AddStateMsg, ApprovedOnEntry, UiInv, UiRanges,
           OnlyAuthAsks, Questions
  <2> QED BY <1>1, <1>2, <1>3, <2>1
          DEF UiInv, UiRanges, OneInCharge, GuiServesWorkflow, CommandsFit, OnlyAuthAsks,
              Questions
<1>5. CASE UNCHANGED stepVars
  BY <1>1, <1>2, <1>3, <1>5
     DEF UiInv, UiRanges, OneInCharge, GuiServesWorkflow, CommandsFit, OnlyAuthAsks, stepVars
<1> QED BY <1>1, <1>4, <1>5 DEF CancelWorkflow

LEMMA AskQuestionInv ==
  ASSUME UiInv, NEW q \in Questions, AskQuestion(q)
  PROVE  UiInv'
<1>1. /\ UNCHANGED <<active, phase, killed, client, attendVars, cancelled>>
      /\ phase = "running" /\ step = "plain" /\ killed = FALSE
  BY DEF AskQuestion, vars, workflowVars
<1>2. lastMsg \notin Questions
  BY <1>1 DEF UiInv, CommandsFit, Questions
<1>3. /\ step' = q /\ approved' = FALSE
      /\ lastMsg' = IF dialogue = "auth" THEN q ELSE lastMsg
  BY <1>1 DEF AskQuestion, EnterState, AddStateMsg, ApprovedOnEntry
<1>4. UiRanges
  BY DEF UiInv
<1>5. CommandsFit' /\ OnlyAuthAsks'
  BY <1>1, <1>2, <1>3 DEF CommandsFit, OnlyAuthAsks, attendVars
<1>6. lastMsg' \in {"none", "plain"} \cup Questions
  BY <1>3, <1>4 DEF UiRanges
<1> QED BY <1>1, <1>3, <1>4, <1>5, <1>6, AttendanceKept DEF UiRanges

LEMMA EnterFinalStateInv ==
  ASSUME UiInv, EnterFinalState
  PROVE  UiInv'
<1>1. /\ UNCHANGED <<active, client, attendVars, cancelled, approved>>
      /\ step = "plain" /\ step' = "final" /\ lastMsg' = AddStateMsg("final")
  BY DEF EnterFinalState, ReachFinalState
<1>2. lastMsg \notin Questions /\ UiRanges
  BY <1>1 DEF UiInv, CommandsFit, Questions
<1>3. lastMsg' \in {"none", "plain"}
  BY <1>1, <1>2 DEF AddStateMsg, UiRanges, Questions
<1>4. CommandsFit' /\ OnlyAuthAsks'
  BY <1>3 DEF CommandsFit, OnlyAuthAsks, Questions
<1> QED BY <1>1, <1>2, <1>3, <1>4, AttendanceKept DEF UiRanges

-----------------------------------------------------------------------------
LEMMA UiNextInv ==
  ASSUME UiInv, IInv, IInv', [UiNext]_allVars
  PROVE  UiInv'
<1>1. killed \in BOOLEAN /\ killed' \in BOOLEAN
  BY DEF IInv, TypeOK
<1>2. CASE HandleEvent
  BY <1>1, <1>2, HandleEventInv
<1>3. CASE OnNewWebSocketRequest \/ OnNewConnection \/ HandshakeFails
  BY <1>3, ConnectionInv
<1>4. CASE OnClientDisconnected
  BY <1>1, <1>4, OnClientDisconnectedInv
<1>5. ASSUME NEW r \in AuthRequests, CallerAsks(r), UNCHANGED uiVars PROVE UiInv'
  BY <1>5, UiUnchangedInv DEF CallerAsks, workflowVars
<1>6. ASSUME NEW q \in Questions, Answer(q) PROVE UiInv'
  BY <1>1, <1>6, SetStateApprovedInv DEF Answer
<1>7. CASE GuiAnswers
  BY <1>1, <1>7, SetStateApprovedInv DEF GuiAnswers
<1>8. CASE Cancel \/ GuiCancels
  <2>1. CancelWorkflow /\ UNCHANGED <<vars, client, attendVars>> /\ phase = "running"
    BY <1>8 DEF Cancel, GuiCancels
  <2>2. active' = active /\ phase' = phase
    BY <2>1 DEF vars, workflowVars
  <2> QED BY <1>1, <2>1, <2>2, CancelWorkflowInv
<1>9. ASSUME NEW k \in {"PIN", "SELF"}, GuiAsks(k) PROVE UiInv'
  BY <1>9, UiUnchangedInv DEF GuiAsks, UiAsks, workflowVars
<1>10. CASE GuiConfirms
  BY <1>10, UiUnchangedInv DEF GuiConfirms, ApproveFinalState
<1>11. ASSUME NEW q \in Questions, AskQuestion(q) PROVE UiInv'
  BY <1>11, AskQuestionInv
<1>12. CASE EnterFinalState
  BY <1>12, EnterFinalStateInv
<1>13. CASE UserQuits
  BY <1>1, <1>13, WorkflowKilledInv DEF UserQuits, QuitRequested
<1>14. CASE SignalQuits \/ QuitLoop
  BY <1>14, UiUnchangedInv DEF SignalQuits, GetSignal, QuitLoop, Quit, workflowVars
<1>15. CASE UiTerminated \/ UNCHANGED allVars
  <2>1. UNCHANGED uiVars /\ active' = active /\ phase' = phase
    BY <1>15 DEF UiTerminated, allVars, vars, workflowVars
  <2> QED BY <2>1, UiUnchangedInv
<1> QED BY <1>2, <1>3, <1>4, <1>5, <1>6, <1>7, <1>8, <1>9, <1>10, <1>11, <1>12, <1>13, <1>14,
           <1>15, SdkAssumption
        DEF UiNext, RunAuth, BrowserAsks

LEMMA UiInitInv == UiInit => UiInv
BY DEF UiInit, UiInv, UiRanges, OneInCharge, GuiServesWorkflow, CommandsFit, OnlyAuthAsks,
       Questions

-----------------------------------------------------------------------------
(* With its user interfaces AppController does only what it may do alone,  *)
(* so that its theorems hold for the composition: here both invariants.    *)
THEOREM Composed == UiSpec => [](IInv /\ UiInv)
<1>1. UiInit => IInv /\ UiInv
  BY InitInv, UiInitInv DEF UiInit
<1>2. IInv /\ UiInv /\ [UiNext]_allVars => (IInv /\ UiInv)'
  BY StepIsController, NextInv, UiNextInv
<1> QED BY <1>1, <1>2, PTL DEF UiSpec

(* Every variable of the composition stays in its type.                    *)
THEOREM UiTypeCorrect == UiSpec => []UiTypeOK
<1>1. IInv /\ UiInv => UiTypeOK
  BY DEF IInv, UiInv, UiRanges, UiTypeOK
<1> QED BY <1>1, Composed, PTL

(* The window and a client are never both in charge of a workflow, whatever *)
(* requests were on their way when the domination changed hands.            *)
THEOREM OnlyOneInCharge == UiSpec => []OneInCharge
<1>1. UiInv => OneInCharge
  BY DEF UiInv
<1> QED BY <1>1, Composed, PTL

(* A password or an approval the client sends reaches only the state that  *)
(* asked for it.                                                           *)
THEOREM CommandsMeetTheirState == UiSpec => []CommandsFit
<1>1. UiInv => CommandsFit
  BY DEF UiInv
<1> QED BY <1>1, Composed, PTL

(* The bookkeeping of AppController is right under all its interfaces.     *)
THEOREM ControllerSafe ==
  UiSpec => [](EndIsPostedOnce /\ ShutdownNotForgotten /\ AuthAccounted)
<1>1. IInv => EndIsPostedOnce /\ ShutdownNotForgotten /\ AuthAccounted
  BY EndOnItsWayIsEnough DEF IInv
<1> QED BY <1>1, Composed, PTL

(* Whoever asks, AppController keeps the promise of the request desk.      *)
THEOREM DeskServesAll == UiSpec => KeepsDeskPromise
<1>1. UiInit => Desk!Init
  BY DEF UiInit, Init, Desk!Init
<1>2. IInv /\ [UiNext]_allVars => [Desk!Next]_(Desk!vars)
  BY StepIsController, StepKeepsPromise
<1> QED BY <1>1, <1>2, Composed, PTL DEF UiSpec, KeepsDeskPromise, Desk!Spec
=============================================================================
