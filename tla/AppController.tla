--------------------------- MODULE AppController ---------------------------
(***************************************************************************)
(* AppController: starts one workflow at a time for the requests of the    *)
(* user interfaces (change PIN, self-authentication, remote service) and   *)
(* of the activation handlers (authentication), keeps one waiting request, *)
(* and shuts the client down.                                              *)
(*                                                                         *)
(* All of it runs in the main thread. Requests reach it as posted events;  *)
(* the start of a workflow takes one (QStateMachine::start), its end two   *)
(* (QStateMachine::finished, WorkflowController::fireComplete). The quit   *)
(* request of a user interface acts at once, that of a signal is posted.   *)
(* The workflow itself is reduced to its way to the FinalState.            *)
(***************************************************************************)
EXTENDS Naturals, Sequences

CONSTANTS
  AuthRequests,   \* the authentication requests callers will make
  Nobody,         \* no workflow, no waiting request
  MaxPosted,      \* bound: requests posted and not yet handled
  MaxQuits        \* bound: runs of completeShutdown that are counted

UiRequests == {"PIN", "SELF", "REMOTE_SERVICE"}
Requests   == UiRequests \cup AuthRequests
Ends       == {"finished", "complete"}
Events     == Requests \cup Ends \cup {"start", "quit"}

ASSUME AppAssumption ==
  /\ AuthRequests \cap (UiRequests \cup Ends \cup {"start", "quit"}) = {}
  /\ Nobody \notin Requests
  /\ MaxPosted \in Nat /\ MaxQuits \in Nat \ {0}

VARIABLES
  active,           \* mCurrentAction and mActiveController
  phase,            \* where its state machine is
  killed,           \* its context: mWorkflowKilled
  failed,           \* its context: the status is an error
  nextPending,      \* its context: mNextWorkflowPending
  waiting,          \* mWaitingRequest
  shutdownRunning,  \* mShutdownRunning
  completions,      \* how often completeShutdown has run
  quitted,          \* the event loop has ended
  posted,           \* events posted to the main thread
  auth              \* history: [AuthRequests -> what became of the request]

workflowVars == <<active, phase, killed, failed, nextPending>>
shutdownVars == <<shutdownRunning, completions, quitted>>
vars == <<workflowVars, waiting, shutdownVars, posted, auth>>

TypeOK ==
  /\ active \in Requests \cup {Nobody}
  /\ phase \in {"idle", "starting", "running", "final", "finished"}
  /\ killed \in BOOLEAN /\ failed \in BOOLEAN /\ nextPending \in BOOLEAN
  /\ waiting \in {"PIN", Nobody} \cup AuthRequests
  /\ shutdownRunning \in BOOLEAN /\ completions \in Nat /\ quitted \in BOOLEAN
  /\ posted \in Seq(Events)
  /\ auth \in [AuthRequests -> {"none", "posted", "waiting", "running", "served",
                                "refused", "dropped"}]

Init ==
  /\ active = Nobody /\ phase = "idle"
  /\ killed = FALSE /\ failed = FALSE /\ nextPending = FALSE
  /\ waiting = Nobody
  /\ shutdownRunning = FALSE /\ completions = 0 /\ quitted = FALSE
  /\ posted = <<>>
  /\ auth = [r \in AuthRequests |-> "none"]

-----------------------------------------------------------------------------
(* Requests are posted until the client has quit: completeShutdown stops   *)
(* the web server, but InternalActivationHandler::stop does nothing.       *)

UiAsks(k) ==
  /\ ~quitted /\ Len(posted) < MaxPosted
  /\ posted' = Append(posted, k)
  /\ UNCHANGED <<workflowVars, waiting, shutdownVars, auth>>

CallerAsks(r) ==
  /\ ~quitted /\ Len(posted) < MaxPosted
  /\ auth[r] = "none"
  /\ auth' = [auth EXCEPT ![r] = "posted"]
  /\ posted' = Append(posted, r)
  /\ UNCHANGED <<workflowVars, waiting, shutdownVars>>

Arrives(e) == ~quitted /\ posted # <<>> /\ Head(posted) = e

-----------------------------------------------------------------------------
(* The request handlers. *)

canStartNewAction == active = Nobody

(* startNewWorkflow: a new controller with a context of its own, whose     *)
(* state machine enters its first state in an event of its own.            *)
StartNewWorkflow(r, queue) ==
  /\ active' = r /\ phase' = "starting"
  /\ killed' = FALSE /\ failed' = FALSE /\ nextPending' = FALSE
  /\ posted' = Append(queue, "start")

OnChangePinRequested ==
  /\ Arrives("PIN")
  /\ \/ /\ canStartNewAction
        /\ StartNewWorkflow("PIN", Tail(posted))
        /\ UNCHANGED waiting
     \/ /\ ~canStartNewAction /\ waiting = Nobody
        /\ waiting' = "PIN" /\ nextPending' = TRUE
        /\ posted' = Tail(posted)
        /\ UNCHANGED <<active, phase, killed, failed>>
     \/ /\ ~canStartNewAction /\ waiting # Nobody
        /\ posted' = Tail(posted)
        /\ UNCHANGED <<workflowVars, waiting>>
  /\ UNCHANGED <<shutdownVars, auth>>

(* Mutant: the request waits, as a PIN change does. *)
OnUiWorkflowRequestedMutant(k) ==
  /\ Arrives(k)
  /\ IF canStartNewAction THEN StartNewWorkflow(k, Tail(posted)) /\ waiting' = waiting
     ELSE waiting' = k /\ posted' = Tail(posted) /\ UNCHANGED workflowVars
  /\ UNCHANGED <<shutdownVars, auth>>

(* onSelfAuthenticationRequested, onRemoteServiceRequested *)
OnUiWorkflowRequested(k) ==
  /\ Arrives(k)
  /\ IF canStartNewAction THEN StartNewWorkflow(k, Tail(posted))
     ELSE posted' = Tail(posted) /\ UNCHANGED workflowVars
  /\ UNCHANGED <<waiting, shutdownVars, auth>>

(* Mutant: a self-authentication that still runs is taken for finished. *)
SelfAuthDoneMutant == active = "SELF" /\ ~failed

(* A self-authentication that only shows its result makes room. *)
SelfAuthDone == active = "SELF" /\ phase \in {"final", "finished"} /\ ~failed

(* Mutant: the FinalState is approved again after it was left. *)
ApproveMutant(queue) ==
  IF phase # "running"
  THEN phase' = "finished" /\ posted' = Append(queue, "finished")
  ELSE phase' = phase /\ posted' = queue

(* setStateApproved: only a FinalState that still waits for the user reacts. *)
Approve(queue) ==
  IF phase = "final"
  THEN phase' = "finished" /\ posted' = Append(queue, "finished")
  ELSE phase' = phase /\ posted' = queue

OnAuthenticationRequest(r) ==
  /\ Arrives(r)
  /\ \/ /\ canStartNewAction
        /\ StartNewWorkflow(r, Tail(posted))
        /\ auth' = [auth EXCEPT ![r] = "running"]
        /\ UNCHANGED waiting
     \/ /\ ~canStartNewAction /\ SelfAuthDone /\ waiting = Nobody
        /\ waiting' = r
        /\ Approve(Tail(posted))
        /\ auth' = [auth EXCEPT ![r] = "waiting"]
        /\ UNCHANGED <<active, killed, failed, nextPending>>
     \/ /\ ~canStartNewAction /\ (~SelfAuthDone \/ waiting # Nobody)
        /\ posted' = Tail(posted)
        /\ auth' = [auth EXCEPT ![r] = "refused"]
        /\ UNCHANGED <<workflowVars, waiting>>
  /\ UNCHANGED shutdownVars

-----------------------------------------------------------------------------
(* The workflow. *)

EnterFirstState ==
  /\ Arrives("start") /\ phase = "starting"
  /\ phase' = "running" /\ posted' = Tail(posted)
  /\ UNCHANGED <<active, killed, failed, nextPending, waiting, shutdownVars, auth>>

(* It enters its FinalState, with an error or without. The user interface  *)
(* hears of it at once and may approve it at once.                         *)
ReachFinalState ==
  /\ ~quitted /\ phase = "running"
  /\ \E error \in BOOLEAN : failed' = (failed \/ error)
  /\ \/ phase' = "final" /\ posted' = posted
     \/ phase' = "finished" /\ posted' = Append(posted, "finished")
  /\ UNCHANGED <<active, killed, nextPending, waiting, shutdownVars, auth>>

(* The result is confirmed: QStateMachine::finished is posted.             *)
ApproveFinalState ==
  /\ ~quitted /\ phase = "final"
  /\ Approve(posted)
  /\ UNCHANGED <<active, killed, failed, nextPending, waiting, shutdownVars, auth>>

(* WorkflowController::fireComplete is posted in turn. *)
OnMachineFinished ==
  /\ Arrives("finished")
  /\ posted' = Append(Tail(posted), "complete")
  /\ UNCHANGED <<workflowVars, waiting, shutdownVars, auth>>

(* The context and the controller are deleted. *)
EndWorkflow(queue) ==
  /\ active' = Nobody /\ phase' = "idle"
  /\ killed' = FALSE /\ failed' = FALSE /\ nextPending' = FALSE
  /\ posted' = queue

(* Mutant: the request that is started goes on waiting. *)
ServeWaitingMutant(queue) ==
  /\ IF waiting # Nobody THEN StartNewWorkflow(waiting, queue) ELSE EndWorkflow(queue)
  /\ waiting' = waiting

ServeWaiting(queue) ==
  /\ IF waiting # Nobody THEN StartNewWorkflow(waiting, queue) ELSE EndWorkflow(queue)
  /\ waiting' = Nobody

(* completeShutdown *)
Counted(n) == IF n < MaxQuits THEN n + 1 ELSE n

(* Mutant: a pending shutdown is forgotten when a workflow ends. *)
ShutdownAfterFinishedMutant == completions' = completions

ShutdownAfterFinished ==
  completions' = IF shutdownRunning THEN Counted(completions) ELSE completions

(* onWorkflowFinished: the waiting request is started at once, and a       *)
(* pending shutdown completed.                                             *)
OnWorkflowFinished ==
  /\ Arrives("complete")
  /\ auth' = [r \in AuthRequests |-> IF r = active THEN "served"
                                     ELSE IF r = waiting THEN "running" ELSE auth[r]]
  /\ ServeWaiting(Tail(posted))
  /\ ShutdownAfterFinished
  /\ UNCHANGED <<shutdownRunning, quitted>>

-----------------------------------------------------------------------------
(* Shutdown. *)

(* Mutant: the queue is not cleared. *)
ClearQueueMutant == UNCHANGED <<waiting, auth>>

ClearQueue ==
  /\ waiting' = Nobody
  /\ auth' = [r \in AuthRequests |-> IF r = waiting THEN "dropped" ELSE auth[r]]

(* Mutant: the workflow is cancelled, but not marked as killed. *)
KillWorkflowMutant(queue) ==
  failed' = TRUE /\ posted' = queue /\ UNCHANGED <<killed, phase>>

(* WorkflowContext::killWorkflow *)
KillWorkflow(queue) == killed' = TRUE /\ failed' = TRUE /\ Approve(queue)

DoShutdown(queue) ==
  /\ shutdownRunning' = TRUE
  /\ \/ /\ active # Nobody
        /\ ClearQueue
        /\ KillWorkflow(queue)
        /\ UNCHANGED completions
     \/ /\ active = Nobody
        /\ completions' = Counted(completions)
        /\ posted' = queue
        /\ UNCHANGED <<waiting, auth, killed, failed, phase>>
  /\ UNCHANGED <<active, nextPending, quitted>>

(* A user interface asks to quit. What is posted is served before the next *)
(* input from outside, so that a workflow has started by then.             *)
QuitRequested ==
  /\ ~quitted /\ phase # "starting"
  /\ DoShutdown(posted)

(* SignalHandler::quit: the process got a signal. *)
GetSignal ==
  /\ ~quitted /\ Len(posted) < MaxPosted
  /\ posted' = Append(posted, "quit")
  /\ UNCHANGED <<workflowVars, waiting, shutdownVars, auth>>

OnSignal ==
  /\ Arrives("quit")
  /\ DoShutdown(Tail(posted))

(* The user interfaces are gone (onUILoaderShutdownComplete). *)
Quit ==
  /\ ~quitted /\ completions > 0
  /\ quitted' = TRUE
  /\ UNCHANGED <<workflowVars, waiting, shutdownRunning, completions, posted, auth>>

Terminated == quitted /\ UNCHANGED vars

-----------------------------------------------------------------------------
Handle ==
  \/ OnChangePinRequested
  \/ \E k \in {"SELF", "REMOTE_SERVICE"} : OnUiWorkflowRequested(k)
  \/ \E r \in AuthRequests : OnAuthenticationRequest(r)
  \/ EnterFirstState
  \/ OnMachineFinished
  \/ OnWorkflowFinished
  \/ OnSignal

Next ==
  \/ \E k \in UiRequests : UiAsks(k)
  \/ \E r \in AuthRequests : CallerAsks(r)
  \/ Handle
  \/ ReachFinalState
  \/ ApproveFinalState
  \/ QuitRequested
  \/ GetSignal
  \/ Quit
  \/ Terminated

(* The event loop runs until the client quits. *)
Spec == Init /\ [][Next]_vars /\ WF_vars(Handle)

-----------------------------------------------------------------------------
(* A request waits only behind a workflow: nobody else would start it.     *)
WaitingHasWorkflow == waiting # Nobody => active # Nobody

(* The end of a workflow is posted once, and only while its controller is  *)
(* still there: onWorkflowFinished uses it without asking.                 *)
EndIsPostedOnce ==
  /\ phase = "finished" => active # Nobody
  /\ \A i \in DOMAIN posted : posted[i] \in Ends =>
       /\ phase = "finished"
       /\ \A j \in DOMAIN posted : posted[j] \in Ends => i = j

(* A shutdown that waits for a workflow is completed when that one ends.   *)
ShutdownNotForgotten == (shutdownRunning /\ active = Nobody) => completions > 0

(* The callers' view and the controller's agree: a request is on its way,  *)
(* waits, or runs exactly if the controller has it there.                  *)
AuthAccounted ==
  \A r \in AuthRequests :
    /\ auth[r] = "waiting" <=> waiting = r
    /\ auth[r] = "running" <=> active = r
    /\ auth[r] = "posted" <=> \E i \in DOMAIN posted : posted[i] = r

(* AppController keeps the promise of the request desk. *)
Desk == INSTANCE RequestDesk
          WITH served <- active, reserved <- waiting, closing <- shutdownRunning
KeepsDeskPromise == Desk!Spec

(* Every authentication request is started or refused, unless the client   *)
(* shuts down: a request that waits is never left behind.                  *)
AuthDecided ==
  \A r \in AuthRequests :
    auth[r] = "posted" ~> (auth[r] \in {"running", "served", "refused"} \/ shutdownRunning)

(* "Make sure that any request for a new workflow is removed from the      *)
(* queue." (AppController::doShutdown): while the shutdown waits for the    *)
(* workflow no other workflow takes its place.                             *)
NoSuccessorDuringShutdown ==
  [][ (shutdownRunning /\ completions = 0) => active' \in {active, Nobody} ]_vars
=============================================================================
