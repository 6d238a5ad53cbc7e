# Verification of the AusweisApp2 client

AusweisApp2 is the eID client for the German ID card. It reads the card over
PC/SC (or NFC, Bluetooth, a paired smartphone), asks the user for PIN, CAN or
PUK, establishes a PACE channel with the chip, and runs workflows over it:
authentication towards a service, self-authentication, PIN management, and the
service as a remote reader. This directory holds TLA+ models of its core
logic, TLC configurations that check them on small instances, and theorems
checked with TLAPS. Paths below are relative to `src/src`.

## 1. Inventory

| Part | State it keeps | Operations and interplay |
|---|---|---|
| `AppController` (`core/controller`) | `mCurrentAction`, `mActiveController`, one `mWaitingRequest`, `mShutdownRunning`, `mUiDomination` | starts one workflow at a time for the requests of user interfaces and activation handlers, queues one, serves it when the active one ends; `doShutdown` kills the workflow and `completeShutdown` ends the client |
| Workflow controllers and `WorkflowContext` | a `QStateMachine`; passwords, card connection, expected reader and counter, last PACE result, first error, killed flag | states emit signals that lead to the next state; a state runs when a user interface approves it |
| `CompositeStatePace`, `CompositeStateSelectCard` | the sub-machine every card workflow shares | choose reader, connect card, learn counter, ask password, establish PACE, start over after a failure |
| `ChangePinController` | adds the new PIN | PIN change and unblocking |
| `AuthController`, `SelfAuthController` | adds TC token, PAOS dialogue, certificates, access rights | HTTPS with the service and the eID server, EAC1/EAC2 with the card, redirect of the browser |
| Reader thread: `ReaderManagerWorker`, plug-ins, `Reader`, `Card` (`card/`) | readers, card objects, PC/SC handles, cached `CardInfo` | polls the slots, executes commands one after the other, signals insertion, removal and counter changes |
| `CardConnection`, `CardConnectionWorker`, commands (`card/base`) | the main thread's copy of `ReaderInfo`, results of CAN and PIN channel | each command is an event to the reader thread and its reply an event back |
| PACE (`card/base/pace`) | keys, send sequence counter | key agreement, secure messaging |
| Remote reader, the phone (`RemoteServiceController`, `ServerMessageHandler`, `RemoteServer`) | one client, its card connections, the PACE request under way, passwords | serves the IFD messages of one computer after the other, asks the user for passwords in pin pad mode |
| Remote reader, the computer (`RemoteClientImpl`, `RemoteConnectorImpl`, `RemoteReaderManagerPlugIn`) | announced devices, pending connection requests, dispatchers, certificates of paired devices | three threads that post events to each other: UDP detection, TLS pairing, timeouts, scan |
| Activation (`activation`) | open HTTP requests of callers | turn a browser's request into an authentication request and answer it |
| User interfaces (`ui`): window, JSON API over a WebSocket | the workflow each has; the client's connection, the last message of its dialogue | approve states, enter passwords, cancel; a client dominates the user interface and locks the window |
| File provider (`file_provider`), `Service`, `AppUpdater`, configurations (`configuration`) | one download queue, a cache folder with dirty marks, the timer of the daily check | downloads one at a time, everybody listens to the same signals and picks his answer by the URL |
| Network, settings, secure storage, survey | stored values | wrappers and storage |

### What is hard here

* **Two threads.** The main thread runs the workflow, the reader thread the
  cards. Replies, insertions and counter changes are posted back and may find
  that the state that wanted them is gone. Some calls block the main thread
  until the reader thread is idle.
* **Cached state.** `CardConnection` decides on a copy of the retry counter and
  on remembered PACE results, while the chip goes on with its own.
* **The user's hands.** A card is taken away between any two steps, also
  between a chip's decision and its answer.
* **Secrets.** A PIN must not be sent twice when the first attempt was counted,
  must not be sent at counter 1 without the CAN, and must be forgotten on every
  way out.
* **Quit at any moment.** `killWorkflow` approves the waiting state and then
  cancels, with everything in between running inside the same call.
* **Anything may fail anywhere.** An authentication has some thirty states, each
  with an error transition; caller, user, history and eID server must be told
  the same story, and the first error is the one that counts.
* **One client after the other.** A phone keeps the passwords of a session in
  its context. Sessions end in any state, with commands still under way.
* **Signals heard by many.** All files and `AppUpdater` listen to one
  Downloader; the pairing page and the scan listen to one connector. An answer
  is recognised by its URL or its device and may be somebody else's.
* **One workflow at a time.** Requests, approvals, the posted events of a
  workflow's start and end, and the shutdown interleave in `AppController`.
* **Several who approve.** The window and an SDK client may come and go while
  requests are on their way; somebody, and not two, must approve the states of
  each workflow, and a command must meet the state it was meant for.

### What makes each part correct

* Reader thread and connections: every PC/SC handle has an owner and is closed
  in the end; a reply reaches only whoever still waits for it.
* PACE states: the password asked for is the one the chip needs; one entry costs
  at most one attempt; after an error nothing more is sent; errors end.
* PIN management: a success message means the chip was changed; passwords are
  forgotten; quit ends it without the user.
* `AppController`: never two workflows, no waiting request lost or orphaned, the
  end of a workflow handled once, the shutdown completed.
* User interfaces: window and client are never both in charge; a password or an
  approval is taken by the state that asked for it; what a client leaves behind
  ends without it.
* Authentication: a success is only ever reported when the server has praised a
  card that proved its chip; no password is in memory while the client talks to
  the server; the card sees the commands in order; every handle is closed.
* Remote service: a rejected PIN is not sent again, "OK" is answered to the
  request it belongs to, nothing is left of a client when the next is awaited.
* Remote client: every answer finds the entry it was asked for, the user hears
  of every pairing.
* File provider: who waits is served, every update ends, no newer image is
  forgotten, not even over a restart.

`PROJECT.json` lists all components with their status and the hazards with the
lines where they bite.

## 2. Modules

    RequestDesk        abstract: what AppController promises
      ^ refined by
    AppController      core/controller/AppController.cpp
      AppControllerProofs
      ^ extends
    UserInterfaces     the window, the SDK client and the browser around it
      UserInterfacesProofs

    CardReader         the cards, the reader thread, commands and signals
      ^ extends
    CompositeStatePace card selection and PACE, main thread
      PaceProofs       lemmas on queues, commands and the composite state's steps
      ^ extends
    ChangePinController the PIN workflow around it: Init, Next, Spec, properties
      ChangePinProofs  (on PaceProofs)
    AuthController     the authentication workflows around it
      AuthControllerProofs (on PaceProofs)

    Downloader         the queue of downloads
      ^ extends
    UpdateService      files, configurations, AppUpdater, Service
      UpdateServiceProofs

    RemoteService      the phone as a reader, with a small reader thread of its own
      RemoteServiceProofs

    RemoteConnector    the thread that connects to phones
      ^ extends
    RemoteClient       main thread and plug-in of the computer
      RemoteClientProofs
      ^ extends
    MCRemoteClient     two phones for TLC

### CardReader

`slot`, `chipRc`, `canOpen` are the world: which card lies where, the chip's
retry counter, whether its CAN channel is open. `rd[r]` is a `Reader` with its
`PcscCard` (`obj`), the PC/SC handle (`closed`, `open`, `dead` after the card
left) and the cached counter. `cmds` are the events posted to the reader
thread, `msgs` those posted to the main thread, `conn` the `CardConnection`.
A reply carries `mine` (the state that asked still listens: `onExit` clears it)
and `conn` (the connection that asked still exists).

`Update` is `Reader::update` driven by the timer; the `Execute...` actions are
one command each. A card exchanged between two polls is not noticed, as in
`PcscReader::updateCard`, which only compares presence. The signal with a new
`CardConnectionWorker` is a broadcast, as in `ReaderManagerWorker`.

The chip is external, modelled from how the code reads its answers: PIN refused
at counter 0 and at counter 1 without CAN; a wrong PIN counts; a right one
resets the counter. Passwords are data: the password that opens card `c` is
named `c`, and `Typo` opens none. `blame` and `done` are history variables: how
often the PIN last entered was rejected, and what happened to the chip.

`Reach(r)` says that a command finds the card in reader `r` over an open handle.
That handle need not be the one the `CardConnection` was made with: the `Card`
object behind a worker is looked up anew for each command, so a handle opened by
a superfluous worker (section 6) serves an older connection as well. `OwnCard(r)`
excludes this: no worker for `r` is waiting to be claimed or dropped (`Unclaimed`).
`blame` and the properties that compare the workflow with the chip speak of
`OwnCard`.

### CompositeStatePace

One action per state's `run` and one per reply. A `QStateMachine` processes
signals emitted in the main thread at once, and all states but those that wait
for the user are approved inside `fireStateChanged`, so the main thread runs on
until a state waits: `AtRest` says it is back in its event loop. Only there are
replies delivered and the user heard. The reader thread and the world interleave
at every step. `BlockingQueuedConnection` calls are guards `cmds = <<>>` (the
worker has served all that was posted), the constructor of `CardConnection`
is split into its two steps (`DeliverCreate`, `FinishConnectCard`).

`PaceChannelEstablished`, `PacePukEstablished` and `PaceAbort`, the signals of
the composite state, are pseudo-states the surrounding workflow leaves.

`Kill` is `killWorkflow`; `cancelPending` stands for the rest of that call: the
approval runs the state first, then `fireCancelWorkflow` reaches the state that
waits by then (`CancelKilled`).

The release build is modelled: `Q_ASSERT` is ignored and `Q_UNREACHABLE` runs
on. Every state of this workflow is constructed with
`pConnectOnCardRemoved = false`, so `AbstractState::onCardRemoved` plays no part.

### ChangePinController

The states and transitions of `ChangePinController.cpp`, on a desktop client:
`StateCleanUpReaderManager` stops and starts the scan, which drops all `Reader`
objects. `Stopped` is the finished state machine. While the result screen is
shown events are still delivered and the client may be quit; a cancellation
there would only change the status and is left out.

### AuthController

`AuthController.cpp` and `SelfAuthController.cpp` share nearly all states;
`kind` tells which of the two runs. The states before and after PACE run to
completion like those of `CompositeStatePace`; they stop at a network reply
(`Network`), at the access rights and the last screen (user) and at a card
command. `tcToken`, `refreshUrl`, `errorReported`, `verdict` and `token` are the
fields of `AuthContext` the control depends on. `chan` is how far the chip
behind the open handle has come (PACE, EAC1, EAC2), `server` how the dialogue
stands on the other side, `answer` and `history` what caller and history were
given. EAC states are constructed with `pConnectOnCardRemoved = true`: `GivesUp`
is `AbstractState::onCardRemoved`, and the notice of the removal overtakes the
failing command.

The server is external and conforms: it praises only a card that proved its
chip, and after being told of an error asks for nothing more. It may break the
connection at any request. A redirect leaves the waiting state as it is.
Certificates, SSL checks and messages are reduced to pass or fail at the place
where the code checks them. `skipRedirect`, which only the QML user interface
sets, is left out. `StateDidAuthenticateEac1` returns OK even when the chip denies
its challenge; EAC2 then fails (`ExecuteDidAuthenticateEAC1`, `EacInOrder`).

### Downloader and UpdateService

`mPendingRequests` and `mCurrentReply` are the Downloader's; a reply remembers the
version of the server's file at its start (`from`) and may bring any version up
to the one at its end. The slots of a signal run inside the step that emits it,
and what they schedule is queued before the guard of `onNetworkReplyFinished`
starts the next request (`Finished(more)`). An answer 304 aborts the reply inside
`onMetadataChanged`, which re-enters the finished handler: one step.

How a reply ends is read off its status, not off its error: one that fails before
its headers is a failed download, one that is broken off after them, by the
timeout, a cut connection or the end of the program, is a success with a part
of the file (`OnDownloadCutShort`, `SavesPart`). `OnShutdown` aborts the reply that
runs, with either outcome.

`UpdatableFile` is `mUpdateRunning`, `dirty`, `cached` and `torn` per file: the mark, the
newest version in the cache folder, and whether only a part of it is there. Data
that cannot be written, or only in part, take the mark away like whole ones;
`lost` remembers for which images that happened. A configuration that is read marks
all images it names; a torn one cannot be parsed and is not put to use.
`listening` counts AppUpdater's
connections, since each check connects once more. `Restart` may happen in any
state; the cache folder survives, `posted` and the queue do not. A crash inside one
slot, between saving a configuration and marking its images, is left out.
A server that sends no `Last-Modified` is left out; the code labels the local time
as GMT then.

### RemoteService

The state machine of `RemoteServiceController` with the server that lets one
client in. `client` is the session `ServerMessageHandlerImpl` serves. There are up
to two card connections: the handler's (`held`, with the PIN counter it has
heard of, `connRc`) and the one the context took over for the last request
(`ctxConn`, `ctxRc`). They are the same object until the client disconnects the
card and connects it again. A signal of the reader thread carries for which of
them it was posted (`mine`, `ctx`): a new connection asks its worker for the
reader's data and only then connects, so it hears nothing that waited before
(`OnCreateCardConnectionCommandDone`; a signal between the two calls of
`CardConnection`'s constructor is left out), and the context hears from a request
on what the handler hears (`SetCardConnection`). `cmds` and `msgs` are the events
between main and reader thread as in `CardReader`, which is reduced here to
commands that may fail at any time. `watching` says that a state that asks the
user has connected itself to the end of the handler (`destroyed`), which it does
only if there is one when it starts.

Handlers are deleted inside their own `fireClosed`, so the queued reset that
`StateStartRemoteService` connects never runs; forgetting is left to
`StateProcessRemoteMessages` (`RunProcessRemoteMessages`, `Closes`), which is what
`IdleForgets` is about. `Stop` is heard by every state but ends the service only
in `StateProcessRemoteMessages`. Requests for a password that arrive in another
state are lost. `onReaderInfoChanged` of `StateEstablishPaceChannelRemote` is
connected nowhere and plays no part.

When a client leaves during a PACE and the next connects before its end, the
answer goes to the next client and the passwords and the connection stay (`Q_ASSERT`
in `RemoteDispatcher.cpp:115` is about the context of the message). The model has
this hand-over, but no property is about it: `IdleForgets` speaks of a service
that waits for a client. What carries over to the successor is only that a
rejected PIN is not sent again (`RejectedPinNotSentAgain`).

The output of a PIN change is reset by the next request for one only
(`IfdModifyPin`), not when it is answered. An `UnblockPinCommand` whose PUK was
accepted and whose reset of the counter then fails leaves the channel of the PUK
open (`ExecuteUnblockPin`).

### RemoteConnector and RemoteClient

Three threads, three queues: `toConnector`, `toMain`, `toPlugIn`. `requests` are
`mPendingRequests` of the connector, `ghosts` those removed from it whose
`deleteLater` is still to come and which may still answer; `conns` are the
sockets, with who listens to their end. `RemoteClient` adds `RemoteClientImpl`
(`pending` is `mRemoteConnectorPending`, `errors` the refusals counted per device,
`connected` the ids it shows as connected), the pairing page (`remembered`,
`dialog`) and `RemoteReaderManagerPlugIn` (`scanning`, `listed`).

What the model keeps of the code's peculiarities: an answer removes every
request to the same address; hiding the pairing page ends the detection a
running scan needs; stopping a scan does not reach connections under way;
`removeDispatcher` works by device, not by connection; the name decides whether a
device counts as paired (`"named"`) and an unnamed one is closed; the certificate
of a device is dropped after `MaxRefusals` refusals in a row (seven in the code).

### AppController

`phase` reduces the active workflow to `starting` (the state machine has been
started, its first state not yet entered), `running`, `final` (waiting for the
approval of its result) and `finished`. `posted` holds the events of the main
thread: requests, `start` (`QStateMachine::start`), `finished`
(`QStateMachine::finished`), `complete` (`fireComplete`, connected queued) and
`quit` (`SignalHandler::quit`). The quit request of a user interface acts at
once. `auth` is a history variable: the callers' view of their requests.
`READER_SETTINGS` is handled in `onWorkflowFinished` but no code enqueues it.

Qt serves all events that are posted before it looks at sockets and windows
again, so input from outside never meets a workflow that is `starting`
(`QuitRequested` and the connection events in `UserInterfaces`); another posted
event may.

### UserInterfaces

`client` is the WebSocket of an SDK client: it takes the domination with its
request (`handshake`), the JSON API is enabled when `QWebSocketServer` has
finished the handshake (`connected`). `gui`, `socket` and `dialogue` say which of
`UIPlugInWidgets`, `UIPlugInWebSocket` and `MessageDispatcher` has the workflow;
each decides when the workflow starts, so that a workflow that starts during the
handshake is seen by nobody who could approve its states. `step` is the
workflow's state by what it asks, `approved` its `mStateApproved`, `lastMsg`
the message the client's commands are checked against.

`EnterState` is `AbstractState::onEntry` with the slots of the user interfaces,
which run inside it: a state that asks nothing is approved there. `FirstState`
and `WorkflowKilled` keep what happens if a quit is handled before the first
state: the approval is already set, `run` is never called (`"asleep"`).
`AppQtGui::show` serves the posted events itself, so that what
`UIPlugInWidgets::onWorkflowStarted` approves after it is a state that has been
entered; `WorkflowStarted` leaves that approval to the states.

Simplified: the HTTP server vanishes with the first `completeShutdown`, not one
event later; `RUN_AUTH` at a second place is refused without the answer the
client gets; what a workflow does between its questions is left to the modules
of the workflows. An `ENTER_PUK` in the window is one the user cancels, as the
window does for him.

### RequestDesk

Serve one, reserve one, serve the reserved one when the desk is free, cancel
the reservation at closing. `AppController` implements it under
`served <- active, reserved <- waiting, closing <- shutdownRunning`
(`KeepsDeskPromise`): neither the two-step end nor the automatic approval of a
finished self-authentication lets anybody overtake.

## 3. Runs

| Run | Shows | Bounds |
|---|---|---|
| `change_pin` (`MCChangePin.cfg`) | what the PIN workflow forgets, reports and ends, safety and liveness, about 714 000 states | one basic reader, one card with every initial counter 0..3, three movements of it, one reading of its counter that fails |
| `change_pin_many_moves` (`MCManyMoves.cfg`) | prompt, attempts and messages agree with the card however often it vanishes, about 2.7 million states | one basic reader, one card, no failing reading, six movements, which is what the third disappearance and the warning about the position of the card (`StateUnfortunateCardPosition`) take |
| `change_pin_two_readers` (`MCTwoReaders.cfg`) | no handle is leaked, about 2.5 million states | a basic reader and a PIN pad, two cards, two movements, no failing reading (which opens and closes no handle) |
| `app_controller` (`MCAppController.cfg`) | `AppController` with its user interfaces, and the refinement, about 600 000 states | a browser and an SDK client with one request each, three posted events, `completeShutdown` counted up to two |
| `authentication` (`MCAuth.cfg`) | the properties of both authentication workflows, about 524 000 states | one basic reader, one card, two movements, no failing counter read, at most one posted event more |
| `update_service` (`MCUpdateService.cfg`) | waiting, freshness and the end of updates, about 250 000 states | one configuration and one image, two versions, two checks at once, two waiting requests |
| `remote_service` (`MCRemoteService.cfg`) | the phone over two clients, about 8.9 million states | PIN and PUK, full counter 2, two sessions, two movements, one failing counter read, one stop in vain, one waiting event |
| `remote_client` (`MCRemoteClient.cfg`) | requests, answers and pairing, about 899 000 states | two phones, the first with two addresses, the second without a common API version; two refusals; four inputs from outside |
| `new_pin_entered`, `retry_counter_initialised`, `app_shutdown`, `shutdown_needs_nobody` | one finding each, see section 6 | as small as the finding allows |

Bounds, each a constant: `MaxMoves` (movements of cards; three are put down,
take away, put back, which is what a retry needs, and in the two-reader run two
cards are put down or one is exchanged), `MaxReadFailures` (readings of a counter that
fail although the card is there: the first one, or one a command asks for),
`MaxQueue` (posted events at which the user stops toggling the reader type, the
only action that could fill the queue alone), `MaxPosted` (events waiting in
the queue at which no request or signal is added), `MaxQuits` (runs of `completeShutdown` counted). Two cards are
needed only for what depends on exchanging them; the retry after a lost
answer already arises with one card that is taken away while the chip counts the
attempt. `CanAllowedMode` is `FALSE` in all runs, as it always is in the PIN
workflow; the branch belongs to the composite state and is used by the
authentication workflow.

Bounds of the later runs: `MaxVersion` 2 lets an image be published anew, with a
configuration that names it, at any moment of the download of either (three versions,
without liveness, have been checked as well: 979 000 states);
`FullCounter` 2 stands for 3: it has a counter that is full, one that is spent and
one between, so that the last attempt differs from the first; `MaxSessions` 2 is a client and its
successor; the CAN is left out of `PaceIds` because it takes part in nothing the
properties speak of but the last attempt, and makes the run three times as
large; `MaxReadFailures` 1 because `RejectedPinNotSentAgain` speaks of histories
with at most one failing counter read (`failures <= 1`): with two of them and a
lost answer a rejected PIN is sent again (TLC finds this with `MaxReadFailures` 2
and `MaxMoves` 4), since the comparison in `StateVerifyRetryCounter` sees -1 both
times;
`MaxRefusals` 2 stands for 7: what matters is that it is reached; `MaxInputs` 4 is
enough for a pairing, a scan and the appearance of both devices.

### Properties

PIN workflow:

* `RightPasswordAsked`, `LastAttemptBehindCan`: the prompt and the command agree
  with the chip, not only with the client's copy of its counter.
* `RejectedOnce`: one entry of a PIN is rejected at most once, also if the
  answer was lost and the card comes back.
* `AttemptReportedRight`: the message "second attempt failed" is about the
  attempt the chip counted.
* `PasswordsForgotten`, `SilentAfterError`, `SuccessMeansDone`:
  what is left over at each exit, and that the reported result is the real one.
* `HandleOwned`, `CardsReleased`: connections that come too late are closed.
* `KilledStops`, `ErrorEnds`: quit and errors end the workflow, through every
  blocking call.

Authentication: `SuccessIsReal` (caller, user and history agree with the server's
verdict), `PasswordsCleared` (asserted by `StateGenericSendReceive::run` and
`StateDidAuthenticateEac1::run`), `EacInOrder`, and for this
workflow again `SilentAfterError`, `KilledStops` and `CardsReleased`.

Update service: `WaitersAreServed`, `UpdatesEnd`, and `FreshOrDirty` (an image without
a mark is whole and as new as the configuration in use names it). `FreshOrDirty`
excepts the images whose last data did not reach the disk whole (`lost`): the
code takes their mark away and knows no retry (section 6).

Remote reader: `RejectedPinNotSentAgain` (a PIN remembered for the next request
or the next client is not one the chip has rejected, also if the answer that
said so was lost; with at most one failing counter read), `AnswerIsHonest`,
`IdleForgets` for the phone; `AnswersFindTheirEntry`, `PairingAnswered` for the computer.
`PairingAnswered` says that the page hears an answer; it may be the answer to
another connection, which the page takes for its own.

`RightPasswordAsked`, `LastAttemptBehindCan`, `RejectedOnce` and
`AttemptReportedRight` are checked with `MaxReadFailures = 0` (`change_pin_many_moves`), and
their theorems speak of behaviours in which no reading of a counter has failed. With one
failing first read all but `RejectedOnce` are violated (TLC finds it with
`MaxReadFailures` 1 and three movements), and `RejectedOnce` with two of them
(five movements): the comparison in `StateVerifyRetryCounter` sees -1 both times.
That is the consequence of the finding `retry_counter_initialised`.

AppController: `EndIsPostedOnce`, `ShutdownNotForgotten`, `AuthAccounted`,
`AuthDecided`, `KeepsDeskPromise`; with its user interfaces `OneInCharge`,
`CommandsFit`, `ClientLeavesNothing` and `ShutdownCompletes`. The last one excepts
a workflow whose first state is asleep; that exception is the finding
`shutdown_needs_nobody`.

Each property has a mutant, a changed definition beside the original
(`...Mutant`, `StatusOfForgetful`), that violates it.

## 4. Fairness

* `WF(MainThread)`: the event loop and the state machine keep running.
* `WF(Executing)`: the reader thread serves its event queue. Polling and the
  user's hands are not fair: no card may ever come.
* `WF(ApprovedByKill)`: a killed workflow approves its states itself
  (`WorkflowContext::setCurrentState`). Otherwise nothing is assumed of the user.
* `AuthController`: the same, and `WF(Network)`: a request is answered or runs into
  its timeout (`NetworkReplyTimeout`). A redirect is no answer: a server that
  redirects for ever is excluded, the code does not limit it.
* `UpdateService`: `WF(Network)`, the timeout again. That `posted` calls wait is not
  assumed away: they are taken when there is room, and no liveness is claimed for
  them.
* `RemoteClient`: `WF(MainThread)` and `WF(ConnectorPosted)`, the event loops, and
  `WF(ConnectorAnswers)`: the socket of a request or its timer speaks up. The
  plug-in's thread, the network and the user owe nothing.
* `RemoteService` states no fairness; its properties are safety.
* `AppController`: `WF(Handle)`, the event loop. `UserInterfaces`: `WF(HandleEvent)`,
  the same, and `WF(EndingRuns)`: a workflow that was cancelled or killed comes to
  its end if its states are approved, which `ErrorEnds` and `KilledStops` show for
  the PIN workflow and `KilledStops` for the authentications. A state that is
  asleep or waits for somebody is not helped by it. The user, the client and the
  browser owe nothing.

## 5. Proofs

All for every value of the constants and without the bounds of section 4; they
use the named assumptions of the modules and nothing else. Two of these deserve
a word: `ConnectionAssumption` (the null `CardConnection` is no connection) and
`FiniteAssumption` of `RemoteConnector` (the devices and descriptors that can be
announced are finitely many, without a bound on how many; entries and answers are
counted, and the program's own lists are finite). Readers, cards, passwords,
files and callers need not be finite.

Where a theorem rests on what is under way between threads, the argument has the
same shape: a lemma says how each kind of step moves the two queues (`PaceProofs`:
a command is appended, executed into at most two messages, a message is taken, all
are disowned), the invariant says what may be in them in which state, and the proof of
its preservation has one step per action.

* **AppController.** None of its invariants is inductive alone. The inductive
  invariant joins `TypeOK`, "idle if and only if nobody is active",
  `WaitingHasWorkflow`, `EndOnItsWay` (a finished machine has exactly one end
  event in the queue, and any end event belongs to it), `ShutdownNotForgotten`,
  "an authentication request is posted once" and `AuthAccounted`. From it follow
  the safety properties and the refinement: `Refinement` proves
  `Spec => Desk!Spec` step by step, the two-event end mapping to a stutter and
  a `Finish`. Starting a workflow posts an event while another is taken; `Moved`
  says once what that means for everything counted in the queue.
* **User interfaces.** Every step of the composition is a step of `AppController`
  or leaves its variables alone (`StepIsController`), so that `IInv` and the
  refinement hold of it (`Composed`, `ControllerSafe`, `DeskServesAll`).
  `OneInCharge` becomes inductive with `GuiServesWorkflow`: the domination is
  only given while no workflow is active, and the window has none then.
  `CommandsFit` needs that only an authentication asks the client
  (`OnlyAuthAsks`); with it every step that leaves a state either replaces the
  last message or finds one that is no question.
* **PIN workflow.** `ControlInv` holds three facts about where the workflow is:
  at the exits the passwords are gone; an error or cancellation on record means
  the machine is on its way out (`ErrorIsTakenAway`); a reader has been selected
  wherever one is used. It is inductive without any typing. Relative to it
  `TypeOK` is inductive: the commands posted name readers that exist because a
  reader was selected. `SilentAfterError` then follows: once an error is on
  record, only states that post no password, PUK or new PIN are reachable.
  `FirstErrorStays` (the first error stays on record until the quit request;
  proved only) and `PasswordsForgotten` follow from `ControlInv`.
  `HandleOwned` needs `SelectsFree`: whoever looks for a card has no connection, so
  that a new one never replaces one whose handle would be lost (`HandleInv`).
  `SuccessMeansDone` is the end of an argument over the whole workflow,
  `SuccessInv`: as long as no error is on record the workflow was not quit, at most one
  secret is under way, as a command or as a reply, and only while the state
  that sent it waits for it (`Alone`, `OnTheWay`); an "OK" among the replies says what
  the chip has done last; and every state after that answer knows that
  the PIN was changed or unblocked (`Stage`). The basic reader's
  empty new PIN, which changes nothing, is excluded because it can only be posted
  after a quit request.
  *The PIN and its counter.* `RightPasswordAsked`, `RejectedOnce`,
  `LastAttemptBehindCan` and `AttemptReportedRight` relate the chip to what the
  workflow believes of it. They follow from one inductive invariant, `PinKnown`
  (`PinAccounted`), relative to `TypeOK` and `HandleInv`, under the hypothesis that
  no reading of a counter has failed (`failures = 0`), without which they are
  false (section 3). Nothing bounds cards, readers, movements, queues or
  what the user does; `PinModeAssumption` says that the workflow does not accept
  the CAN in place of the PIN, as nothing in the code lets it. `PinKnown` has four
  parts, each needed by the next.
  `SlotInv`: a card lies in one slot, an open handle has its card, a `Card` object
  knows the counter.
  `ConnInv`: what is asked of a card and the signals a connection hears concern the
  reader of that connection, and a channel opened with the CAN is open on no
  card but the one of the connection's handle.
  `CallInv`: until the workflow has come to a result (`Going`) at most one call is
  under way, as a command or as its answer, and its state waits for it;
  behind no other call is a password queued (`SecretFirst`).
  `PinInv`: its first part, `TrustInv`, speaks of a card that is reached over
  the connection's own handle (`Trusted`). `StageInv` says in which states the
  remembered counter is the chip's (`CounterRight`), in which it is the one the
  passwords are meant for (`CounterExpected`), when the remembered CAN channel agrees
  with the chip's as far as it matters (`CanRight`), and that the password asked for is
  the one needed (`WishRight`). `QueueInv` is the same for what is under way: a signal
  with a counter carries what the reader knows and precedes the answer to the
  question for it (`Informed`), and an answer tells the truth (`Promise`: after "OK" to
  the question the reader's copy is the chip's; after "invalid PIN" the remembered counter
  is one above it). The step that makes this inductive is that a card once out
  of reach does not come back into it (the lemmas `...OwnBefore`): only a new worker
  does that, and it brings a new copy of the counter.
  The other parts of `PinInv` hold whether or not the card is trusted. `Sendable`: a
  PIN on its way to a card is one the card looks at and has not rejected.
  `Behind`: a PIN that was rejected is only kept together with an expected counter
  above the chip's, so the comparison in `StateVerifyRetryCounter` cannot keep it once
  the counter was read again. This is where the lost answer is dealt with: nothing
  tells the workflow of the attempt, but the card that is connected next shows a
  counter that is lower, and counters only rise with a success.
* **Update service.** `Served` is `TypeOK` with `WaitersAreServed`: an update that runs
  has its request outstanding because scheduling adds to the queue, a reply takes
  away only its own URL, and whoever listened for that URL has stopped. It is
  inductive. `FreshOrDirty` is not: `Fresh` adds `Published` (the configuration in
  use is the cached one, or an older one while the cached one is torn; what it
  names has been published; a torn image is `lost`), `QueueHonest`
  (a waiting request says "newer than" something not newer than the cache) and
  `ReplyHonest` (the reply under way for an image left the server when it held
  what the configuration in use names, or the mark stays). So "not modified" clears
  a mark only if there is nothing to fetch, also when a configuration sets the
  mark while the image is downloaded.
* **Remote service.** `TypeOK` is not inductive: the expected counter is decremented
  by an answer, and stays in range because there is only one. `OneAnswer` says so:
  of the commands and answers of a state at most one is under way, and only while
  that state waits for it; whoever leaves a state disowns them. With it `TypeOK` and
  `IdleForgets` are inductive. `AnswerIsHonest` needs two more parts: the output
  stays unknown until its answer has come (`Outcome`), and an "OK" that is under way
  belongs to the present request (`OkIsMeant`), since a new request cannot begin
  before the old command's answer is disowned. `RejectedPinNotSentAgain`
  (`RejectedPinStays`) relates five copies of one counter, the chip's, the
  reader's, those of the two connections and the one the request expects, and
  the signals that carry it. `ChipOrder`: at most
  one command that gives the chip a password is queued, the present state's
  own command is never before it, and none is queued while an answer waits or while a
  request is on its way from the comparison to the card. `Views`: the last signal
  that waits for a connection tells what the reader knows, and if none waits the
  connection knows it already; how each step moves that is said once (`HearSay`).
  `PinInv` is what must be shown: a rejected PIN that is still remembered
  (`Spent`) and not about to be cleared is `Behind`. That is, the expected counter is one
  above the chip's, because the chip has counted the attempt and the answer that
  would have lowered it has not come; or it is -1 from the one failed reading the property
  allows, and as soon as the reader knows the counter so will the connections.
  From the comparison to the card the expected counter is
  the chip's, or -1 from that reading (`KnownCounter`, `Blind`), and the PIN is not
  `Spent` (`CounterCompared`, `MaySend`).

* **Remote client.** `TypeOK` needs to know that an event names a connection which
  was made (`QueuesOK`); together they are inductive (`Typed`), and show that the count of
  refusals never reaches the number at which the device is forgotten.
  `AnswersFindTheirEntry` is a matter of accounts, `Balanced`: for each device the
  requests posted and not yet taken, the requests that may still answer and the
  answers that wait for the main thread are together no more than the
  device's entries. It is no equation: a request that is deleted before it answers
  leaves its entry behind. A request that replaces another of the same
  descriptor leaves that one waiting for its deferred deletion, in which it
  can still answer, so both are counted. The proof goes by lemmas on the
  cardinality of positions in a queue to which an event is added or from which
  the first is taken, and by one step for each way an action moves an item
  from one column of the account to the next.
* **Authentication.** `AuthInv` is inductive without any typing. `PasswordsGone`: a
  password is remembered only in the states from its entry to
  `StateClearPacePasswords`, so `PasswordsCleared` holds also on the ways that
  errors and cancellations take around that state. `Judged`: a verdict exists
  only at the end, it is "ok" only from a server that has found the chip authentic,
  a server does so only with a TC token and in the states past EAC 2, an ending
  state without error has the verdict "ok", and success and history need that
  verdict. `SuccessIsReal` follows. `TypeCorrect` is proved as for the PIN workflow, with
  the lemmas of `PaceProofs`. `ErrorTold` says which states an error on
  record leaves (`AfterError`), and that one of them which waits for the server's answer
  has told it of the error; so `SilentAfterError` holds and nothing on the
  way past an error asks the server to go on (`ServerHearsOfError`; proved
  only). `EacInOrder` is not inductive; `OrderInv` is, together with `TypeOK`
  and `ErrorTold`. It has two halves. While no error is on record (`NoError`), at most
  one call to the card is under way, as a command or as its reply, and the
  state that made it waits (`OneCall`); the connections asked for in vain are older than that call
  in the queue, so none of them can reset the chip behind it (`OldWishes`); and
  the state of the workflow, or the reply that leads to it, says how far the chip of
  the connection is if it can be reached at all (`Promised`). Afterwards a
  state may be given up while its command is still queued; so `EacUnderWay` says of
  the command itself that the chip is where it needs it, and that nothing which would
  change that is under way or can be posted before the reader thread has taken it.
  `HandlesLive` (an open handle has its card in the slot), `SelectsFree` (as for the
  PIN workflow) and `KillWaits` (which states a quit request may still run
  through) support both.

Only model-checked: all liveness properties (`KilledStops`, `ErrorEnds`,
`CardsReleased`, `UpdatesEnd`, `PairingAnswered`, `AuthDecided`, `ShutdownCompletes`,
`ClientLeavesNothing`), which are out of TLAPS's reach under fairness. Every
invariant and every action property of the passing runs is a theorem.

## 6. Findings

* `new_pin_entered`: quitting during the entry of the new PIN posts an empty new
  PIN to a basic reader, against the assertion in `CardConnectionWorker::setEidPin`.
* `retry_counter_initialised`: a counter that could not be read at detection
  stays unknown to the connection after a successful update, against the
  assertion in `StateUpdateRetryCounter`.
* `shutdown_needs_nobody`: a signal that is handled between the start of a workflow
  and the entry of its first state leaves that state approved and never run; the
  shutdown waits for a cancellation or a second signal, against the comment in
  `AppController::doShutdown`.
* `app_shutdown`: a request handled after `doShutdown` cleared the queue is
  started during the shutdown.

Four places besides, where no document is contradicted:

* A new PIN that a PIN pad rejects leads to `StatePreparePace` with the PIN channel
  open, a branch marked `Q_UNREACHABLE`.
* `Downloader::onNetworkReplyFinished` looks at the error of a reply only if its status
  is unknown (`Downloader.cpp:131-165`). A download that the timeout, the end of the program
  or a cut connection breaks off after its headers is therefore a success: a part of
  the file, or nothing, is saved under the new timestamp, its mark goes, and the
  next request asks only for something newer. `FreshOrDirty` excepts these images
  together with those the disk refused (`lost`).
* A workflow that starts during a client's handshake waits for an approval nobody
  gives until somebody quits.
* `StateConnectCard` asks for a connection on entry and again with every inserted card
  that is signalled. A wish in excess stays in the reader thread's queue when
  the first worker is taken, behind the command of `StateUpdateRetryCounter`. If the card is
  exchanged for another one meanwhile and the poll notices it, the wish opens a
  handle on the new card. The worker it makes is dropped when its announcement
  reaches the main thread, but until then the older `CardConnection` reaches the new
  card through it, with the old card's counter. TLC finds this with two cards and five
  movements: stated with `Reach` instead of `OwnCard`, `RightPasswordAsked` and
  `LastAttemptBehindCan` are violated. It came up because `PinInv` stated with `Reach`
  is not inductive; for the same reason `blame` counts only what is sent over the
  connection's own handle.

## 7. Not modelled

Unplugged readers and device errors, cards that are no ID cards, a deactivated
PIN, a CAN or PUK read from a PIN pad other than as an arbitrary password, the
counter refresh a user interface may ask for, disconnecting a reader in
`onAbort` (PC/SC readers cannot be disconnected), the content of messages, the
cryptography of PACE and secure messaging, the mode in which an authentication is
allowed with the CAN. Of the user interfaces presentation, dialogs and the QML
client; of the JSON API the messages' contents and the commands that only read;
of the activation handlers the web pages. On the phone, switching pin pad mode while the service
runs and APDUs of the client that change the PIN counter themselves. On the
computer, the readers behind a connection and their cards, and that
`RemoteCard` matches an answer to its request by type only.

Most of the repository has no behaviour to check: widgets and QML models, command
line and JSON presentation, ASN.1 and CBOR encodings, XML templates, generated
tables, mobile back ends, tests. These are marked `not_modelled` in
`PROJECT.json` with the reason.

## 8. Plan

Done: the PIN workflow with card and reader thread, the authentication
workflows, `AppController` with its abstract `RequestDesk` and its user
interfaces, the update service, both sides of the remote reader, and their
theorems (section 5); of the properties the runs check, all but liveness.

Left, in order of importance:

1. `SecureMessaging`: the send sequence counter of both sides with lost answers.
2. The two sides of the remote reader over one channel that may break.
3. The answers of the activation handlers to the browser.
