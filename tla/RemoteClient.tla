---------------------------- MODULE RemoteClient ----------------------------
(***************************************************************************)
(* The computer that uses a phone as a card reader: RemoteClientImpl with  *)
(* its RemoteDeviceList and the pairing page (RemoteServiceModel) in the   *)
(* main thread, RemoteReaderManagerPlugIn in the reader thread, and the    *)
(* RemoteConnector both of them depend on.                                 *)
(*                                                                         *)
(* The readers of a phone and their cards are left out (CardReader models  *)
(* readers): here a connection is listed or not.                           *)
(***************************************************************************)
EXTENDS RemoteConnector, SequencesExt

CONSTANTS
  MaxRefusals,   \* refusals until the certificate of a device goes, 7 in the code
  MaxInputs      \* bound: ticks of the scan timer, news of devices, calls of the user

ASSUME RefusalAssumption == MaxRefusals \in Nat \ {0}
ASSUME InputsAssumption == MaxInputs \in Nat

VARIABLES
  detecting,     \* mDatagramHandler listens
  announced,     \* mResponsiveList
  pending,       \* mRemoteConnectorPending: [Devices -> how many entries]
  errors,        \* mErrorCounter
  connected,     \* mConnectedDeviceIds: [Devices -> how often]
  remembered,    \* the entries the pairing page may have remembered
  dialog,        \* the page waits for fireEstablishConnectionDone
  scanning,      \* the plug-in's timer runs, it hears of new devices
  autoConnect,   \* mConnectToPairedReaders
  checking,      \* mConnectionCheckInProgress
  listed,        \* mDispatcherList: [Devices -> connection, 0: none]
  inputs         \* what has come from outside so far

mainVars   == <<detecting, announced, pending, errors, connected, remembered, dialog>>
plugInVars == <<scanning, autoConnect, checking, listed>>
vars == <<connectorVars, mainVars, plugInVars, inputs>>

\* The ranges of all variables: a device is forgotten at the last refusal its
\* counter may reach, what is listed has been connected.
TypeOK ==
  /\ requests \in [Requests -> Nat] /\ ghosts \in [Requests -> Nat]
  /\ conns \in Seq(Connections) /\ trust \in [Devices -> {"none", "new", "named"}]
  /\ detecting \in BOOLEAN /\ announced \subseteq Descriptors
  /\ pending \in [Devices -> Nat] /\ errors \in [Devices -> 0 .. MaxRefusals - 1]
  /\ connected \in [Devices -> Nat]
  /\ remembered \subseteq Descriptors /\ dialog \in BOOLEAN
  /\ scanning \in BOOLEAN /\ autoConnect \in BOOLEAN /\ checking \in BOOLEAN
  /\ listed \in [Devices -> 0 .. Len(conns)]

Init ==
  /\ ConnectorInit
  /\ detecting = FALSE /\ announced = {} /\ remembered = {} /\ dialog = FALSE
  /\ pending = [d \in Devices |-> 0] /\ errors = [d \in Devices |-> 0]
  /\ connected = [d \in Devices |-> 0]
  /\ scanning = FALSE /\ autoConnect = TRUE /\ checking = FALSE
  /\ listed = [d \in Devices |-> 0]
  /\ inputs = 0

-----------------------------------------------------------------------------
(* Main thread: RemoteClientImpl.                                          *)

Received(kind) == toMain # <<>> /\ Head(toMain).kind = kind /\ toMain' = Tail(toMain)

\* Mutant: a device that is being connected to is not noted once more.
EstablishConnectionMutant(to, psk) ==
  /\ pending' = [pending EXCEPT ![to.dev] = 1]
  /\ toConnector' = Append(toConnector, [kind |-> "connect", to |-> to, psk |-> psk])
EstablishConnection(to, psk) ==
  /\ pending' = [pending EXCEPT ![to.dev] = @ + 1]
  /\ toConnector' = Append(toConnector, [kind |-> "connect", to |-> to, psk |-> psk])

\* mapToAndTakeRemoteConnectorPending and fireEstablishConnectionDone. The
\* page does not look at the device the answer is about.
Take(d) == pending[d] > 0 /\ pending' = [pending EXCEPT ![d] = @ - 1] /\ dialog' = FALSE

OnRemoteDispatcherCreated ==
  LET d == Head(toMain).to.dev
      c == Head(toMain).conn
  IN /\ Received("created")
     /\ Take(d)
     /\ errors' = [errors EXCEPT ![d] = 0]
     /\ connected' = [connected EXCEPT ![d] = @ + 1]
     /\ conns' = [conns EXCEPT ![c].main = TRUE]
     /\ toPlugIn' = Append(toPlugIn, [kind |-> "new", conn |-> c])
     /\ UNCHANGED <<requests, ghosts, trust, toConnector, detecting, announced, remembered>>
     /\ UNCHANGED <<plugInVars, inputs>>

\* Mutant: the counter keeps its value when the certificate goes.
RefusedMutant(d) ==
  /\ errors' = [errors EXCEPT ![d] = @ + 1]
  /\ trust' = IF errors[d] + 1 >= MaxRefusals THEN [trust EXCEPT ![d] = "none"] ELSE trust
Refused(d) ==
  IF errors[d] + 1 >= MaxRefusals
  THEN errors' = [errors EXCEPT ![d] = 0] /\ trust' = [trust EXCEPT ![d] = "none"]
  ELSE errors' = [errors EXCEPT ![d] = @ + 1] /\ UNCHANGED trust

OnRemoteDispatcherError ==
  LET d == Head(toMain).to.dev
  IN /\ Received("error")
     /\ Take(d)
     /\ IF Head(toMain).code = "OTHER"
        THEN errors' = [errors EXCEPT ![d] = 0] /\ UNCHANGED trust
        ELSE Refused(d)
     /\ UNCHANGED <<requests, ghosts, conns, toConnector, toPlugIn>>
     /\ UNCHANGED <<detecting, announced, connected, remembered, plugInVars, inputs>>

OnDispatcherDestroyed ==
  /\ Received("closed")
  /\ connected' = [connected EXCEPT ![conns[Head(toMain).conn].dev] = 0]
  /\ UNCHANGED <<requests, ghosts, conns, trust, toConnector, toPlugIn>>
  /\ UNCHANGED <<detecting, announced, pending, errors, remembered, dialog, plugInVars, inputs>>

\* Calls of the plug-in.
OnEstablish ==
  /\ Received("establish")
  /\ EstablishConnection(Head(toMain).to, FALSE)
  /\ UNCHANGED <<requests, ghosts, conns, trust, toPlugIn>>
  /\ UNCHANGED <<detecting, announced, errors, connected, remembered, dialog, plugInVars, inputs>>

RequestRemoteDevices ==
  /\ Received("requestDevices")
  /\ toPlugIn' = Append(toPlugIn, [kind |-> "devices", devs |-> announced])
  /\ UNCHANGED <<requests, ghosts, conns, trust, toConnector, mainVars, plugInVars, inputs>>

\* Whoever stops the detection stops it for all.
SetDetection(on) ==
  /\ detecting' = on
  /\ announced' = IF on THEN announced ELSE {}

OnDetection(kind) ==
  /\ Received(kind)
  /\ SetDetection(kind = "startDetection")
  /\ UNCHANGED <<requests, ghosts, conns, trust, toConnector, toPlugIn>>
  /\ UNCHANGED <<pending, errors, connected, remembered, dialog, plugInVars, inputs>>

MainThread ==
  \/ OnRemoteDispatcherCreated
  \/ OnRemoteDispatcherError
  \/ OnDispatcherDestroyed
  \/ OnEstablish
  \/ RequestRemoteDevices
  \/ OnDetection("startDetection")
  \/ OnDetection("stopDetection")

-----------------------------------------------------------------------------
(* Main thread: announcements and the pairing page.                        *)

UnchangedByDevices == UNCHANGED <<requests, ghosts, conns, trust, toConnector, pending, errors, connected, plugInVars>>

\* RemoteDeviceList::update. An entry keeps the URL it was made with.
OnNewMessage(e) ==
  /\ detecting
  /\ \A a \in announced : a.dev # e.dev
  /\ announced' = announced \cup {e} /\ remembered' = remembered \cup {e}
  /\ toPlugIn' = IF scanning THEN Append(toPlugIn, [kind |-> "appeared"]) ELSE toPlugIn
  /\ UnchangedByDevices
  /\ UNCHANGED <<toMain, detecting, dialog>>

OnProcessUnresponsiveRemoteReaders(e) ==
  /\ e \in announced /\ announced' = announced \ {e}
  /\ UnchangedByDevices
  /\ UNCHANGED <<toMain, toPlugIn, detecting, remembered, dialog>>

SetDetectRemoteDevices ==
  /\ SetDetection(~detecting)
  /\ UnchangedByDevices
  /\ UNCHANGED <<toMain, toPlugIn, remembered, dialog>>

\* rememberServer has taken an entry from the list; it may have left the list
\* when the user has entered the PSK.
ConnectToRememberedServer ==
  /\ \E e \in remembered : EstablishConnection(e, TRUE)
  /\ dialog' = TRUE
  /\ UNCHANGED <<requests, ghosts, conns, trust, toMain, toPlugIn>>
  /\ UNCHANGED <<detecting, announced, errors, connected, remembered, plugInVars>>

ForgetDevice(d) ==
  /\ trust[d] # "none" /\ trust' = [trust EXCEPT ![d] = "none"]
  /\ UNCHANGED <<requests, ghosts, conns, toConnector, toMain, toPlugIn, mainVars, plugInVars>>

World ==
  \/ \E e \in Descriptors : OnNewMessage(e) \/ OnProcessUnresponsiveRemoteReaders(e)
  \/ SetDetectRemoteDevices
  \/ ConnectToRememberedServer
  \/ \E d \in Devices : ForgetDevice(d)

-----------------------------------------------------------------------------
(* Reader thread: RemoteReaderManagerPlugIn.                               *)

Hears(kind) == toPlugIn # <<>> /\ Head(toPlugIn).kind = kind /\ toPlugIn' = Tail(toPlugIn)

UnchangedByPlugIn == UNCHANGED <<requests, ghosts, mainVars>>

\* The call itself and what it posts to the main thread after the events in
\* before.
ConnectToPairedReaders(before) ==
  IF autoConnect' /\ ~checking
  THEN checking' = TRUE /\ toMain' = toMain \o Append(before, [kind |-> "requestDevices"])
  ELSE UNCHANGED checking /\ toMain' = toMain \o before

ScanTimeout ==
  /\ scanning
  /\ UNCHANGED autoConnect /\ ConnectToPairedReaders(<<>>)
  /\ UNCHANGED <<conns, trust, toConnector, toPlugIn, scanning, listed>> /\ UnchangedByPlugIn

OnDeviceAppeared ==
  /\ Hears("appeared")
  /\ UNCHANGED autoConnect /\ ConnectToPairedReaders(<<>>)
  /\ UNCHANGED <<conns, trust, toConnector, scanning, listed>> /\ UnchangedByPlugIn

ContinueConnectToPairedReaders ==
  LET wanted == {e \in Head(toPlugIn).devs : /\ e.dev \notin Unsupported
                                             /\ listed[e.dev] = 0
                                             /\ trust[e.dev] # "none"}
      calls == {[kind |-> "establish", to |-> e] : e \in wanted}
  IN /\ Hears("devices")
     /\ toMain' = toMain \o SetToSeq(calls)
     /\ checking' = FALSE
     /\ UNCHANGED <<conns, trust, toConnector, scanning, autoConnect, listed>>
     /\ UnchangedByPlugIn

\* An earlier dispatcher of the device is dropped, with its connections.
AddRemoteDispatcher ==
  LET c == Head(toPlugIn).conn
      d == conns[c].dev
  IN /\ Hears("new")
     /\ listed' = [listed EXCEPT ![d] = c]
     /\ conns' = [i \in DOMAIN conns |->
                    IF i = c THEN [conns[i] EXCEPT !.plugIn = TRUE, !.asked = TRUE]
                    ELSE IF i = listed[d] THEN [conns[i] EXCEPT !.dropped = TRUE] ELSE conns[i]]
     /\ UNCHANGED <<trust, toConnector, toMain, scanning, autoConnect, checking>>
     /\ UnchangedByPlugIn

\* The name of the phone is kept if it is paired. A phone without a name has
\* just been paired, or forgotten: it is left alone.
OnContextEstablished ==
  LET d == conns[Head(toPlugIn).conn].dev
  IN /\ Hears("context")
     /\ trust' = IF trust[d] = "new" THEN [trust EXCEPT ![d] = "named"] ELSE trust
     /\ toConnector' = IF trust[d] # "named" /\ listed[d] # 0
                       THEN Append(toConnector, [kind |-> "close", conn |-> listed[d]])
                       ELSE toConnector
     /\ UNCHANGED <<conns, toMain, plugInVars>> /\ UnchangedByPlugIn

\* removeDispatcher goes by the device.
OnDispatcherClosed ==
  LET d == conns[Head(toPlugIn).conn].dev
  IN /\ Hears("closed")
     /\ listed' = [listed EXCEPT ![d] = 0]
     /\ conns' = [i \in DOMAIN conns |->
                    IF i = listed[d] THEN [conns[i] EXCEPT !.plugIn = FALSE, !.dropped = TRUE]
                    ELSE conns[i]]
     /\ UNCHANGED <<trust, toConnector, toMain, scanning, autoConnect, checking>>
     /\ UnchangedByPlugIn

RemoveAllDispatchers ==
  toConnector' = toConnector \o
    SetToSeq({[kind |-> "close", conn |-> listed[d]] : d \in {x \in Devices : listed[x] # 0}})

StartScan(auto) ==
  /\ scanning' = TRUE /\ autoConnect' = auto
  /\ IF auto THEN UNCHANGED toConnector ELSE RemoveAllDispatchers
  /\ ConnectToPairedReaders(<<[kind |-> "startDetection"]>>)
  /\ UNCHANGED <<conns, trust, toPlugIn, listed>> /\ UnchangedByPlugIn

StopScan ==
  /\ scanning /\ scanning' = FALSE
  /\ toMain' = Append(toMain, [kind |-> "stopDetection"])
  /\ RemoveAllDispatchers
  /\ UNCHANGED <<conns, trust, toPlugIn, autoConnect, checking, listed>>
  /\ UnchangedByPlugIn

PlugIn ==
  \/ OnDeviceAppeared
  \/ ContinueConnectToPairedReaders
  \/ AddRemoteDispatcher
  \/ OnContextEstablished
  \/ OnDispatcherClosed

Scan == ScanTimeout \/ StartScan(TRUE) \/ StartScan(FALSE) \/ StopScan

-----------------------------------------------------------------------------
UnchangedByConnector == UNCHANGED <<mainVars, plugInVars, inputs>>

ConnectorPosted   == (OnConnectRequest \/ CloseDispatcher) /\ UnchangedByConnector
ConnectorAnswers  == Answers /\ UnchangedByConnector
ConnectorDeletes  == (DeleteLater \/ DeleteDispatcher) /\ UnchangedByConnector
ConnectorNetwork  == (SocketCloses \/ EstablishContext) /\ UnchangedByConnector

Input == inputs < MaxInputs /\ inputs' = inputs + 1 /\ (Scan \/ World)

\* Nothing is under way; the next input is awaited.
Idle ==
  /\ toMain = <<>> /\ toPlugIn = <<>> /\ toConnector = <<>>
  /\ \A r \in Requests : Alive(r) = 0
  /\ UNCHANGED vars

Next ==
  \/ MainThread
  \/ PlugIn /\ UNCHANGED inputs
  \/ Input
  \/ Idle
  \/ ConnectorPosted
  \/ ConnectorAnswers
  \/ ConnectorDeletes
  \/ ConnectorNetwork

\* The event loops go on; the socket of a request or its timer speaks up.
Fairness ==
  /\ WF_vars(MainThread)
  /\ WF_vars(ConnectorPosted)
  /\ WF_vars(ConnectorAnswers)

Spec == Init /\ [][Next]_vars /\ Fairness

-----------------------------------------------------------------------------
(* Properties. *)

\* Every answer of the connector finds the entry it was asked for, however
\* many requests to a device overlap and whichever of them an answer removes
\* (the assertion in mapToAndTakeRemoteConnectorPending).
AnswersFindTheirEntry ==
  toMain # <<>> /\ Head(toMain).kind \in {"created", "error"} => pending[Head(toMain).to.dev] > 0

\* The user who has started a pairing hears of an end of it, although the
\* answer to another request may have removed the page's own.
PairingAnswered == dialog ~> ~dialog
=============================================================================
