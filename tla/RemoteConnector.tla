-------------------------- MODULE RemoteConnector --------------------------
(***************************************************************************)
(* The thread that connects to phones used as card readers:                *)
(* RemoteConnectorImpl with its ConnectRequests, and the web sockets that  *)
(* live in it (WebSocketChannel, RemoteDispatcherClient). Its slots run    *)
(* one after the other; calls reach it and its signals leave it as posted  *)
(* events. RemoteClient adds the two threads it talks to.                  *)
(*                                                                         *)
(* The phones and the network are external. A phone that announces itself  *)
(* under an ID owns the certificate with that fingerprint. The computer    *)
(* has a key pair of its own or can generate one.                          *)
(***************************************************************************)
EXTENDS Integers, Sequences, FiniteSets

CONSTANTS
  Devices,       \* IfdIds
  Descriptors,   \* RemoteDeviceDescriptors: a device and where it can be reached
  Unsupported    \* devices without a common API version, or without a name (OTHER)

ASSUME DescriptorAssumption == \A e \in Descriptors : e.dev \in Devices
ASSUME FiniteAssumption == IsFiniteSet(Devices) /\ IsFiniteSet(Descriptors)
ASSUME UnsupportedAssumption == Unsupported \subseteq Devices

VARIABLES
  requests,      \* mPendingRequests: [Requests -> how many]
  ghosts,        \* removed requests whose deletion is deferred
  conns,         \* the sockets that were connected, with their dispatchers
  trust,         \* [Devices -> RemoteInfo: none, without a name, with a name]
  toConnector,   \* events posted to this thread,
  toMain,        \* to the main thread,
  toPlugIn       \* to the thread of RemoteReaderManagerPlugIn

connectorVars == <<requests, ghosts, conns, trust, toConnector, toMain, toPlugIn>>

\* What a request can do is settled when it is made: it has a PSK, or it
\* trusts the certificates of that moment.
Requests == [to : Descriptors, mode : {"pairing", "known", "unknown"}]

\* main, plugIn: who is connected to fireClosed. asked: the phone has been
\* asked for a context. dropped: nobody holds the dispatcher any more.
Connections == [dev : Devices, open : BOOLEAN, main : BOOLEAN, plugIn : BOOLEAN,
                asked : BOOLEAN, dropped : BOOLEAN]

ErrorCodes == {"REFUSED", "NO_SUPPORTED_API_LEVEL", "OTHER"}

ConnectorInit ==
  /\ requests = [r \in Requests |-> 0] /\ ghosts = [r \in Requests |-> 0]
  /\ conns = <<>>
  /\ trust \in [Devices -> {"none", "named"}]
  /\ toConnector = <<>> /\ toMain = <<>> /\ toPlugIn = <<>>

Error(to, code) == [kind |-> "error", to |-> to, code |-> code]
Created(to, c)  == [kind |-> "created", to |-> to, conn |-> c]
Closed(c)       == [kind |-> "closed", conn |-> c]

-----------------------------------------------------------------------------
OnConnectRequest ==
  LET to == Head(toConnector).to
      d == to.dev
      mode == IF Head(toConnector).psk THEN "pairing"
              ELSE IF trust[d] = "none" THEN "unknown" ELSE "known"
  IN /\ toConnector # <<>> /\ Head(toConnector).kind = "connect"
     /\ toConnector' = Tail(toConnector)
     /\ IF d \in Unsupported
        THEN /\ \E code \in {"NO_SUPPORTED_API_LEVEL", "OTHER"} : toMain' = Append(toMain, Error(to, code))
             /\ UNCHANGED requests
        ELSE requests' = [requests EXCEPT ![[to |-> to, mode |-> mode]] = @ + 1] /\ UNCHANGED toMain
     /\ UNCHANGED <<ghosts, conns, trust, toPlugIn>>

Alive(r) == requests[r] + ghosts[r]

\* Every pending request to the same descriptor goes with the one that
\* answers. Until they are deleted they may answer as well.
RemoveRequest(r) ==
  /\ requests' = [q \in Requests |-> IF q.to = r.to THEN 0 ELSE requests[q]]
  /\ ghosts' = [q \in Requests |-> IF q.to # r.to THEN ghosts[q]
                                   ELSE IF q = r THEN Alive(q) - 1 ELSE Alive(q)]

\* The TLS handshake works out: by the PSK or with a certificate that is trusted.
Trusted(r) == r.mode \in {"pairing", "known"}

OnConnectionCreated(r) ==
  /\ Alive(r) > 0 /\ Trusted(r)
  /\ RemoveRequest(r)
  /\ conns' = Append(conns, [dev |-> r.to.dev, open |-> TRUE, main |-> FALSE, plugIn |-> FALSE,
                             asked |-> FALSE, dropped |-> FALSE])
  /\ trust' = IF r.mode = "pairing" /\ trust[r.to.dev] = "none"
              THEN [trust EXCEPT ![r.to.dev] = "new"] ELSE trust
  /\ toMain' = Append(toMain, Created(r.to, Len(conns')))
  /\ UNCHANGED <<toConnector, toPlugIn>>

\* Mutant: a failed request is forgotten without a word.
OnConnectionErrorMutant(r) ==
  /\ Alive(r) > 0
  /\ RemoveRequest(r)
  /\ UNCHANGED <<conns, trust, toConnector, toMain, toPlugIn>>
\* The socket reports an error, or the timer of the request fires.
OnConnectionError(r) ==
  /\ Alive(r) > 0
  /\ RemoveRequest(r)
  /\ \E code \in {"REFUSED", "OTHER"} : toMain' = Append(toMain, Error(r.to, code))
  /\ UNCHANGED <<conns, trust, toConnector, toPlugIn>>

Answers == \E r \in Requests : OnConnectionCreated(r) \/ OnConnectionError(r)

\* Back in the event loop.
DeleteLater ==
  /\ \E r \in Requests : ghosts[r] > 0
  /\ ghosts' = [r \in Requests |-> 0]
  /\ UNCHANGED <<requests, conns, trust, toConnector, toMain, toPlugIn>>

\* The disconnected signal of a socket becomes fireClosed of its dispatcher,
\* for those that are connected to it by now.
Disconnected(c) ==
  /\ conns[c].open
  /\ conns' = [conns EXCEPT ![c].open = FALSE]
  /\ toMain' = IF conns[c].main THEN Append(toMain, Closed(c)) ELSE toMain
  /\ toPlugIn' = IF conns[c].plugIn THEN Append(toPlugIn, Closed(c)) ELSE toPlugIn

\* The phone closes, the network fails, no pong comes back.
SocketCloses ==
  /\ \E c \in DOMAIN conns : Disconnected(c)
  /\ UNCHANGED <<requests, ghosts, trust, toConnector>>

\* RemoteDispatcher::close, posted. A closed socket stays silent.
CloseDispatcher ==
  /\ toConnector # <<>> /\ Head(toConnector).kind = "close"
  /\ toConnector' = Tail(toConnector)
  /\ IF conns[Head(toConnector).conn].open
     THEN Disconnected(Head(toConnector).conn)
     ELSE UNCHANGED <<conns, toMain, toPlugIn>>
  /\ UNCHANGED <<requests, ghosts, trust>>

\* A dispatcher that is deleted disconnects from its channel first: nobody
\* hears of the end of that socket.
DeleteDispatcher ==
  /\ \E c \in DOMAIN conns :
       /\ conns[c].dropped /\ conns[c].open
       /\ conns' = [conns EXCEPT ![c].open = FALSE]
  /\ UNCHANGED <<requests, ghosts, trust, toConnector, toMain, toPlugIn>>

\* The phone answers IFDEstablishContext.
EstablishContext ==
  /\ \E c \in DOMAIN conns :
       /\ conns[c].open /\ conns[c].asked
       /\ conns' = [conns EXCEPT ![c].asked = FALSE]
       /\ toPlugIn' = IF conns[c].plugIn
                      THEN Append(toPlugIn, [kind |-> "context", conn |-> c]) ELSE toPlugIn
  /\ UNCHANGED <<requests, ghosts, trust, toConnector, toMain>>
=============================================================================
