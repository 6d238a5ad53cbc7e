------------------------ MODULE RemoteClientProofs ------------------------
(***************************************************************************)
(* Type correctness of the computer that uses phones as card readers, and  *)
(* the bookkeeping of its connection requests: every answer finds an entry *)
(* of its device. For any finite number of phones and addresses, any       *)
(* number of overlapping requests and any bounds.                          *)
(***************************************************************************)
EXTENDS RemoteClient, SequenceTheorems, FiniteSetTheorems, TLAPS

-----------------------------------------------------------------------------
(* The events of the three threads, with n connections made so far.        *)

MainEvents(n) ==
  [kind : {"error"}, to : Descriptors, code : ErrorCodes]
    \cup [kind : {"created"}, to : Descriptors, conn : 1 .. n]
    \cup [kind : {"closed"}, conn : 1 .. n]
    \cup [kind : {"establish"}, to : Descriptors]
    \cup [kind : {"requestDevices", "startDetection", "stopDetection"}]

ConnectorEvents(n) ==
  [kind : {"connect"}, to : Descriptors, psk : BOOLEAN] \cup [kind : {"close"}, conn : 1 .. n]

PlugInEvents(n) ==
  [kind : {"appeared"}]
    \cup [kind : {"devices"}, devs : SUBSET Descriptors]
    \cup [kind : {"new", "context", "closed"}, conn : 1 .. n]

QueuesOK ==
  /\ toMain \in Seq(MainEvents(Len(conns)))
  /\ toConnector \in Seq(ConnectorEvents(Len(conns)))
  /\ toPlugIn \in Seq(PlugInEvents(Len(conns)))

Typed == TypeOK /\ QueuesOK

LEMMA Queues ==
  ASSUME NEW S, NEW q \in Seq(S)
  PROVE  /\ q # <<>> => Head(q) \in S /\ Tail(q) \in Seq(S)
         /\ \A x \in S : Append(q, x) \in Seq(S)
         /\ \A p \in Seq(S) : q \o p \in Seq(S)
BY HeadTailProperties, AppendProperties, ConcatProperties

(* A finite set becomes a sequence of its elements.                        *)
LEMMA Listed ==
  ASSUME NEW S, IsFiniteSet(S)
  PROVE  SetToSeq(S) \in Seq(S)
<1>1. Cardinality(S) \in Nat /\ ExistsBijection(1 .. Cardinality(S), S)
  BY FS_CardinalityType
<1>2. \E f \in [1 .. Cardinality(S) -> S] : IsInjective(f)
  BY <1>1 DEF ExistsBijection, Bijection, Injection, IsInjective, Surjection
<1>3. SetToSeq(S) \in [1 .. Cardinality(S) -> S]
  BY <1>2 DEF SetToSeq
<1> QED BY <1>1, <1>3

(* What was a legal event stays one when a connection is added.            *)
LEMMA MoreConnections ==
  ASSUME NEW n \in Nat, NEW m \in Nat, n <= m
  PROVE  /\ Seq(MainEvents(n)) \subseteq Seq(MainEvents(m))
         /\ Seq(ConnectorEvents(n)) \subseteq Seq(ConnectorEvents(m))
         /\ Seq(PlugInEvents(n)) \subseteq Seq(PlugInEvents(m))
<1>1. \A c \in 1 .. n : c \in 1 .. m
  OBVIOUS
<1>2. MainEvents(n) \subseteq MainEvents(m)
  BY <1>1 DEF MainEvents
<1>3. ConnectorEvents(n) \subseteq ConnectorEvents(m)
  BY <1>1 DEF ConnectorEvents
<1>4. PlugInEvents(n) \subseteq PlugInEvents(m)
  BY <1>1 DEF PlugInEvents
<1> QED BY <1>2, <1>3, <1>4, SeqMonotonic

(* The head of a queue, by its kind.                                       *)
LEMMA FirstToMain ==
  ASSUME Typed, toMain # <<>>
  PROVE  /\ Head(toMain) \in MainEvents(Len(conns)) /\ Tail(toMain) \in Seq(MainEvents(Len(conns)))
         /\ Head(toMain).kind \in {"error", "created", "establish"} =>
              Head(toMain).to \in Descriptors /\ Head(toMain).to.dev \in Devices
         /\ Head(toMain).kind \in {"created", "closed"} =>
              Head(toMain).conn \in DOMAIN conns /\ conns[Head(toMain).conn] \in Connections
<1>1. Head(toMain) \in MainEvents(Len(conns)) /\ Tail(toMain) \in Seq(MainEvents(Len(conns)))
  BY Queues DEF Typed, QueuesOK
<1>2. Head(toMain).kind \in {"error", "created", "establish"} => Head(toMain).to \in Descriptors
  BY <1>1 DEF MainEvents
<1>3. Head(toMain).kind \in {"created", "closed"} => Head(toMain).conn \in 1 .. Len(conns)
  BY <1>1 DEF MainEvents
<1>4. DOMAIN conns = 1 .. Len(conns) /\ \A c \in 1 .. Len(conns) : conns[c] \in Connections
  BY LenProperties, ElementOfSeq DEF Typed, TypeOK
<1> QED BY <1>1, <1>2, <1>3, <1>4, DescriptorAssumption

LEMMA FirstToConnector ==
  ASSUME Typed, toConnector # <<>>
  PROVE  /\ Head(toConnector) \in ConnectorEvents(Len(conns))
         /\ Tail(toConnector) \in Seq(ConnectorEvents(Len(conns)))
         /\ Head(toConnector).kind = "connect" =>
              /\ Head(toConnector).to \in Descriptors /\ Head(toConnector).to.dev \in Devices
              /\ Head(toConnector).psk \in BOOLEAN
         /\ Head(toConnector).kind = "close" =>
              /\ Head(toConnector).conn \in DOMAIN conns
              /\ conns[Head(toConnector).conn] \in Connections
<1>1. /\ Head(toConnector) \in ConnectorEvents(Len(conns))
      /\ Tail(toConnector) \in Seq(ConnectorEvents(Len(conns)))
  BY Queues DEF Typed, QueuesOK
<1>2. Head(toConnector).kind = "connect" =>
        Head(toConnector).to \in Descriptors /\ Head(toConnector).psk \in BOOLEAN
  BY <1>1 DEF ConnectorEvents
<1>3. Head(toConnector).kind = "close" => Head(toConnector).conn \in 1 .. Len(conns)
  BY <1>1 DEF ConnectorEvents
<1>4. DOMAIN conns = 1 .. Len(conns) /\ \A c \in 1 .. Len(conns) : conns[c] \in Connections
  BY LenProperties, ElementOfSeq DEF Typed, TypeOK
<1> QED BY <1>1, <1>2, <1>3, <1>4, DescriptorAssumption

LEMMA FirstToPlugIn ==
  ASSUME Typed, toPlugIn # <<>>
  PROVE  /\ Head(toPlugIn) \in PlugInEvents(Len(conns))
         /\ Tail(toPlugIn) \in Seq(PlugInEvents(Len(conns)))
         /\ Head(toPlugIn).kind = "devices" => Head(toPlugIn).devs \subseteq Descriptors
         /\ Head(toPlugIn).kind \in {"new", "context", "closed"} =>
              /\ Head(toPlugIn).conn \in DOMAIN conns
              /\ conns[Head(toPlugIn).conn] \in Connections
              /\ conns[Head(toPlugIn).conn].dev \in Devices
<1>1. Head(toPlugIn) \in PlugInEvents(Len(conns)) /\ Tail(toPlugIn) \in Seq(PlugInEvents(Len(conns)))
  BY Queues DEF Typed, QueuesOK
<1>2. Head(toPlugIn).kind = "devices" => Head(toPlugIn).devs \subseteq Descriptors
  BY <1>1 DEF PlugInEvents
<1>3. Head(toPlugIn).kind \in {"new", "context", "closed"} => Head(toPlugIn).conn \in 1 .. Len(conns)
  BY <1>1 DEF PlugInEvents
<1>4. DOMAIN conns = 1 .. Len(conns)
      /\ \A c \in 1 .. Len(conns) : conns[c] \in Connections /\ conns[c].dev \in Devices
  <2>1. \A c \in 1 .. Len(conns) : conns[c] \in Connections
    BY ElementOfSeq DEF Typed, TypeOK
  <2> QED BY <2>1, LenProperties DEF Typed, TypeOK, Connections
<1> QED BY <1>1, <1>2, <1>3, <1>4

-----------------------------------------------------------------------------
(* The connections: a flag that changes leaves a sequence of as many.      *)

LEMMA ConnectionFlags ==
  ASSUME Typed, NEW c \in DOMAIN conns
  PROVE  /\ [conns EXCEPT ![c].open = FALSE] \in Seq(Connections)
         /\ Len([conns EXCEPT ![c].open = FALSE]) = Len(conns)
         /\ [conns EXCEPT ![c].main = TRUE] \in Seq(Connections)
         /\ Len([conns EXCEPT ![c].main = TRUE]) = Len(conns)
         /\ [conns EXCEPT ![c].asked = FALSE] \in Seq(Connections)
         /\ Len([conns EXCEPT ![c].asked = FALSE]) = Len(conns)
<1>1. conns \in Seq(Connections) /\ c \in 1 .. Len(conns) /\ conns[c] \in Connections
  BY LenProperties, ElementOfSeq DEF Typed, TypeOK
<1>2. /\ [conns[c] EXCEPT !.open = FALSE] \in Connections
      /\ [conns[c] EXCEPT !.main = TRUE] \in Connections
      /\ [conns[c] EXCEPT !.asked = FALSE] \in Connections
  BY <1>1 DEF Connections
<1> QED BY <1>1, <1>2, ExceptSeq

LEMMA ManyFlags ==
  ASSUME Typed, NEW f, f = [i \in DOMAIN conns |-> f[i]], \A i \in DOMAIN conns : f[i] \in Connections
  PROVE  f \in Seq(Connections) /\ Len(f) = Len(conns)
<1>1. DOMAIN conns = 1 .. Len(conns) /\ Len(conns) \in Nat
  BY LenProperties DEF Typed, TypeOK
<1>2. f \in [1 .. Len(conns) -> Connections]
  BY <1>1
<1> QED BY <1>1, <1>2

LEMMA Flagged ==
  ASSUME Typed, NEW i \in DOMAIN conns
  PROVE  /\ conns[i] \in Connections
         /\ [conns[i] EXCEPT !.plugIn = TRUE, !.asked = TRUE] \in Connections
         /\ [conns[i] EXCEPT !.dropped = TRUE] \in Connections
         /\ [conns[i] EXCEPT !.plugIn = FALSE, !.dropped = TRUE] \in Connections
<1>1. conns[i] \in Connections
  BY LenProperties, ElementOfSeq DEF Typed, TypeOK
<1> QED BY <1>1 DEF Connections

-----------------------------------------------------------------------------
(* Each thread's step keeps the types.                                     *)

LEMMA Taken ==
  ASSUME Typed, NEW d \in Devices, Take(d)
  PROVE  pending' \in [Devices -> Nat] /\ dialog' \in BOOLEAN
<1>1. pending \in [Devices -> Nat]
  BY DEF Typed, TypeOK
<1>2. pending[d] - 1 \in Nat
  BY <1>1 DEF Take
<1>3. pending' = [pending EXCEPT ![d] = pending[d] - 1] /\ dialog' = FALSE
  BY DEF Take
<1> QED BY <1>1, <1>2, <1>3

LEMMA MainKeepsTypes ==
  ASSUME Typed, MainThread
  PROVE  Typed'
<1> DEFINE n == Len(conns)
<1>0. n \in Nat /\ toMain \in Seq(MainEvents(n)) /\ toConnector \in Seq(ConnectorEvents(n))
      /\ toPlugIn \in Seq(PlugInEvents(n))
  BY LenProperties DEF Typed, TypeOK, QueuesOK
<1>a. ASSUME toMain # <<>> PROVE toMain # <<>> /\ Tail(toMain) \in Seq(MainEvents(n))
  BY <1>a, FirstToMain
<1>1. CASE OnRemoteDispatcherCreated
  <2> DEFINE d == Head(toMain).to.dev
             c == Head(toMain).conn
  <2>1. toMain # <<>> /\ Head(toMain).kind = "created" /\ toMain' = Tail(toMain)
    BY <1>1 DEF OnRemoteDispatcherCreated, Received
  <2>2. d \in Devices /\ c \in DOMAIN conns /\ c \in 1 .. n
    BY <2>1, FirstToMain, LenProperties DEF Typed, TypeOK
  <2>3. conns' \in Seq(Connections) /\ Len(conns') = n
    BY <1>1, <2>2, ConnectionFlags DEF OnRemoteDispatcherCreated
  <2>4. [kind |-> "new", conn |-> c] \in PlugInEvents(n)
    BY <2>2 DEF PlugInEvents
  <2>5. QueuesOK'
    BY <1>0, <1>1, <1>a, <2>1, <2>3, <2>4, Queues DEF OnRemoteDispatcherCreated, QueuesOK
  <2>6. /\ pending' \in [Devices -> Nat] /\ errors' \in [Devices -> 0 .. MaxRefusals - 1]
        /\ connected' \in [Devices -> Nat] /\ dialog' \in BOOLEAN
    <3>1. /\ Take(d) /\ errors' = [errors EXCEPT ![d] = 0]
          /\ connected' = [connected EXCEPT ![d] = @ + 1]
      BY <1>1 DEF OnRemoteDispatcherCreated
    <3> HIDE DEF d
    <3>2. pending' \in [Devices -> Nat] /\ dialog' \in BOOLEAN
      BY <2>2, <3>1, Taken
    <3>3. errors' \in [Devices -> 0 .. MaxRefusals - 1]
      BY <2>2, <3>1, RefusalAssumption DEF Typed, TypeOK
    <3>4. connected' \in [Devices -> Nat]
      BY <2>2, <3>1 DEF Typed, TypeOK
    <3> QED BY <3>2, <3>3, <3>4
  <2> QED BY <1>1, <2>3, <2>5, <2>6 DEF OnRemoteDispatcherCreated, plugInVars, Typed, TypeOK
<1>2. CASE OnRemoteDispatcherError
  <2> DEFINE d == Head(toMain).to.dev
  <2>1. toMain # <<>> /\ Head(toMain).kind = "error" /\ toMain' = Tail(toMain)
    BY <1>2 DEF OnRemoteDispatcherError, Received
  <2>2. d \in Devices
    BY <2>1, FirstToMain
  <2>3. QueuesOK'
    BY <1>0, <1>2, <1>a, <2>1 DEF OnRemoteDispatcherError, QueuesOK
  <2>a. /\ Take(d)
        /\ (errors' = [errors EXCEPT ![d] = 0] /\ UNCHANGED trust) \/ Refused(d)
    BY <1>2 DEF OnRemoteDispatcherError
  <2>4. pending' \in [Devices -> Nat] /\ dialog' \in BOOLEAN
    BY <2>2, <2>a, Taken
  <2>5. /\ errors' \in [Devices -> 0 .. MaxRefusals - 1]
        /\ trust' \in [Devices -> {"none", "new", "named"}]
    <3> HIDE DEF d
    <3>1. CASE errors' = [errors EXCEPT ![d] = 0]
      BY <2>2, <2>a, <3>1, RefusalAssumption DEF Refused, Typed, TypeOK
    <3>2. CASE errors[d] + 1 < MaxRefusals /\ errors' = [errors EXCEPT ![d] = @ + 1] /\ UNCHANGED trust
      BY <2>2, <3>2, RefusalAssumption DEF Typed, TypeOK
    <3>3. errors[d] \in Nat /\ MaxRefusals \in Nat
      BY <2>2, RefusalAssumption DEF Typed, TypeOK
    <3> QED BY <2>a, <3>1, <3>2, <3>3 DEF Refused
  <2> QED BY <1>2, <2>3, <2>4, <2>5 DEF OnRemoteDispatcherError, plugInVars, Typed, TypeOK
<1>3. CASE OnDispatcherDestroyed
  <2>1. toMain # <<>> /\ toMain' = Tail(toMain)
    BY <1>3 DEF OnDispatcherDestroyed, Received
  <2>2. QueuesOK'
    BY <1>0, <1>3, <1>a, <2>1 DEF OnDispatcherDestroyed, QueuesOK
  <2>3. connected' \in [Devices -> Nat]
    BY <1>3 DEF OnDispatcherDestroyed, Typed, TypeOK
  <2> QED BY <1>3, <2>2, <2>3 DEF OnDispatcherDestroyed, plugInVars, Typed, TypeOK
<1>4. CASE OnEstablish
  <2>1. toMain # <<>> /\ Head(toMain).kind = "establish" /\ toMain' = Tail(toMain)
    BY <1>4 DEF OnEstablish, Received
  <2>2. Head(toMain).to \in Descriptors /\ Head(toMain).to.dev \in Devices
    BY <2>1, FirstToMain
  <2>3. [kind |-> "connect", to |-> Head(toMain).to, psk |-> FALSE] \in ConnectorEvents(n)
    BY <2>2 DEF ConnectorEvents
  <2>4. QueuesOK'
    BY <1>0, <1>4, <1>a, <2>1, <2>3, Queues DEF OnEstablish, EstablishConnection, QueuesOK
  <2>5. pending' \in [Devices -> Nat]
    BY <1>4, <2>2 DEF OnEstablish, EstablishConnection, Typed, TypeOK
  <2> QED BY <1>4, <2>4, <2>5 DEF OnEstablish, plugInVars, Typed, TypeOK
<1>5. CASE RequestRemoteDevices
  <2>1. toMain # <<>> /\ toMain' = Tail(toMain)
    BY <1>5 DEF RequestRemoteDevices, Received
  <2>2. [kind |-> "devices", devs |-> announced] \in PlugInEvents(n)
    BY DEF PlugInEvents, Typed, TypeOK
  <2>3. QueuesOK'
    BY <1>0, <1>5, <1>a, <2>1, <2>2, Queues DEF RequestRemoteDevices, QueuesOK
  <2> QED BY <1>5, <2>3 DEF RequestRemoteDevices, mainVars, plugInVars, Typed, TypeOK
<1>6. ASSUME NEW kind, OnDetection(kind) PROVE Typed'
  <2>1. toMain # <<>> /\ toMain' = Tail(toMain)
    BY <1>6 DEF OnDetection, Received
  <2>2. QueuesOK'
    BY <1>0, <1>6, <1>a, <2>1 DEF OnDetection, QueuesOK
  <2>3. detecting' \in BOOLEAN /\ announced' \subseteq Descriptors
    BY <1>6 DEF OnDetection, SetDetection, Typed, TypeOK
  <2> QED BY <1>6, <2>2, <2>3 DEF OnDetection, plugInVars, Typed, TypeOK
<1> QED BY <1>1, <1>2, <1>3, <1>4, <1>5, <1>6 DEF MainThread

LEMMA WorldKeepsTypes ==
  ASSUME Typed, World
  PROVE  Typed'
<1> DEFINE n == Len(conns)
<1>0. n \in Nat /\ toMain \in Seq(MainEvents(n)) /\ toConnector \in Seq(ConnectorEvents(n))
      /\ toPlugIn \in Seq(PlugInEvents(n))
  BY LenProperties DEF Typed, TypeOK, QueuesOK
<1>1. ASSUME NEW e \in Descriptors, OnNewMessage(e) PROVE Typed'
  <2>1. [kind |-> "appeared"] \in PlugInEvents(n)
    BY DEF PlugInEvents
  <2>2. QueuesOK'
    BY <1>0, <1>1, <2>1, Queues DEF OnNewMessage, UnchangedByDevices, QueuesOK
  <2> QED BY <1>1, <2>2 DEF OnNewMessage, UnchangedByDevices, plugInVars, Typed, TypeOK
<1>2. ASSUME NEW e \in Descriptors, OnProcessUnresponsiveRemoteReaders(e) PROVE Typed'
  BY <1>2 DEF OnProcessUnresponsiveRemoteReaders, UnchangedByDevices, plugInVars, Typed, TypeOK, QueuesOK
<1>3. CASE SetDetectRemoteDevices
  BY <1>3 DEF SetDetectRemoteDevices, SetDetection, UnchangedByDevices, plugInVars, Typed, TypeOK, QueuesOK
<1>4. CASE ConnectToRememberedServer
  <2>1. PICK e \in remembered : EstablishConnection(e, TRUE)
    BY <1>4 DEF ConnectToRememberedServer
  <2>2. e \in Descriptors /\ e.dev \in Devices
    BY DescriptorAssumption DEF Typed, TypeOK
  <2>3. [kind |-> "connect", to |-> e, psk |-> TRUE] \in ConnectorEvents(n)
    BY <2>2 DEF ConnectorEvents
  <2>4. QueuesOK'
    BY <1>0, <1>4, <2>1, <2>3, Queues DEF ConnectToRememberedServer, EstablishConnection, QueuesOK
  <2>5. pending' \in [Devices -> Nat]
    BY <2>1, <2>2 DEF EstablishConnection, Typed, TypeOK
  <2> QED BY <1>4, <2>4, <2>5 DEF ConnectToRememberedServer, plugInVars, Typed, TypeOK
<1>5. ASSUME NEW d \in Devices, ForgetDevice(d) PROVE Typed'
  BY <1>5 DEF ForgetDevice, mainVars, plugInVars, Typed, TypeOK, QueuesOK
<1> QED BY <1>1, <1>2, <1>3, <1>4, <1>5, Zenon DEF World

(* What the plug-in posts for its devices and its dispatchers.             *)
LEMMA Calls ==
  ASSUME Typed, NEW W, W \subseteq Descriptors
  PROVE  SetToSeq({[kind |-> "establish", to |-> e] : e \in W}) \in Seq([kind : {"establish"}, to : W])
<1> DEFINE S == {[kind |-> "establish", to |-> e] : e \in W}
           f == [e \in W |-> [kind |-> "establish", to |-> e]]
<1>1. IsFiniteSet(W)
  BY FiniteAssumption, FS_Subset
<1>2. f \in Surjection(W, S)
  BY DEF Surjection
<1>3. IsFiniteSet(S)
  BY <1>1, <1>2, FS_Surjection
<1>4. SetToSeq(S) \in Seq(S)
  BY <1>3, Listed
<1>5. S \subseteq [kind : {"establish"}, to : W]
  OBVIOUS
<1> QED BY <1>4, <1>5, SeqMonotonic

LEMMA Farewells ==
  ASSUME Typed, RemoveAllDispatchers
  PROVE  /\ toConnector' \in Seq(ConnectorEvents(Len(conns)))
         /\ \E p \in Seq([kind : {"close"}, conn : 1 .. Len(conns)]) : toConnector' = toConnector \o p
<1> DEFINE D == {x \in Devices : listed[x] # 0}
           S == {[kind |-> "close", conn |-> listed[d]] : d \in D}
           f == [d \in D |-> [kind |-> "close", conn |-> listed[d]]]
           C == [kind : {"close"}, conn : 1 .. Len(conns)]
<1>1. IsFiniteSet(D)
  BY FiniteAssumption, FS_Subset
<1>2. f \in Surjection(D, S)
  BY DEF Surjection
<1>3. IsFiniteSet(S)
  BY <1>1, <1>2, FS_Surjection
<1>4. SetToSeq(S) \in Seq(S)
  BY <1>3, Listed
<1>5. \A d \in D : listed[d] \in 1 .. Len(conns)
  BY LenProperties DEF Typed, TypeOK
<1>6. S \subseteq C
  BY <1>5
<1>7. SetToSeq(S) \in Seq(C)
  BY <1>4, <1>6, SeqMonotonic
<1>8. C \subseteq ConnectorEvents(Len(conns))
  BY DEF ConnectorEvents
<1>9. SetToSeq(S) \in Seq(ConnectorEvents(Len(conns)))
  BY <1>7, <1>8, SeqMonotonic
<1>10. toConnector' = toConnector \o SetToSeq(S)
  BY DEF RemoveAllDispatchers
<1>11. toConnector \o SetToSeq(S) \in Seq(ConnectorEvents(Len(conns)))
  BY <1>9, ConcatProperties DEF Typed, QueuesOK
<1> QED BY <1>7, <1>10, <1>11

LEMMA PairedTypes ==
  ASSUME Typed, NEW before, before \in Seq([kind : {"startDetection"}]), ConnectToPairedReaders(before)
  PROVE  /\ toMain' \in Seq(MainEvents(Len(conns))) /\ checking' \in BOOLEAN
         /\ \E p \in Seq([kind : {"requestDevices", "startDetection"}]) : toMain' = toMain \o p
<1> DEFINE K == [kind : {"requestDevices", "startDetection"}]
           r == [kind |-> "requestDevices"]
<1>1. before \in Seq(K)
  BY SeqMonotonic
<1>2. Append(before, r) \in Seq(K)
  BY <1>1, AppendProperties
<1>3. K \subseteq MainEvents(Len(conns))
  BY DEF MainEvents
<1>4. \E p \in Seq(K) : toMain' = toMain \o p
  BY <1>1, <1>2 DEF ConnectToPairedReaders
<1>5. PICK p \in Seq(K) : toMain' = toMain \o p
  BY <1>4
<1>6. p \in Seq(MainEvents(Len(conns)))
  BY <1>3, SeqMonotonic
<1>7. toMain' \in Seq(MainEvents(Len(conns)))
  BY <1>5, <1>6, ConcatProperties DEF Typed, QueuesOK
<1>8. checking' \in BOOLEAN
  BY DEF ConnectToPairedReaders, Typed, TypeOK
<1> QED BY <1>4, <1>7, <1>8

LEMMA ScanKeepsTypes ==
  ASSUME Typed, Scan
  PROVE  Typed'
<1> DEFINE n == Len(conns)
<1>0. n \in Nat /\ toMain \in Seq(MainEvents(n)) /\ toConnector \in Seq(ConnectorEvents(n))
      /\ toPlugIn \in Seq(PlugInEvents(n))
  BY LenProperties DEF Typed, TypeOK, QueuesOK
<1>1. <<>> \in Seq([kind : {"startDetection"}]) /\ <<[kind |-> "startDetection"]>> \in Seq([kind : {"startDetection"}])
  OBVIOUS
<1>2. CASE ScanTimeout
  <2>1. toMain' \in Seq(MainEvents(n)) /\ checking' \in BOOLEAN
    BY <1>1, <1>2, PairedTypes DEF ScanTimeout
  <2> QED BY <1>2, <2>1 DEF ScanTimeout, UnchangedByPlugIn, mainVars, Typed, TypeOK, QueuesOK
<1>3. ASSUME NEW auto \in BOOLEAN, StartScan(auto) PROVE Typed'
  <2>1. toMain' \in Seq(MainEvents(n)) /\ checking' \in BOOLEAN
    BY <1>1, <1>3, PairedTypes DEF StartScan
  <2>2. toConnector' \in Seq(ConnectorEvents(n))
    BY <1>0, <1>3, Farewells DEF StartScan
  <2> QED BY <1>3, <2>1, <2>2 DEF StartScan, UnchangedByPlugIn, mainVars, Typed, TypeOK, QueuesOK
<1>4. CASE StopScan
  <2>1. [kind |-> "stopDetection"] \in MainEvents(n)
    BY DEF MainEvents
  <2>2. toMain' \in Seq(MainEvents(n))
    BY <1>0, <1>4, <2>1, Queues DEF StopScan
  <2>3. toConnector' \in Seq(ConnectorEvents(n))
    BY <1>4, Farewells DEF StopScan
  <2> QED BY <1>4, <2>2, <2>3 DEF StopScan, UnchangedByPlugIn, mainVars, Typed, TypeOK, QueuesOK
<1> QED BY <1>2, <1>3, <1>4 DEF Scan

LEMMA PlugInKeepsTypes ==
  ASSUME Typed, PlugIn
  PROVE  Typed'
<1> DEFINE n == Len(conns)
<1>0. n \in Nat /\ toMain \in Seq(MainEvents(n)) /\ toConnector \in Seq(ConnectorEvents(n))
      /\ toPlugIn \in Seq(PlugInEvents(n)) /\ DOMAIN conns = 1 .. n
      /\ (toPlugIn # <<>> => Tail(toPlugIn) \in Seq(PlugInEvents(n)))
  BY LenProperties, FirstToPlugIn DEF Typed, TypeOK, QueuesOK
<1>1. CASE OnDeviceAppeared
  <2>1. toPlugIn # <<>> /\ toPlugIn' = Tail(toPlugIn)
    BY <1>1 DEF OnDeviceAppeared, Hears
  <2>2. <<>> \in Seq([kind : {"startDetection"}])
    OBVIOUS
  <2>3. toMain' \in Seq(MainEvents(n)) /\ checking' \in BOOLEAN
    BY <1>1, <2>2, PairedTypes DEF OnDeviceAppeared
  <2>4. toPlugIn' \in Seq(PlugInEvents(n))
    BY <1>0, <2>1
  <2> QED BY <1>1, <2>3, <2>4 DEF OnDeviceAppeared, UnchangedByPlugIn, mainVars, Typed, TypeOK, QueuesOK
<1>2. CASE ContinueConnectToPairedReaders
  <2> DEFINE wanted == {e \in Head(toPlugIn).devs : /\ e.dev \notin Unsupported
                                                    /\ listed[e.dev] = 0
                                                    /\ trust[e.dev] # "none"}
             calls == {[kind |-> "establish", to |-> e] : e \in wanted}
  <2>1. toPlugIn # <<>> /\ Head(toPlugIn).kind = "devices" /\ toPlugIn' = Tail(toPlugIn)
    BY <1>2 DEF ContinueConnectToPairedReaders, Hears
  <2>2. wanted \subseteq Descriptors
    BY <2>1, FirstToPlugIn
  <2>3. SetToSeq(calls) \in Seq([kind : {"establish"}, to : wanted])
    BY <2>2, Calls
  <2>4. [kind : {"establish"}, to : wanted] \subseteq MainEvents(n)
    BY <2>2 DEF MainEvents
  <2>5. SetToSeq(calls) \in Seq(MainEvents(n))
    BY <2>3, <2>4, SeqMonotonic
  <2>6. toMain' \in Seq(MainEvents(n))
    BY <1>0, <1>2, <2>5, ConcatProperties DEF ContinueConnectToPairedReaders
  <2>7. toPlugIn' \in Seq(PlugInEvents(n))
    BY <1>0, <2>1
  <2> HIDE DEF wanted, calls
  <2> QED BY <1>2, <2>6, <2>7 DEF ContinueConnectToPairedReaders, UnchangedByPlugIn, mainVars, Typed, TypeOK, QueuesOK
<1>3. CASE AddRemoteDispatcher
  <2> DEFINE c == Head(toPlugIn).conn
             d == conns[c].dev
  <2>1. toPlugIn # <<>> /\ Head(toPlugIn).kind = "new" /\ toPlugIn' = Tail(toPlugIn)
    BY <1>3 DEF AddRemoteDispatcher, Hears
  <2>2. d \in Devices /\ c \in 1 .. n
    BY <1>0, <2>1, FirstToPlugIn
  <2>3. conns' \in Seq(Connections) /\ Len(conns') = n
    <3>1. conns' = [i \in DOMAIN conns |->
                    IF i = c THEN [conns[i] EXCEPT !.plugIn = TRUE, !.asked = TRUE]
                    ELSE IF i = listed[d] THEN [conns[i] EXCEPT !.dropped = TRUE] ELSE conns[i]]
      BY <1>3 DEF AddRemoteDispatcher
    <3> HIDE DEF c, d
    <3>2. \A i \in DOMAIN conns : conns'[i] \in Connections
      BY <3>1, Flagged
    <3>3. conns' = [i \in DOMAIN conns |-> conns'[i]]
      BY <3>1
    <3> QED BY <3>2, <3>3, ManyFlags
  <2>4. listed' = [listed EXCEPT ![d] = c]
    BY <1>3 DEF AddRemoteDispatcher
  <2>5. listed' \in [Devices -> 0 .. n]
    <3> HIDE DEF c, d
    <3> QED BY <1>0, <2>2, <2>4 DEF Typed, TypeOK
  <2>6. toPlugIn' \in Seq(PlugInEvents(n))
    BY <1>0, <2>1
  <2> QED BY <1>3, <2>3, <2>5, <2>6 DEF AddRemoteDispatcher, UnchangedByPlugIn, mainVars, Typed, TypeOK, QueuesOK
<1>4. CASE OnContextEstablished
  <2> DEFINE d == conns[Head(toPlugIn).conn].dev
  <2>1. toPlugIn # <<>> /\ Head(toPlugIn).kind = "context" /\ toPlugIn' = Tail(toPlugIn)
    BY <1>4 DEF OnContextEstablished, Hears
  <2>2. d \in Devices
    BY <2>1, FirstToPlugIn
  <2>3. /\ trust' = IF trust[d] = "new" THEN [trust EXCEPT ![d] = "named"] ELSE trust
        /\ toConnector' = IF trust[d] # "named" /\ listed[d] # 0
                          THEN Append(toConnector, [kind |-> "close", conn |-> listed[d]])
                          ELSE toConnector
    BY <1>4 DEF OnContextEstablished
  <2> HIDE DEF d
  <2>4. trust' \in [Devices -> {"none", "new", "named"}]
    BY <2>2, <2>3 DEF Typed, TypeOK
  <2>5. listed[d] # 0 => [kind |-> "close", conn |-> listed[d]] \in ConnectorEvents(n)
    BY <1>0, <2>2 DEF ConnectorEvents, Typed, TypeOK
  <2>6. toConnector' \in Seq(ConnectorEvents(n))
    BY <1>0, <2>3, <2>5, Queues
  <2>7. toPlugIn' \in Seq(PlugInEvents(n))
    BY <1>0, <2>1
  <2> QED BY <1>4, <2>4, <2>6, <2>7 DEF OnContextEstablished, UnchangedByPlugIn, mainVars, plugInVars, Typed, TypeOK, QueuesOK
<1>5. CASE OnDispatcherClosed
  <2> DEFINE d == conns[Head(toPlugIn).conn].dev
  <2>1. toPlugIn # <<>> /\ Head(toPlugIn).kind = "closed" /\ toPlugIn' = Tail(toPlugIn)
    BY <1>5 DEF OnDispatcherClosed, Hears
  <2>2. d \in Devices
    BY <2>1, FirstToPlugIn
  <2>3. /\ listed' = [listed EXCEPT ![d] = 0]
        /\ conns' = [i \in DOMAIN conns |->
                       IF i = listed[d] THEN [conns[i] EXCEPT !.plugIn = FALSE, !.dropped = TRUE]
                       ELSE conns[i]]
    BY <1>5 DEF OnDispatcherClosed
  <2> HIDE DEF d
  <2>4. conns' \in Seq(Connections) /\ Len(conns') = n
    <3>1. \A i \in DOMAIN conns : conns'[i] \in Connections
      BY <2>3, Flagged
    <3>2. conns' = [i \in DOMAIN conns |-> conns'[i]]
      BY <2>3
    <3> QED BY <3>1, <3>2, ManyFlags
  <2>5. listed' \in [Devices -> 0 .. n]
    <3>1. listed \in [Devices -> 0 .. n] /\ 0 \in 0 .. n
      BY <1>0 DEF Typed, TypeOK
    <3> QED BY <2>3, <3>1
  <2>6. toPlugIn' \in Seq(PlugInEvents(n))
    BY <1>0, <2>1
  <2> QED BY <1>5, <2>4, <2>5, <2>6 DEF OnDispatcherClosed, UnchangedByPlugIn, mainVars, Typed, TypeOK, QueuesOK
<1> QED BY <1>1, <1>2, <1>3, <1>4, <1>5 DEF PlugIn

LEMMA ConnectorKeepsTypes ==
  ASSUME Typed, UnchangedByConnector,
         \/ OnConnectRequest \/ CloseDispatcher \/ Answers \/ DeleteLater \/ DeleteDispatcher
         \/ SocketCloses \/ EstablishContext
  PROVE  Typed'
<1> DEFINE n == Len(conns)
<1>0. n \in Nat /\ toMain \in Seq(MainEvents(n)) /\ toConnector \in Seq(ConnectorEvents(n))
      /\ toPlugIn \in Seq(PlugInEvents(n)) /\ DOMAIN conns = 1 .. n
      /\ (toConnector # <<>> => Tail(toConnector) \in Seq(ConnectorEvents(n)))
  BY LenProperties, FirstToConnector DEF Typed, TypeOK, QueuesOK
<1>a. ASSUME conns' \in Seq(Connections), Len(conns') = n, QueuesOK',
             requests' \in [Requests -> Nat], ghosts' \in [Requests -> Nat],
             trust' \in [Devices -> {"none", "new", "named"}]
      PROVE  Typed'
  BY <1>a DEF UnchangedByConnector, mainVars, plugInVars, Typed, TypeOK
<1>b. \A r \in Requests : r.to \in Descriptors /\ r.to.dev \in Devices
  BY DescriptorAssumption DEF Requests
<1>c. ASSUME NEW r \in Requests, Alive(r) > 0, RemoveRequest(r)
      PROVE  requests' \in [Requests -> Nat] /\ ghosts' \in [Requests -> Nat]
  <2>1. \A q \in Requests : requests[q] \in Nat /\ ghosts[q] \in Nat /\ Alive(q) \in Nat
    BY DEF Alive, Typed, TypeOK
  <2>2. Alive(r) - 1 \in Nat
    BY <1>c, <2>1
  <2> QED BY <1>c, <2>1, <2>2 DEF RemoveRequest
<1>d. ASSUME NEW c \in DOMAIN conns, Disconnected(c)
      PROVE  /\ conns' \in Seq(Connections) /\ Len(conns') = n
             /\ toMain' \in Seq(MainEvents(n)) /\ toPlugIn' \in Seq(PlugInEvents(n))
  <2>1. Closed(c) \in MainEvents(n) /\ Closed(c) \in PlugInEvents(n)
    BY <1>0 DEF Closed, MainEvents, PlugInEvents
  <2> QED BY <1>0, <1>d, <2>1, Queues, ConnectionFlags DEF Disconnected
<1>1. CASE OnConnectRequest
  <2> DEFINE to == Head(toConnector).to
             d == to.dev
             mode == IF Head(toConnector).psk THEN "pairing"
                     ELSE IF trust[d] = "none" THEN "unknown" ELSE "known"
             r == [to |-> to, mode |-> mode]
  <2>1. /\ toConnector # <<>> /\ Head(toConnector).kind = "connect"
        /\ toConnector' = Tail(toConnector) /\ UNCHANGED <<ghosts, conns, trust, toPlugIn>>
        /\ \/ /\ \E code \in ErrorCodes : toMain' = Append(toMain, Error(to, code))
              /\ UNCHANGED requests
           \/ requests' = [requests EXCEPT ![r] = @ + 1] /\ UNCHANGED toMain
    BY <1>1 DEF OnConnectRequest, ErrorCodes
  <2>2. to \in Descriptors
    BY <2>1, FirstToConnector
  <2>3. \A code \in ErrorCodes : Error(to, code) \in MainEvents(n)
    BY <2>2 DEF Error, MainEvents
  <2>4. r \in Requests
    BY <2>2 DEF Requests
  <2> HIDE DEF to, d, mode, r
  <2>5. requests' \in [Requests -> Nat]
    <3>1. requests \in [Requests -> Nat] /\ requests[r] + 1 \in Nat
      BY <2>4 DEF Typed, TypeOK
    <3> QED BY <2>1, <2>4, <3>1
  <2>6. toMain' \in Seq(MainEvents(n))
    BY <1>0, <2>1, <2>3, Queues
  <2>7. QueuesOK'
    BY <1>0, <2>1, <2>6 DEF QueuesOK
  <2> QED BY <1>a, <2>1, <2>5, <2>7 DEF Typed, TypeOK
<1>2. CASE CloseDispatcher
  <2> DEFINE c == Head(toConnector).conn
  <2>1. /\ toConnector # <<>> /\ Head(toConnector).kind = "close"
        /\ toConnector' = Tail(toConnector) /\ UNCHANGED <<requests, ghosts, trust>>
        /\ Disconnected(c) \/ UNCHANGED <<conns, toMain, toPlugIn>>
    BY <1>2 DEF CloseDispatcher
  <2>2. c \in DOMAIN conns
    BY <2>1, FirstToConnector
  <2>3. /\ conns' \in Seq(Connections) /\ Len(conns') = n
        /\ toMain' \in Seq(MainEvents(n)) /\ toPlugIn' \in Seq(PlugInEvents(n))
    BY <1>0, <1>d, <2>1, <2>2 DEF Typed, TypeOK
  <2>4. QueuesOK'
    BY <1>0, <2>1, <2>3 DEF QueuesOK
  <2> QED BY <1>a, <2>1, <2>3, <2>4 DEF Typed, TypeOK
<1>3. CASE Answers
  <2>1. PICK r \in Requests : OnConnectionCreated(r) \/ OnConnectionError(r)
    BY <1>3 DEF Answers
  <2>2. r.to \in Descriptors /\ r.to.dev \in Devices
    BY <1>b
  <2>3. requests' \in [Requests -> Nat] /\ ghosts' \in [Requests -> Nat]
    BY <1>c, <2>1 DEF OnConnectionCreated, OnConnectionError
  <2>4. CASE OnConnectionError(r)
    <3>1. PICK code \in {"REFUSED", "OTHER"} : toMain' = Append(toMain, Error(r.to, code))
      BY <2>4 DEF OnConnectionError
    <3>2. Error(r.to, code) \in MainEvents(n)
      BY <2>2 DEF Error, ErrorCodes, MainEvents
    <3>3. toMain' \in Seq(MainEvents(n))
      BY <1>0, <3>1, <3>2, Queues
    <3>4. QueuesOK'
      BY <1>0, <2>4, <3>3 DEF OnConnectionError, QueuesOK
    <3> QED BY <1>a, <2>3, <2>4, <3>4 DEF OnConnectionError, Typed, TypeOK
  <2>5. CASE OnConnectionCreated(r)
    <3> DEFINE x == [dev |-> r.to.dev, open |-> TRUE, main |-> FALSE, plugIn |-> FALSE,
                     asked |-> FALSE, dropped |-> FALSE]
    <3>1. conns' = Append(conns, x) /\ toMain' = Append(toMain, Created(r.to, Len(conns')))
      BY <2>5 DEF OnConnectionCreated
    <3>2. x \in Connections
      BY <2>2 DEF Connections
    <3> HIDE DEF x
    <3>3. conns' \in Seq(Connections) /\ Len(conns') = n + 1
      BY <3>1, <3>2, AppendProperties DEF Typed, TypeOK
    <3>4. Created(r.to, n + 1) \in MainEvents(n + 1)
      BY <1>0, <2>2 DEF Created, MainEvents
    <3>5. /\ toMain \in Seq(MainEvents(n + 1)) /\ toConnector \in Seq(ConnectorEvents(n + 1))
          /\ toPlugIn \in Seq(PlugInEvents(n + 1))
      <4>1. n <= n + 1 /\ n + 1 \in Nat
        BY <1>0
      <4> QED BY <1>0, <4>1, MoreConnections
    <3>6. toMain' \in Seq(MainEvents(n + 1))
      BY <3>1, <3>3, <3>4, <3>5, Queues
    <3>7. QueuesOK'
      BY <2>5, <3>3, <3>5, <3>6 DEF OnConnectionCreated, QueuesOK
    <3>8. trust' \in [Devices -> {"none", "new", "named"}]
      BY <2>2, <2>5 DEF OnConnectionCreated, Typed, TypeOK
    <3>9. listed' \in [Devices -> 0 .. Len(conns')]
      <4>1. listed \in [Devices -> 0 .. n] /\ listed' = listed
        BY DEF UnchangedByConnector, plugInVars, Typed, TypeOK
      <4>2. \A i \in 0 .. n : i \in 0 .. n + 1
        BY <1>0
      <4> QED BY <3>3, <4>1, <4>2
    <3> QED BY <2>3, <3>3, <3>7, <3>8, <3>9 DEF UnchangedByConnector, mainVars, plugInVars, Typed, TypeOK
  <2> QED BY <2>1, <2>4, <2>5
<1>4. CASE DeleteLater
  <2>1. ghosts' \in [Requests -> Nat]
    BY <1>4 DEF DeleteLater
  <2>2. QueuesOK'
    BY <1>0, <1>4 DEF DeleteLater, QueuesOK
  <2> QED BY <1>4, <1>a, <2>1, <2>2 DEF DeleteLater, Typed, TypeOK
<1>5. CASE DeleteDispatcher
  <2>1. PICK c \in DOMAIN conns : conns' = [conns EXCEPT ![c].open = FALSE]
    BY <1>5 DEF DeleteDispatcher
  <2>2. conns' \in Seq(Connections) /\ Len(conns') = n
    BY <2>1, ConnectionFlags
  <2>3. QueuesOK'
    BY <1>0, <1>5, <2>2 DEF DeleteDispatcher, QueuesOK
  <2> QED BY <1>5, <1>a, <2>2, <2>3 DEF DeleteDispatcher, Typed, TypeOK
<1>6. CASE SocketCloses
  <2>1. PICK c \in DOMAIN conns : Disconnected(c)
    BY <1>6 DEF SocketCloses
  <2>2. /\ conns' \in Seq(Connections) /\ Len(conns') = n
        /\ toMain' \in Seq(MainEvents(n)) /\ toPlugIn' \in Seq(PlugInEvents(n))
    BY <1>d, <2>1
  <2>3. QueuesOK'
    BY <1>0, <1>6, <2>2 DEF SocketCloses, QueuesOK
  <2> QED BY <1>6, <1>a, <2>2, <2>3 DEF SocketCloses, Typed, TypeOK
<1>7. CASE EstablishContext
  <2>1. PICK c \in DOMAIN conns :
          /\ conns' = [conns EXCEPT ![c].asked = FALSE]
          /\ toPlugIn' = IF conns[c].plugIn
                         THEN Append(toPlugIn, [kind |-> "context", conn |-> c]) ELSE toPlugIn
    BY <1>7 DEF EstablishContext
  <2>2. conns' \in Seq(Connections) /\ Len(conns') = n
    BY <2>1, ConnectionFlags
  <2>3. [kind |-> "context", conn |-> c] \in PlugInEvents(n)
    BY <1>0 DEF PlugInEvents
  <2>4. toPlugIn' \in Seq(PlugInEvents(n))
    BY <1>0, <2>1, <2>3, Queues
  <2>5. QueuesOK'
    BY <1>0, <1>7, <2>2, <2>4 DEF EstablishContext, QueuesOK
  <2> QED BY <1>7, <1>a, <2>2, <2>5 DEF EstablishContext, Typed, TypeOK
<1> QED BY <1>1, <1>2, <1>3, <1>4, <1>5, <1>6, <1>7

LEMMA InitTypes ==
  ASSUME Init
  PROVE  Typed
<1>1. TypeOK
  <2>1. 0 \in 0 .. MaxRefusals - 1
    BY RefusalAssumption
  <2>2. conns \in Seq(Connections) /\ Len(conns) = 0 /\ 0 \in 0 .. Len(conns)
    BY DEF Init, ConnectorInit
  <2>3. /\ errors \in [Devices -> 0 .. MaxRefusals - 1] /\ pending \in [Devices -> Nat]
        /\ connected \in [Devices -> Nat] /\ listed \in [Devices -> 0 .. Len(conns)]
    BY <2>1, <2>2 DEF Init
  <2>4. /\ requests \in [Requests -> Nat] /\ ghosts \in [Requests -> Nat]
        /\ trust \in [Devices -> {"none", "new", "named"}]
    BY DEF Init, ConnectorInit
  <2> QED BY <2>2, <2>3, <2>4 DEF Init, TypeOK
<1>2. QueuesOK
  BY DEF Init, ConnectorInit, QueuesOK
<1> QED BY <1>1, <1>2 DEF Typed

LEMMA KeepsTypes ==
  ASSUME Typed, [Next]_vars
  PROVE  Typed'
<1>1. CASE UNCHANGED vars
  BY <1>1 DEF vars, connectorVars, mainVars, plugInVars, Typed, TypeOK, QueuesOK
<1>2. CASE Input
  BY <1>2, ScanKeepsTypes, WorldKeepsTypes DEF Input
<1>3. CASE ConnectorPosted \/ ConnectorAnswers \/ ConnectorDeletes \/ ConnectorNetwork
  BY <1>3, ConnectorKeepsTypes DEF ConnectorPosted, ConnectorAnswers, ConnectorDeletes, ConnectorNetwork
<1> QED BY <1>1, <1>2, <1>3, MainKeepsTypes, PlugInKeepsTypes DEF Next, Idle

(* Every variable keeps its range: a refusal counter never reaches the     *)
(* number at which the device is forgotten, the plug-in lists connections  *)
(* that were made, and an event names a connection the thread it is posted *)
(* to can look up. Typed adds the events that wait to TypeOK.              *)
THEOREM TypeCorrect == Spec => []TypeOK
<1>1. Spec => []Typed
  BY InitTypes, KeepsTypes, PTL DEF Spec
<1>2. Typed => TypeOK
  BY DEF Typed
<1> QED BY <1>1, <1>2, PTL

-----------------------------------------------------------------------------
(* The account of a device: the requests that were posted and not taken,   *)
(* those that may still answer and the answers that wait are together no   *)
(* more than its entries.                                                  *)

About(e, K, d) == e.kind \in K /\ e.to.dev = d
At(q, K, d) == {i \in DOMAIN q : About(q[i], K, d)}
Count(q, K, d) == Cardinality(At(q, K, d))

Alives(d) == {x \in Requests \X Nat : x[1].to.dev = d /\ x[2] \in 1 .. Alive(x[1])}

Asked == {"connect"}
Answering == {"created", "error"}

Account(d) ==
  /\ IsFiniteSet(Alives(d))
  /\ Count(toConnector, Asked, d) + Cardinality(Alives(d)) + Count(toMain, Answering, d) <= pending[d]

Balanced == \A d \in Devices : Account(d)

LEMMA CountType ==
  ASSUME NEW S, NEW q \in Seq(S), NEW K, NEW d
  PROVE  IsFiniteSet(At(q, K, d)) /\ Count(q, K, d) \in Nat
<1>1. DOMAIN q = 1 .. Len(q) /\ Len(q) \in Nat
  BY LenProperties
<1>2. IsFiniteSet(1 .. Len(q)) /\ At(q, K, d) \subseteq 1 .. Len(q)
  BY <1>1, FS_Interval DEF At
<1> QED BY <1>2, FS_Subset, FS_CardinalityType DEF Count

LEMMA CountEmpty ==
  ASSUME NEW K, NEW d
  PROVE  Count(<<>>, K, d) = 0
<1>1. DOMAIN <<>> = {}
  OBVIOUS
<1>2. At(<<>>, K, d) = {}
  BY <1>1 DEF At
<1> QED BY <1>2, FS_EmptySet DEF Count

LEMMA CountConcat ==
  ASSUME NEW S, NEW q \in Seq(S), NEW p \in Seq(S), NEW K, NEW d,
         \A i \in DOMAIN p : ~About(p[i], K, d)
  PROVE  Count(q \o p, K, d) <= Count(q, K, d)
<1>1. /\ DOMAIN q = 1 .. Len(q) /\ Len(q) \in Nat /\ DOMAIN p = 1 .. Len(p) /\ Len(p) \in Nat
      /\ DOMAIN (q \o p) = 1 .. Len(q) + Len(p)
      /\ \A i \in 1 .. Len(q) + Len(p) : (q \o p)[i] = IF i <= Len(q) THEN q[i] ELSE p[i - Len(q)]
  BY LenProperties, ConcatProperties
<1>2. At(q \o p, K, d) \subseteq At(q, K, d)
  <2> SUFFICES ASSUME NEW i \in DOMAIN (q \o p), About((q \o p)[i], K, d)
               PROVE  i \in DOMAIN q /\ About(q[i], K, d)
    BY DEF At
  <2>1. CASE i <= Len(q)
    BY <1>1, <2>1
  <2>2. CASE ~(i <= Len(q))
    <3>1. i - Len(q) \in DOMAIN p /\ (q \o p)[i] = p[i - Len(q)]
      BY <1>1, <2>2
    <3> QED BY <3>1
  <2> QED BY <2>1, <2>2
<1> QED BY <1>2, CountType, FS_Subset DEF Count

LEMMA CountAppend ==
  ASSUME NEW S, NEW q \in Seq(S), NEW x \in S, NEW K, NEW d
  PROVE  /\ Count(Append(q, x), K, d) <= Count(q, K, d) + 1
         /\ ~About(x, K, d) => Count(Append(q, x), K, d) <= Count(q, K, d)
<1> DEFINE n == Len(q) + 1
<1>1. /\ DOMAIN q = 1 .. Len(q) /\ Len(q) \in Nat /\ DOMAIN Append(q, x) = 1 .. n
      /\ \A i \in 1 .. Len(q) : Append(q, x)[i] = q[i]
      /\ Append(q, x)[n] = x
  BY LenProperties, AppendProperties
<1>2. At(Append(q, x), K, d) \subseteq At(q, K, d) \cup {n}
  BY <1>1 DEF At
<1>3. ~About(x, K, d) => At(Append(q, x), K, d) \subseteq At(q, K, d)
  BY <1>1 DEF At
<1>4. IsFiniteSet(At(q, K, d)) /\ Count(q, K, d) \in Nat
  BY CountType
<1>5. /\ IsFiniteSet(At(q, K, d) \cup {n})
      /\ Cardinality(At(q, K, d) \cup {n}) = IF n \in At(q, K, d) THEN Count(q, K, d) ELSE Count(q, K, d) + 1
  BY <1>4, FS_AddElement DEF Count
<1>6. Cardinality(At(Append(q, x), K, d)) <= Cardinality(At(q, K, d) \cup {n})
  BY <1>2, <1>5, FS_Subset
<1>7. IsFiniteSet(At(Append(q, x), K, d)) /\ Count(Append(q, x), K, d) \in Nat
  BY AppendProperties, CountType
<1>8. Count(Append(q, x), K, d) <= Count(q, K, d) + 1
  BY <1>4, <1>5, <1>6, <1>7 DEF Count
<1>9. ~About(x, K, d) => Count(Append(q, x), K, d) <= Count(q, K, d)
  BY <1>3, <1>4, FS_Subset DEF Count
<1> QED BY <1>8, <1>9

LEMMA CountTail ==
  ASSUME NEW S, NEW q \in Seq(S), q # <<>>, NEW K, NEW d
  PROVE  /\ Count(Tail(q), K, d) <= Count(q, K, d)
         /\ About(Head(q), K, d) => Count(Tail(q), K, d) <= Count(q, K, d) - 1
<1> DEFINE A == At(q, K, d)
           B == At(Tail(q), K, d)
           f == [i \in B |-> i + 1]
<1>1. /\ Tail(q) \in Seq(S) /\ Len(Tail(q)) = Len(q) - 1 /\ Len(q) \in Nat
      /\ DOMAIN q = 1 .. Len(q) /\ DOMAIN Tail(q) = 1 .. Len(q) - 1
      /\ \A i \in 1 .. Len(q) - 1 : Tail(q)[i] = q[i + 1]
  BY HeadTailProperties, LenProperties
<1>2. \A i \in B : i \in Nat \ {0} /\ i + 1 \in A \ {1}
  BY <1>1 DEF At
<1>3. f \in [B -> A \ {1}]
  BY <1>2
<1>4. \A i, j \in B : i + 1 = j + 1 => i = j
  BY <1>2
<1>5. f \in Injection(B, A \ {1})
  BY <1>3, <1>4 DEF Injection, IsInjective
<1>6. IsFiniteSet(A) /\ Cardinality(A) \in Nat
  BY CountType DEF Count
<1>7. /\ IsFiniteSet(A \ {1})
      /\ Cardinality(A \ {1}) = IF 1 \in A THEN Cardinality(A) - 1 ELSE Cardinality(A)
  BY <1>6, FS_RemoveElement
<1>8. Cardinality(B) <= Cardinality(A \ {1})
  BY <1>5, <1>7, FS_Injection
<1>9. Cardinality(B) \in Nat
  BY <1>1, CountType DEF Count
<1>10. About(Head(q), K, d) => 1 \in A
  BY <1>1 DEF At
<1> QED BY <1>6, <1>7, <1>8, <1>9, <1>10 DEF Count

(* A request that is made adds one that may answer, one that answers or is *)
(* deleted takes it away; whoever else goes with it stays until deleted.   *)
LEMMA OneMoreAlive ==
  ASSUME Typed, NEW d \in Devices, IsFiniteSet(Alives(d)), NEW r \in Requests,
         requests' = [requests EXCEPT ![r] = @ + 1], UNCHANGED ghosts
  PROVE  /\ IsFiniteSet(Alives(d)')
         /\ Cardinality(Alives(d)') <= Cardinality(Alives(d)) + 1
         /\ r.to.dev # d => Cardinality(Alives(d)') <= Cardinality(Alives(d))
<1> DEFINE x == <<r, Alive(r) + 1>>
<1>1. \A q \in Requests : requests[q] \in Nat /\ ghosts[q] \in Nat /\ Alive(q) \in Nat
  BY DEF Alive, Typed, TypeOK
<1>2. \A q \in Requests : Alive(q)' = IF q = r THEN Alive(r) + 1 ELSE Alive(q)
  BY <1>1 DEF Alive, Typed, TypeOK
<1>3. Alives(d)' = {y \in Requests \X Nat : y[1].to.dev = d /\ y[2] \in 1 .. Alive(y[1])'}
  BY DEF Alives
<1>4. Alives(d)' \subseteq Alives(d) \cup {x}
  <2> SUFFICES ASSUME NEW q \in Requests, NEW k \in Nat, q.to.dev = d, k \in 1 .. Alive(q)'
               PROVE  <<q, k>> \in Alives(d) \cup {x}
    BY <1>3
  <2>1. CASE k \in 1 .. Alive(q)
    BY <2>1 DEF Alives
  <2>2. CASE k \notin 1 .. Alive(q)
    BY <1>1, <1>2, <2>2
  <2> QED BY <2>1, <2>2
<1>5. r.to.dev # d => Alives(d)' \subseteq Alives(d)
  BY <1>2, <1>3 DEF Alives
<1>6. /\ IsFiniteSet(Alives(d) \cup {x}) /\ Cardinality(Alives(d)) \in Nat
      /\ Cardinality(Alives(d) \cup {x}) <= Cardinality(Alives(d)) + 1
  <2>1. /\ IsFiniteSet(Alives(d) \cup {x})
        /\ Cardinality(Alives(d) \cup {x}) = IF x \in Alives(d) THEN Cardinality(Alives(d))
                                             ELSE Cardinality(Alives(d)) + 1
    BY FS_AddElement
  <2>2. Cardinality(Alives(d)) \in Nat
    BY FS_CardinalityType
  <2> QED BY <2>1, <2>2
<1>7. IsFiniteSet(Alives(d)') /\ Cardinality(Alives(d)') <= Cardinality(Alives(d) \cup {x})
  BY <1>4, <1>6, FS_Subset
<1>8. Cardinality(Alives(d)') \in Nat /\ Cardinality(Alives(d) \cup {x}) \in Nat
  BY <1>6, <1>7, FS_CardinalityType
<1>9. r.to.dev # d => Cardinality(Alives(d)') <= Cardinality(Alives(d))
  BY <1>5, FS_Subset
<1> QED BY <1>6, <1>7, <1>8, <1>9

LEMMA OneLessAlive ==
  ASSUME Typed, NEW d \in Devices, IsFiniteSet(Alives(d)), NEW r \in Requests,
         Alive(r) > 0, RemoveRequest(r)
  PROVE  /\ IsFiniteSet(Alives(d)')
         /\ Cardinality(Alives(d)') <= Cardinality(Alives(d))
         /\ r.to.dev = d => Cardinality(Alives(d)') <= Cardinality(Alives(d)) - 1
<1> DEFINE x == <<r, Alive(r)>>
<1>1. \A q \in Requests : requests[q] \in Nat /\ ghosts[q] \in Nat /\ Alive(q) \in Nat
  BY DEF Alive, Typed, TypeOK
<1>2. \A q \in Requests : Alive(q)' = IF q = r THEN Alive(r) - 1 ELSE Alive(q)
  <2>1. \A q \in Requests :
          /\ requests'[q] = IF q.to = r.to THEN 0 ELSE requests[q]
          /\ ghosts'[q] = IF q.to # r.to THEN ghosts[q] ELSE IF q = r THEN Alive(q) - 1 ELSE Alive(q)
    BY DEF RemoveRequest
  <2> QED BY <1>1, <2>1 DEF Alive
<1>3. Alives(d)' = {y \in Requests \X Nat : y[1].to.dev = d /\ y[2] \in 1 .. Alive(y[1])'}
  BY DEF Alives
<1>4. Alives(d)' \subseteq Alives(d) \ {x}
  <2> SUFFICES ASSUME NEW q \in Requests, NEW k \in Nat, q.to.dev = d, k \in 1 .. Alive(q)'
               PROVE  k \in 1 .. Alive(q) /\ <<q, k>> # x
    BY <1>3 DEF Alives
  <2> QED BY <1>1, <1>2
<1>5. /\ IsFiniteSet(Alives(d) \ {x}) /\ Cardinality(Alives(d)) \in Nat
      /\ Cardinality(Alives(d) \ {x}) = IF x \in Alives(d) THEN Cardinality(Alives(d)) - 1
                                        ELSE Cardinality(Alives(d))
  BY FS_RemoveElement, FS_CardinalityType
<1>6. IsFiniteSet(Alives(d)') /\ Cardinality(Alives(d)') <= Cardinality(Alives(d) \ {x})
  BY <1>4, <1>5, FS_Subset
<1>7. Cardinality(Alives(d)') \in Nat
  BY <1>6, FS_CardinalityType
<1>8. r.to.dev = d => x \in Alives(d)
  BY <1>1 DEF Alives
<1> QED BY <1>5, <1>6, <1>7, <1>8

LEMMA SomeLessAlive ==
  ASSUME Typed, NEW d \in Devices, IsFiniteSet(Alives(d)), DeleteLater
  PROVE  IsFiniteSet(Alives(d)') /\ Cardinality(Alives(d)') <= Cardinality(Alives(d))
<1>1. \A q \in Requests : Alive(q) \in Nat /\ Alive(q)' \in Nat /\ Alive(q)' <= Alive(q)
  BY DEF DeleteLater, Alive, Typed, TypeOK
<1>2. Alives(d)' \subseteq Alives(d)
  BY <1>1 DEF Alives
<1> QED BY <1>2, FS_Subset

-----------------------------------------------------------------------------
(* The account through the steps of each thread.                           *)

LEMMA Numbers ==
  ASSUME Typed, NEW d \in Devices, Account(d)
  PROVE  /\ IsFiniteSet(Alives(d)) /\ Cardinality(Alives(d)) \in Nat /\ pending[d] \in Nat
         /\ Count(toConnector, Asked, d) \in Nat /\ Count(toMain, Answering, d) \in Nat
<1>1. Count(toConnector, Asked, d) \in Nat /\ Count(toMain, Answering, d) \in Nat
  BY CountType DEF Typed, QueuesOK
<1> QED BY <1>1, FS_CardinalityType DEF Account, Typed, TypeOK

(* What a step has to show: the account is no higher, the entries no fewer. *)
LEMMA Carried ==
  ASSUME Typed, Typed', NEW d \in Devices, Account(d), IsFiniteSet(Alives(d)'),
         Count(toConnector', Asked, d) + Cardinality(Alives(d)') + Count(toMain', Answering, d)
           <= pending'[d]
  PROVE  Account(d)'
BY DEF Account, Count, At, About, Asked, Answering

(* A step that makes no request and gives no answer: it may take an event  *)
(* from a queue and post others.                                           *)
LEMMA Quiet ==
  ASSUME Typed, Typed', NEW d \in Devices, Account(d), UNCHANGED <<requests, ghosts, pending>>,
         Count(toConnector', Asked, d) <= Count(toConnector, Asked, d),
         Count(toMain', Answering, d) <= Count(toMain, Answering, d)
  PROVE  Account(d)'
<1>1. Alives(d)' = Alives(d)
  BY DEF Alives, Alive
<1>2. Count(toConnector', Asked, d) \in Nat /\ Count(toMain', Answering, d) \in Nat
  BY CountType DEF Typed, QueuesOK
<1> QED BY <1>1, <1>2, Carried, Numbers DEF Account

LEMMA MainKeepsAccount ==
  ASSUME Typed, Typed', MainThread, NEW d \in Devices, Account(d)
  PROVE  Account(d)'
<1> DEFINE n == Len(conns)
<1>0. /\ toMain \in Seq(MainEvents(n)) /\ toConnector \in Seq(ConnectorEvents(n))
      /\ Count(toMain', Answering, d) \in Nat /\ Count(toConnector', Asked, d) \in Nat
      /\ Count(toConnector', Asked, d) <= Count(toConnector', Asked, d)
  BY CountType DEF Typed, QueuesOK
<1>a. ASSUME toMain # <<>>, toMain' = Tail(toMain)
      PROVE  /\ Count(toMain', Answering, d) <= Count(toMain, Answering, d)
             /\ About(Head(toMain), Answering, d) =>
                  Count(toMain', Answering, d) <= Count(toMain, Answering, d) - 1
  BY <1>0, <1>a, CountTail
<1>b. ASSUME Received("created") \/ Received("error"), Take(Head(toMain).to.dev),
             UNCHANGED <<requests, ghosts, toConnector>>
      PROVE  Account(d)'
  <2> DEFINE e == Head(toMain).to.dev
  <2>1. /\ toMain # <<>> /\ toMain' = Tail(toMain) /\ Head(toMain).kind \in Answering
        /\ e \in Devices
    BY <1>b, FirstToMain DEF Received, Answering
  <2>2. e = d => About(Head(toMain), Answering, d)
    BY <2>1 DEF About
  <2> HIDE DEF e
  <2>3. /\ pending'[d] = IF e = d THEN pending[d] - 1 ELSE pending[d]
    BY <1>b, <2>1 DEF Take, e, Typed, TypeOK
  <2>4. Alives(d)' = Alives(d)
    BY <1>b DEF Alives, Alive
  <2>5. Count(toConnector', Asked, d) = Count(toConnector, Asked, d)
    BY <1>b
  <2>6. /\ Count(toMain', Answering, d) <= Count(toMain, Answering, d)
        /\ e = d => Count(toMain', Answering, d) <= Count(toMain, Answering, d) - 1
    BY <1>a, <2>1, <2>2
  <2>7. Count(toConnector', Asked, d) + Cardinality(Alives(d)') + Count(toMain', Answering, d)
          <= pending'[d]
    <3>1. Count(toConnector, Asked, d) + Cardinality(Alives(d)) + Count(toMain, Answering, d) <= pending[d]
      BY DEF Account
    <3>2. /\ Cardinality(Alives(d)) \in Nat /\ pending[d] \in Nat
          /\ Count(toConnector, Asked, d) \in Nat /\ Count(toMain, Answering, d) \in Nat
      BY Numbers
    <3>3. CASE e = d
      BY <1>0, <2>3, <2>4, <2>5, <2>6, <3>1, <3>2, <3>3
    <3>4. CASE e # d
      BY <1>0, <2>3, <2>4, <2>5, <2>6, <3>1, <3>2, <3>4
    <3> QED BY <3>3, <3>4
  <2> QED BY <2>4, <2>7, Carried, Numbers
<1>1. CASE OnRemoteDispatcherCreated
  BY <1>1, <1>b DEF OnRemoteDispatcherCreated
<1>2. CASE OnRemoteDispatcherError
  BY <1>2, <1>b DEF OnRemoteDispatcherError
<1>3. CASE OnDispatcherDestroyed
  <2>1. toMain # <<>> /\ toMain' = Tail(toMain) /\ UNCHANGED <<requests, ghosts, pending, toConnector>>
    BY <1>3 DEF OnDispatcherDestroyed, Received
  <2> QED BY <1>0, <1>a, <2>1, Quiet
<1>4. CASE OnEstablish
  <2> DEFINE to == Head(toMain).to
             call == [kind |-> "connect", to |-> to, psk |-> FALSE]
  <2>1. /\ toMain # <<>> /\ toMain' = Tail(toMain) /\ Head(toMain).kind = "establish"
        /\ UNCHANGED <<requests, ghosts>> /\ toConnector' = Append(toConnector, call)
        /\ pending' = [pending EXCEPT ![to.dev] = @ + 1]
    BY <1>4 DEF OnEstablish, EstablishConnection, Received
  <2>2. to \in Descriptors /\ to.dev \in Devices
    BY <2>1, FirstToMain
  <2>3. call \in ConnectorEvents(n) /\ (to.dev # d => ~About(call, Asked, d))
    BY <2>2 DEF ConnectorEvents, About
  <2> HIDE DEF to, call
  <2>4. /\ Count(toConnector', Asked, d) <= Count(toConnector, Asked, d) + 1
        /\ to.dev # d => Count(toConnector', Asked, d) <= Count(toConnector, Asked, d)
    BY <1>0, <2>1, <2>3, CountAppend
  <2>5. pending'[d] = IF to.dev = d THEN pending[d] + 1 ELSE pending[d]
    BY <2>1, <2>2 DEF Typed, TypeOK
  <2>6. Alives(d)' = Alives(d)
    BY <2>1 DEF Alives, Alive
  <2>7. Count(toMain', Answering, d) <= Count(toMain, Answering, d)
    BY <1>a, <2>1
  <2>8. Count(toConnector', Asked, d) + Cardinality(Alives(d)') + Count(toMain', Answering, d)
          <= pending'[d]
    <3>1. Count(toConnector, Asked, d) + Cardinality(Alives(d)) + Count(toMain, Answering, d) <= pending[d]
      BY DEF Account
    <3>2. /\ Cardinality(Alives(d)) \in Nat /\ pending[d] \in Nat
          /\ Count(toConnector, Asked, d) \in Nat /\ Count(toMain, Answering, d) \in Nat
      BY Numbers
    <3>3. CASE to.dev = d
      BY <1>0, <2>4, <2>5, <2>6, <2>7, <3>1, <3>2, <3>3
    <3>4. CASE to.dev # d
      BY <1>0, <2>4, <2>5, <2>6, <2>7, <3>1, <3>2, <3>4
    <3> QED BY <3>3, <3>4
  <2> QED BY <2>6, <2>8, Carried, Numbers
<1>5. CASE RequestRemoteDevices
  <2>1. toMain # <<>> /\ toMain' = Tail(toMain) /\ UNCHANGED <<requests, ghosts, pending, toConnector>>
    BY <1>5 DEF RequestRemoteDevices, mainVars, Received
  <2> QED BY <1>0, <1>a, <2>1, Quiet
<1>6. ASSUME NEW kind, OnDetection(kind) PROVE Account(d)'
  <2>1. toMain # <<>> /\ toMain' = Tail(toMain) /\ UNCHANGED <<requests, ghosts, pending, toConnector>>
    BY <1>6 DEF OnDetection, Received
  <2> QED BY <1>0, <1>a, <2>1, Quiet
<1> QED BY <1>1, <1>2, <1>3, <1>4, <1>5, <1>6 DEF MainThread

LEMMA WorldKeepsAccount ==
  ASSUME Typed, Typed', World, NEW d \in Devices, Account(d)
  PROVE  Account(d)'
<1>0. /\ toConnector \in Seq(ConnectorEvents(Len(conns)))
      /\ Count(toMain, Answering, d) \in Nat /\ Count(toConnector, Asked, d) \in Nat
      /\ Count(toConnector', Asked, d) \in Nat
  BY CountType DEF Typed, QueuesOK
<1>1. ASSUME UNCHANGED <<requests, ghosts, pending, toConnector, toMain>> PROVE Account(d)'
  <2>1. /\ Count(toConnector', Asked, d) <= Count(toConnector, Asked, d)
        /\ Count(toMain', Answering, d) <= Count(toMain, Answering, d)
    BY <1>0, <1>1
  <2> QED BY <1>1, <2>1, Quiet
<1>2. CASE ConnectToRememberedServer
  <2>1. PICK e \in remembered : EstablishConnection(e, TRUE)
    BY <1>2 DEF ConnectToRememberedServer
  <2> DEFINE call == [kind |-> "connect", to |-> e, psk |-> TRUE]
  <2>2. /\ pending' = [pending EXCEPT ![e.dev] = @ + 1]
        /\ toConnector' = Append(toConnector, call)
        /\ UNCHANGED <<requests, ghosts, toMain>>
    BY <1>2, <2>1 DEF ConnectToRememberedServer, EstablishConnection
  <2>3. e \in Descriptors /\ e.dev \in Devices
    BY DescriptorAssumption DEF Typed, TypeOK
  <2>4. call \in ConnectorEvents(Len(conns)) /\ (e.dev # d => ~About(call, Asked, d))
    BY <2>3 DEF ConnectorEvents, About
  <2> HIDE DEF call
  <2>5. /\ Count(toConnector', Asked, d) <= Count(toConnector, Asked, d) + 1
        /\ e.dev # d => Count(toConnector', Asked, d) <= Count(toConnector, Asked, d)
    BY <1>0, <2>2, <2>4, CountAppend
  <2>6. pending'[d] = IF e.dev = d THEN pending[d] + 1 ELSE pending[d]
    BY <2>2, <2>3 DEF Typed, TypeOK
  <2>7. Alives(d)' = Alives(d) /\ Count(toMain', Answering, d) = Count(toMain, Answering, d)
    BY <2>2 DEF Alives, Alive
  <2>8. Count(toConnector', Asked, d) + Cardinality(Alives(d)') + Count(toMain', Answering, d)
          <= pending'[d]
    <3>1. Count(toConnector, Asked, d) + Cardinality(Alives(d)) + Count(toMain, Answering, d) <= pending[d]
      BY DEF Account
    <3>2. /\ Cardinality(Alives(d)) \in Nat /\ pending[d] \in Nat
          /\ Count(toConnector, Asked, d) \in Nat /\ Count(toMain, Answering, d) \in Nat
      BY Numbers
    <3>3. CASE e.dev = d
      BY <1>0, <2>5, <2>6, <2>7, <3>1, <3>2, <3>3
    <3>4. CASE e.dev # d
      BY <1>0, <2>5, <2>6, <2>7, <3>1, <3>2, <3>4
    <3> QED BY <3>3, <3>4
  <2> QED BY <2>7, <2>8, Carried, Numbers
<1>3. ASSUME NEW e \in Descriptors, OnNewMessage(e) \/ OnProcessUnresponsiveRemoteReaders(e)
      PROVE  Account(d)'
  BY <1>1, <1>3 DEF OnNewMessage, OnProcessUnresponsiveRemoteReaders, UnchangedByDevices
<1>4. CASE SetDetectRemoteDevices
  BY <1>1, <1>4 DEF SetDetectRemoteDevices, UnchangedByDevices
<1>5. ASSUME NEW x \in Devices, ForgetDevice(x) PROVE Account(d)'
  BY <1>1, <1>5 DEF ForgetDevice, mainVars
<1> QED BY <1>2, <1>3, <1>4, <1>5, Zenon DEF World

LEMMA CountPosted ==
  ASSUME NEW S, NEW q \in Seq(S), NEW T, T \subseteq S, NEW p \in Seq(T), NEW K, NEW d,
         \A x \in T : x.kind \notin K
  PROVE  Count(q \o p, K, d) <= Count(q, K, d)
<1>1. p \in Seq(S) /\ \A i \in DOMAIN p : p[i] \in T
  BY LenProperties, ElementOfSeq, SeqMonotonic
<1>2. \A i \in DOMAIN p : ~About(p[i], K, d)
  BY <1>1 DEF About
<1> QED BY <1>1, <1>2, CountConcat

LEMMA PairedAccount ==
  ASSUME Typed, NEW before, before \in Seq([kind : {"startDetection"}]),
         ConnectToPairedReaders(before), NEW d
  PROVE  Count(toMain', Answering, d) <= Count(toMain, Answering, d)
<1> DEFINE K == [kind : {"requestDevices", "startDetection"}]
<1>1. PICK p \in Seq(K) : toMain' = toMain \o p
  BY PairedTypes
<1>2. K \subseteq MainEvents(Len(conns)) /\ \A x \in K : x.kind \notin Answering
  BY DEF MainEvents, Answering
<1>3. toMain \in Seq(MainEvents(Len(conns)))
  BY DEF Typed, QueuesOK
<1> QED BY <1>1, <1>2, <1>3, CountPosted

LEMMA FarewellsAccount ==
  ASSUME Typed, RemoveAllDispatchers, NEW d
  PROVE  Count(toConnector', Asked, d) <= Count(toConnector, Asked, d)
<1> DEFINE C == [kind : {"close"}, conn : 1 .. Len(conns)]
<1>1. PICK p \in Seq(C) : toConnector' = toConnector \o p
  BY Farewells
<1>2. C \subseteq ConnectorEvents(Len(conns)) /\ \A x \in C : x.kind \notin Asked
  BY DEF ConnectorEvents, Asked
<1>3. toConnector \in Seq(ConnectorEvents(Len(conns)))
  BY DEF Typed, QueuesOK
<1> QED BY <1>1, <1>2, <1>3, CountPosted

LEMMA ScanKeepsAccount ==
  ASSUME Typed, Typed', Scan, NEW d \in Devices, Account(d)
  PROVE  Account(d)'
<1> DEFINE n == Len(conns)
<1>0. /\ toMain \in Seq(MainEvents(n))
      /\ Count(toConnector, Asked, d) \in Nat
      /\ Count(toConnector, Asked, d) <= Count(toConnector, Asked, d)
  BY CountType DEF Typed, QueuesOK
<1>1. <<>> \in Seq([kind : {"startDetection"}]) /\ <<[kind |-> "startDetection"]>> \in Seq([kind : {"startDetection"}])
  OBVIOUS
<1>2. CASE ScanTimeout
  <2>1. UNCHANGED <<requests, ghosts, pending, toConnector>>
    BY <1>2 DEF ScanTimeout, UnchangedByPlugIn, mainVars
  <2>2. Count(toMain', Answering, d) <= Count(toMain, Answering, d)
    BY <1>1, <1>2, PairedAccount DEF ScanTimeout
  <2> QED BY <1>0, <2>1, <2>2, Quiet
<1>3. ASSUME NEW auto \in BOOLEAN, StartScan(auto) PROVE Account(d)'
  <2>1. UNCHANGED <<requests, ghosts, pending>>
    BY <1>3 DEF StartScan, UnchangedByPlugIn, mainVars
  <2>2. Count(toMain', Answering, d) <= Count(toMain, Answering, d)
    BY <1>1, <1>3, PairedAccount DEF StartScan
  <2>3. Count(toConnector', Asked, d) <= Count(toConnector, Asked, d)
    BY <1>0, <1>3, FarewellsAccount DEF StartScan
  <2> QED BY <2>1, <2>2, <2>3, Quiet
<1>4. CASE StopScan
  <2>1. /\ UNCHANGED <<requests, ghosts, pending>>
        /\ toMain' = Append(toMain, [kind |-> "stopDetection"])
    BY <1>4 DEF StopScan, UnchangedByPlugIn, mainVars
  <2>2. [kind |-> "stopDetection"] \in MainEvents(n) /\ ~About([kind |-> "stopDetection"], Answering, d)
    BY DEF MainEvents, About, Answering
  <2>3. Count(toMain', Answering, d) <= Count(toMain, Answering, d)
    BY <1>0, <2>1, <2>2, CountAppend
  <2>4. Count(toConnector', Asked, d) <= Count(toConnector, Asked, d)
    BY <1>4, FarewellsAccount DEF StopScan
  <2> QED BY <2>1, <2>3, <2>4, Quiet
<1> QED BY <1>2, <1>3, <1>4 DEF Scan

LEMMA PlugInKeepsAccount ==
  ASSUME Typed, Typed', PlugIn, NEW d \in Devices, Account(d)
  PROVE  Account(d)'
<1> DEFINE n == Len(conns)
<1>0. /\ toMain \in Seq(MainEvents(n)) /\ toConnector \in Seq(ConnectorEvents(n))
      /\ Count(toConnector, Asked, d) \in Nat /\ Count(toMain, Answering, d) \in Nat
      /\ Count(toConnector, Asked, d) <= Count(toConnector, Asked, d)
      /\ Count(toMain, Answering, d) <= Count(toMain, Answering, d)
  BY CountType DEF Typed, QueuesOK
<1>1. CASE OnDeviceAppeared
  <2>1. UNCHANGED <<requests, ghosts, pending, toConnector>>
    BY <1>1 DEF OnDeviceAppeared, UnchangedByPlugIn, mainVars
  <2>2. <<>> \in Seq([kind : {"startDetection"}])
    OBVIOUS
  <2>3. Count(toMain', Answering, d) <= Count(toMain, Answering, d)
    BY <1>1, <2>2, PairedAccount DEF OnDeviceAppeared
  <2> QED BY <1>0, <2>1, <2>3, Quiet
<1>2. CASE ContinueConnectToPairedReaders
  <2> DEFINE wanted == {e \in Head(toPlugIn).devs : /\ e.dev \notin Unsupported
                                                    /\ listed[e.dev] = 0
                                                    /\ trust[e.dev] # "none"}
             E == [kind : {"establish"}, to : wanted]
  <2>1. UNCHANGED <<requests, ghosts, pending, toConnector>>
    BY <1>2 DEF ContinueConnectToPairedReaders, UnchangedByPlugIn, mainVars
  <2>2. wanted \subseteq Descriptors
    BY <1>2, FirstToPlugIn DEF ContinueConnectToPairedReaders, Hears
  <2>3. PICK p \in Seq(E) : toMain' = toMain \o p
    BY <1>2, <2>2, Calls DEF ContinueConnectToPairedReaders
  <2>4. E \subseteq MainEvents(n) /\ \A x \in E : x.kind \notin Answering
    BY <2>2 DEF MainEvents, Answering
  <2>5. Count(toMain', Answering, d) <= Count(toMain, Answering, d)
    BY <1>0, <2>3, <2>4, CountPosted
  <2> QED BY <1>0, <2>1, <2>5, Quiet
<1>3. CASE AddRemoteDispatcher
  <2>1. UNCHANGED <<requests, ghosts, pending, toConnector, toMain>>
    BY <1>3 DEF AddRemoteDispatcher, UnchangedByPlugIn, mainVars
  <2> QED BY <1>0, <2>1, Quiet
<1>4. CASE OnContextEstablished
  <2> DEFINE x == conns[Head(toPlugIn).conn].dev
             bye == [kind |-> "close", conn |-> listed[x]]
  <2>1. /\ UNCHANGED <<requests, ghosts, pending, toMain>>
        /\ (toConnector' = Append(toConnector, bye) /\ listed[x] # 0) \/ UNCHANGED toConnector
    BY <1>4 DEF OnContextEstablished, UnchangedByPlugIn, mainVars
  <2>2. x \in Devices
    BY <1>4, FirstToPlugIn DEF OnContextEstablished, Hears
  <2>3. listed[x] # 0 => bye \in ConnectorEvents(n)
    <3>1. listed[x] \in 0 .. n /\ n \in Nat
      <4> HIDE DEF x
      <4> QED BY <2>2, LenProperties DEF Typed, TypeOK
    <3>2. listed[x] # 0 => listed[x] \in 1 .. n
      BY <3>1
    <3> QED BY <3>2 DEF ConnectorEvents
  <2>4. ~About(bye, Asked, d)
    BY DEF About, Asked
  <2> HIDE DEF bye, x
  <2>5. Count(toConnector', Asked, d) <= Count(toConnector, Asked, d)
    BY <1>0, <2>1, <2>3, <2>4, CountAppend
  <2> QED BY <1>0, <2>1, <2>5, Quiet
<1>5. CASE OnDispatcherClosed
  <2>1. UNCHANGED <<requests, ghosts, pending, toConnector, toMain>>
    BY <1>5 DEF OnDispatcherClosed, UnchangedByPlugIn, mainVars
  <2> QED BY <1>0, <2>1, Quiet
<1> QED BY <1>1, <1>2, <1>3, <1>4, <1>5 DEF PlugIn

LEMMA ConnectorKeepsAccount ==
  ASSUME Typed, Typed', UnchangedByConnector,
         \/ OnConnectRequest \/ CloseDispatcher \/ Answers \/ DeleteLater \/ DeleteDispatcher
         \/ SocketCloses \/ EstablishContext,
         NEW d \in Devices, Account(d)
  PROVE  Account(d)'
<1> DEFINE n == Len(conns)
<1>0. /\ toMain \in Seq(MainEvents(n)) /\ toConnector \in Seq(ConnectorEvents(n))
      /\ Count(toConnector, Asked, d) \in Nat /\ Count(toMain, Answering, d) \in Nat
      /\ Count(toConnector', Asked, d) \in Nat /\ Count(toMain', Answering, d) \in Nat
      /\ Count(toConnector, Asked, d) <= Count(toConnector, Asked, d)
      /\ Count(toMain, Answering, d) <= Count(toMain, Answering, d)
      /\ UNCHANGED pending
  BY CountType DEF Typed, QueuesOK, UnchangedByConnector, mainVars
<1>a. ASSUME toConnector # <<>>, toConnector' = Tail(toConnector)
      PROVE  /\ Count(toConnector', Asked, d) <= Count(toConnector, Asked, d)
             /\ About(Head(toConnector), Asked, d) =>
                  Count(toConnector', Asked, d) <= Count(toConnector, Asked, d) - 1
  BY <1>0, <1>a, CountTail
<1>b. ASSUME NEW c \in DOMAIN conns, Disconnected(c)
      PROVE  Count(toMain', Answering, d) <= Count(toMain, Answering, d)
  <2>1. c \in 1 .. n
    BY LenProperties DEF Typed, TypeOK
  <2>2. Closed(c) \in MainEvents(n) /\ ~About(Closed(c), Answering, d)
    BY <2>1 DEF Closed, MainEvents, About, Answering
  <2> QED BY <1>0, <1>b, <2>2, CountAppend DEF Disconnected
<1>1. CASE OnConnectRequest
  <2> DEFINE to == Head(toConnector).to
             mode == IF Head(toConnector).psk THEN "pairing"
                     ELSE IF trust[to.dev] = "none" THEN "unknown" ELSE "known"
             r == [to |-> to, mode |-> mode]
  <2>0. PICK code \in ErrorCodes :
          \/ toMain' = Append(toMain, Error(to, code)) /\ UNCHANGED requests
          \/ requests' = [requests EXCEPT ![r] = @ + 1] /\ UNCHANGED toMain
    BY <1>1 DEF OnConnectRequest, ErrorCodes
  <2> DEFINE no == Error(to, code)
  <2>1. /\ toConnector # <<>> /\ Head(toConnector).kind = "connect"
        /\ toConnector' = Tail(toConnector) /\ UNCHANGED ghosts
        /\ \/ toMain' = Append(toMain, no) /\ UNCHANGED requests
           \/ requests' = [requests EXCEPT ![r] = @ + 1] /\ UNCHANGED toMain
    BY <1>1, <2>0 DEF OnConnectRequest
  <2>2. to \in Descriptors /\ to.dev \in Devices
    BY <2>1, FirstToConnector
  <2>3. r \in Requests /\ r.to = to
    BY <2>2 DEF Requests
  <2>4. no \in MainEvents(n) /\ (to.dev # d => ~About(no, Answering, d))
    BY <2>2 DEF Error, MainEvents, About
  <2>5. to.dev = d => About(Head(toConnector), Asked, d)
    BY <2>1 DEF About, Asked
  <2> HIDE DEF to, mode, r, no
  <2>6. /\ Count(toConnector', Asked, d) <= Count(toConnector, Asked, d)
        /\ to.dev = d => Count(toConnector', Asked, d) <= Count(toConnector, Asked, d) - 1
    BY <1>a, <2>1, <2>5
  <2>7. CASE toMain' = Append(toMain, no) /\ UNCHANGED requests
    <3>1. /\ Count(toMain', Answering, d) <= Count(toMain, Answering, d) + 1
          /\ to.dev # d => Count(toMain', Answering, d) <= Count(toMain, Answering, d)
      BY <1>0, <2>4, <2>7, CountAppend
    <3>2. Alives(d)' = Alives(d)
      BY <2>1, <2>7 DEF Alives, Alive
    <3>3. Count(toConnector', Asked, d) + Cardinality(Alives(d)') + Count(toMain', Answering, d)
            <= pending'[d]
      <4>1. Count(toConnector, Asked, d) + Cardinality(Alives(d)) + Count(toMain, Answering, d) <= pending[d]
        BY DEF Account
      <4>2. Cardinality(Alives(d)) \in Nat /\ pending[d] \in Nat /\ pending'[d] = pending[d]
        BY <1>0, Numbers
      <4>3. CASE to.dev = d
        BY <1>0, <2>6, <3>1, <3>2, <4>1, <4>2, <4>3
      <4>4. CASE to.dev # d
        BY <1>0, <2>6, <3>1, <3>2, <4>1, <4>2, <4>4
      <4> QED BY <4>3, <4>4
    <3> QED BY <3>2, <3>3, Carried, Numbers
  <2>8. CASE requests' = [requests EXCEPT ![r] = @ + 1] /\ UNCHANGED toMain
    <3>1. IsFiniteSet(Alives(d))
      BY Numbers
    <3>2. /\ IsFiniteSet(Alives(d)')
          /\ Cardinality(Alives(d)') <= Cardinality(Alives(d)) + 1
          /\ to.dev # d => Cardinality(Alives(d)') <= Cardinality(Alives(d))
      BY <2>1, <2>3, <2>8, <3>1, OneMoreAlive
    <3>3. Cardinality(Alives(d)') \in Nat
      BY <3>2, FS_CardinalityType
    <3>4. Count(toConnector', Asked, d) + Cardinality(Alives(d)') + Count(toMain', Answering, d)
            <= pending'[d]
      <4>1. Count(toConnector, Asked, d) + Cardinality(Alives(d)) + Count(toMain, Answering, d) <= pending[d]
        BY DEF Account
      <4>2. /\ Cardinality(Alives(d)) \in Nat /\ pending[d] \in Nat /\ pending'[d] = pending[d]
            /\ Count(toMain', Answering, d) = Count(toMain, Answering, d)
        BY <1>0, <2>8, Numbers
      <4>3. CASE to.dev = d
        BY <1>0, <2>6, <3>2, <3>3, <4>1, <4>2, <4>3
      <4>4. CASE to.dev # d
        BY <1>0, <2>6, <3>2, <3>3, <4>1, <4>2, <4>4
      <4> QED BY <4>3, <4>4
    <3> QED BY <3>2, <3>4, Carried
  <2> QED BY <2>1, <2>7, <2>8
<1>2. CASE CloseDispatcher
  <2>1. /\ toConnector # <<>> /\ Head(toConnector).kind = "close"
        /\ toConnector' = Tail(toConnector) /\ UNCHANGED <<requests, ghosts>>
        /\ Disconnected(Head(toConnector).conn) \/ UNCHANGED toMain
    BY <1>2 DEF CloseDispatcher
  <2>2. Head(toConnector).conn \in DOMAIN conns
    BY <2>1, FirstToConnector
  <2>3. Count(toMain', Answering, d) <= Count(toMain, Answering, d)
    BY <1>0, <1>b, <2>1, <2>2
  <2>4. Count(toConnector', Asked, d) <= Count(toConnector, Asked, d)
    BY <1>a, <2>1
  <2> QED BY <1>0, <2>1, <2>3, <2>4, Quiet
<1>3. CASE Answers
  <2>1. PICK r \in Requests : OnConnectionCreated(r) \/ OnConnectionError(r)
    BY <1>3 DEF Answers
  <2>2. Alive(r) > 0 /\ RemoveRequest(r) /\ UNCHANGED toConnector /\ r.to \in Descriptors
    BY <2>1 DEF OnConnectionCreated, OnConnectionError, Requests
  <2>3. PICK x : /\ x.to = r.to /\ x \in MainEvents(Len(conns'))
                 /\ toMain' = Append(toMain, x)
    <3>1. CASE OnConnectionCreated(r)
      <4>1. toMain' = Append(toMain, Created(r.to, Len(conns'))) /\ Len(conns') = n + 1 /\ n \in Nat
        BY <3>1, LenProperties DEF OnConnectionCreated, Typed, TypeOK
      <4>2. Created(r.to, Len(conns')) \in MainEvents(Len(conns')) /\ Created(r.to, Len(conns')).to = r.to
        BY <2>2, <4>1 DEF Created, MainEvents
      <4> QED BY <4>1, <4>2
    <3>2. CASE OnConnectionError(r)
      <4>1. PICK code \in {"REFUSED", "OTHER"} : toMain' = Append(toMain, Error(r.to, code))
        BY <3>2 DEF OnConnectionError
      <4>2. Error(r.to, code) \in MainEvents(Len(conns')) /\ Error(r.to, code).to = r.to
        BY <2>2 DEF Error, ErrorCodes, MainEvents
      <4> QED BY <4>1, <4>2
    <3> QED BY <2>1, <3>1, <3>2
  <2>4. toMain \in Seq(MainEvents(Len(conns')))
    <3>1. n \in Nat /\ Len(conns') \in Nat /\ n <= Len(conns')
      <4>1. CASE UNCHANGED conns
        BY <4>1, LenProperties DEF Typed, TypeOK
      <4>2. CASE \E c \in Connections : conns' = Append(conns, c)
        BY <4>2, LenProperties, AppendProperties DEF Typed, TypeOK
      <4>3. r.to.dev \in Devices
        BY <2>2, DescriptorAssumption
      <4>4. OnConnectionCreated(r) => \E c \in Connections : conns' = Append(conns, c)
        BY <4>3 DEF OnConnectionCreated, Connections
      <4> QED BY <2>1, <4>1, <4>2, <4>4 DEF OnConnectionError
    <3> QED BY <1>0, <3>1, MoreConnections
  <2>5. /\ Count(toMain', Answering, d) <= Count(toMain, Answering, d) + 1
        /\ r.to.dev # d => Count(toMain', Answering, d) <= Count(toMain, Answering, d)
    BY <2>3, <2>4, CountAppend DEF About
  <2>6. IsFiniteSet(Alives(d))
    BY Numbers
  <2>7. /\ IsFiniteSet(Alives(d)')
        /\ Cardinality(Alives(d)') <= Cardinality(Alives(d))
        /\ r.to.dev = d => Cardinality(Alives(d)') <= Cardinality(Alives(d)) - 1
    BY <2>2, <2>6, OneLessAlive
  <2>8. Cardinality(Alives(d)') \in Nat
    BY <2>7, FS_CardinalityType
  <2>9. Count(toConnector', Asked, d) + Cardinality(Alives(d)') + Count(toMain', Answering, d)
          <= pending'[d]
    <3>1. Count(toConnector', Asked, d) = Count(toConnector, Asked, d) /\ pending'[d] = pending[d]
      BY <1>0, <2>2
    <3>2. Count(toConnector, Asked, d) + Cardinality(Alives(d)) + Count(toMain, Answering, d) <= pending[d]
      BY DEF Account
    <3>3. Cardinality(Alives(d)) \in Nat /\ pending[d] \in Nat
      BY Numbers
    <3>4. CASE r.to.dev = d
      BY <1>0, <2>5, <2>7, <2>8, <3>1, <3>2, <3>3, <3>4
    <3>5. CASE r.to.dev # d
      BY <1>0, <2>5, <2>7, <2>8, <3>1, <3>2, <3>3, <3>5
    <3> QED BY <3>4, <3>5
  <2> QED BY <2>7, <2>9, Carried
<1>4. CASE DeleteLater
  <2>1. IsFiniteSet(Alives(d)) /\ UNCHANGED <<toConnector, toMain>>
    BY <1>4, Numbers DEF DeleteLater
  <2>2. IsFiniteSet(Alives(d)') /\ Cardinality(Alives(d)') <= Cardinality(Alives(d))
    BY <1>4, <2>1, SomeLessAlive
  <2>3. Cardinality(Alives(d)') \in Nat
    BY <2>2, FS_CardinalityType
  <2>4. Count(toConnector', Asked, d) + Cardinality(Alives(d)') + Count(toMain', Answering, d)
          <= pending'[d]
    <3>1. /\ Count(toConnector', Asked, d) = Count(toConnector, Asked, d)
          /\ Count(toMain', Answering, d) = Count(toMain, Answering, d) /\ pending'[d] = pending[d]
      BY <1>0, <2>1
    <3>2. Count(toConnector, Asked, d) + Cardinality(Alives(d)) + Count(toMain, Answering, d) <= pending[d]
      BY DEF Account
    <3>3. Cardinality(Alives(d)) \in Nat /\ pending[d] \in Nat
      BY Numbers
    <3> QED BY <1>0, <2>2, <2>3, <3>1, <3>2, <3>3
  <2> QED BY <2>2, <2>4, Carried
<1>5. CASE DeleteDispatcher \/ EstablishContext
  <2>1. UNCHANGED <<requests, ghosts, toConnector, toMain>>
    BY <1>5 DEF DeleteDispatcher, EstablishContext
  <2> QED BY <1>0, <2>1, Quiet
<1>6. CASE SocketCloses
  <2>1. UNCHANGED <<requests, ghosts, toConnector>> /\ \E c \in DOMAIN conns : Disconnected(c)
    BY <1>6 DEF SocketCloses
  <2>2. Count(toMain', Answering, d) <= Count(toMain, Answering, d)
    BY <1>b, <2>1
  <2> QED BY <1>0, <2>1, <2>2, Quiet
<1> QED BY <1>1, <1>2, <1>3, <1>4, <1>5, <1>6

LEMMA InitBalanced ==
  ASSUME Init
  PROVE  Balanced
<1> SUFFICES ASSUME NEW d \in Devices PROVE Account(d)
  BY DEF Balanced
<1>1. \A r \in Requests : Alive(r) = 0
  BY DEF Init, ConnectorInit, Alive
<1>2. Alives(d) = {}
  BY <1>1 DEF Alives
<1>3. IsFiniteSet(Alives(d)) /\ Cardinality(Alives(d)) = 0
  BY <1>2, FS_EmptySet
<1>4. Count(toConnector, Asked, d) = 0 /\ Count(toMain, Answering, d) = 0 /\ pending[d] = 0
  BY CountEmpty DEF Init, ConnectorInit
<1> QED BY <1>3, <1>4 DEF Account

LEMMA KeepsBalanced ==
  ASSUME Typed, Balanced, [Next]_vars
  PROVE  Balanced'
<1>0. Typed'
  BY KeepsTypes
<1> SUFFICES ASSUME NEW d \in Devices PROVE Account(d)'
  BY DEF Balanced
<1>a. Account(d)
  BY DEF Balanced
<1>1. CASE UNCHANGED vars
  <2>1. /\ UNCHANGED <<requests, ghosts, pending>>
        /\ UNCHANGED <<toConnector, toMain>>
    BY <1>1 DEF vars, connectorVars, mainVars
  <2>2. /\ Count(toConnector', Asked, d) <= Count(toConnector, Asked, d)
        /\ Count(toMain', Answering, d) <= Count(toMain, Answering, d)
    BY <1>a, <2>1, Numbers
  <2> QED BY <1>0, <1>a, <2>1, <2>2, Quiet
<1>2. CASE Input
  BY <1>0, <1>2, <1>a, ScanKeepsAccount, WorldKeepsAccount DEF Input
<1>3. CASE ConnectorPosted \/ ConnectorAnswers \/ ConnectorDeletes \/ ConnectorNetwork
  BY <1>0, <1>3, <1>a, ConnectorKeepsAccount
     DEF ConnectorPosted, ConnectorAnswers, ConnectorDeletes, ConnectorNetwork
<1> QED BY <1>0, <1>1, <1>2, <1>3, <1>a, MainKeepsAccount, PlugInKeepsAccount DEF Next, Idle

LEMMA BalancedMeansFound ==
  ASSUME Typed, Balanced
  PROVE  AnswersFindTheirEntry
<1> SUFFICES ASSUME toMain # <<>>, Head(toMain).kind \in {"created", "error"}
             PROVE  pending[Head(toMain).to.dev] > 0
  BY DEF AnswersFindTheirEntry
<1> DEFINE d == Head(toMain).to.dev
<1>1. d \in Devices /\ About(Head(toMain), Answering, d)
  BY FirstToMain DEF About, Answering
<1> HIDE DEF d
<1>2. toMain \in Seq(MainEvents(Len(conns))) /\ Tail(toMain) \in Seq(MainEvents(Len(conns)))
  BY FirstToMain DEF Typed, QueuesOK
<1>3. Count(Tail(toMain), Answering, d) <= Count(toMain, Answering, d) - 1
  BY <1>1, <1>2, CountTail
<1>4. Count(Tail(toMain), Answering, d) \in Nat
  BY <1>2, CountType
<1>5. Account(d)
  BY <1>1 DEF Balanced
<1>6. pending[d] > 0
  BY <1>1, <1>3, <1>4, <1>5, Numbers DEF Account
<1> QED BY <1>6 DEF d

(* Every answer of the connector finds an entry of its device: the         *)
(* assertion in mapToAndTakeRemoteConnectorPending cannot fail, however    *)
(* many requests overlap. By the account of each device, Balanced: a posted*)
(* request becomes one that may answer, which becomes one answer, which    *)
(* takes one entry. The requests to the same address that an answer        *)
(* removes are still counted until they are deleted, for they may answer;  *)
(* from then on their entries are never taken and the account stays below  *)
(* the entries.                                                            *)
THEOREM AnswersFound == Spec => []AnswersFindTheirEntry
<1>1. Init => Typed /\ Balanced
  BY InitTypes, InitBalanced
<1>2. Typed /\ Balanced /\ [Next]_vars => Typed' /\ Balanced'
  BY KeepsTypes, KeepsBalanced
<1>3. Typed /\ Balanced => AnswersFindTheirEntry
  BY BalancedMeansFound
<1> QED BY <1>1, <1>2, <1>3, PTL DEF Spec
=============================================================================
