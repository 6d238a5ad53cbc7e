------------------------ MODULE RemoteServiceProofs ------------------------
(***************************************************************************)
(* RemoteService for any passwords, counter and bounds: type correctness,  *)
(* that an idle service has forgotten its clients, that "OK" is only       *)
(* answered to the request it belongs to, and that a PIN which the chip    *)
(* has rejected is not sent again.                                         *)
(***************************************************************************)
EXTENDS RemoteService, SequenceTheorems, TLAPS

-----------------------------------------------------------------------------
(* Events that wait. *)

Messages == Replies \cup Signals

LEMMA MessageTypes ==
  ASSUME NEW m \in Messages
  PROVE  /\ m.mine \in BOOLEAN
         /\ m.kind = "changed" => m.rc \in Counters
         /\ m.kind # "changed" => m.code \in Codes /\ m \in Replies
BY DEF Messages, Replies, Signals, OfState

LEMMA FirstOfQueue ==
  ASSUME NEW S, NEW q \in Seq(S), q # <<>>
  PROVE  Head(q) \in S /\ Tail(q) \in Seq(S)
BY HeadTailProperties

LEMMA TwoMore ==
  ASSUME NEW S, NEW q \in Seq(S), NEW e \in S
  PROVE  /\ (q \o <<>>) \o <<e>> \in Seq(S)
         /\ \A d \in S : (q \o <<d>>) \o <<e>> \in Seq(S)
<1>1. <<>> \in Seq(S) /\ <<e>> \in Seq(S) /\ \A d \in S : <<d>> \in Seq(S)
  OBVIOUS
<1> QED BY <1>1, ConcatProperties

LEMMA DisownedCommands ==
  ASSUME NEW q \in Seq(Commands), NEW kinds
  PROVE  Disown(q, kinds) \in Seq(Commands)
<1>1. ASSUME NEW i \in DOMAIN q PROVE Disown(q, kinds)[i] \in Commands
  <2>1. q[i] \in Commands
    BY <1>1
  <2>2. [q[i] EXCEPT !.mine = FALSE] \in Commands
    BY <2>1 DEF Commands
  <2> QED BY <1>1, <2>1, <2>2 DEF Disown
<1>2. DOMAIN Disown(q, kinds) = 1 .. Len(q) /\ Len(q) \in Nat
  BY LenProperties DEF Disown
<1>3. Disown(q, kinds) \in [1 .. Len(q) -> Commands]
  BY <1>1, <1>2 DEF Disown
<1> QED BY <1>2, <1>3, SeqDef

LEMMA DisownedMessages ==
  ASSUME NEW q \in Seq(Messages), NEW kinds
  PROVE  Disown(q, kinds) \in Seq(Messages)
<1>1. ASSUME NEW i \in DOMAIN q PROVE Disown(q, kinds)[i] \in Messages
  <2>1. q[i] \in Messages
    BY <1>1
  <2>2. [q[i] EXCEPT !.mine = FALSE] \in Messages
    BY <2>1 DEF Messages, Replies, Signals
  <2> QED BY <1>1, <2>1, <2>2 DEF Disown
<1>2. DOMAIN Disown(q, kinds) = 1 .. Len(q) /\ Len(q) \in Nat
  BY LenProperties DEF Disown
<1>3. Disown(q, kinds) \in [1 .. Len(q) -> Messages]
  BY <1>1, <1>2 DEF Disown
<1> QED BY <1>2, <1>3, SeqDef

LEMMA AdoptedMessages ==
  ASSUME msgs \in Seq(Messages), SetCardConnection
  PROVE  msgs' \in Seq(Messages)
<1>1. ASSUME NEW i \in DOMAIN msgs PROVE msgs'[i] \in Messages
  <2>1. msgs[i] \in Messages
    BY <1>1
  <2>2. msgs[i].kind = "changed" => [msgs[i] EXCEPT !.ctx = msgs[i].mine] \in Messages
    BY <2>1 DEF Messages, Replies, Signals, OfState
  <2> QED BY <1>1, <2>1, <2>2 DEF SetCardConnection
<1>2. DOMAIN msgs' = 1 .. Len(msgs) /\ Len(msgs) \in Nat
  BY LenProperties DEF SetCardConnection
<1>3. msgs' \in [1 .. Len(msgs) -> Messages]
  BY <1>1, <1>2 DEF SetCardConnection
<1> QED BY <1>2, <1>3, SeqDef

-----------------------------------------------------------------------------
(* Types. A password is only asked of the chip while a message names it,   *)
(* and the counter that is decremented was a counter before.               *)

PaceStates == {"UpdateRetryCounter", "VerifyRetryCounter", "PreparePace",
               "EnterPacePassword", "EstablishPaceChannel"}

PaceWanted ==
  /\ st \in PaceStates => paceMsg \in PaceIds
  /\ st \in {"PreparePace", "EnterPacePassword", "EstablishPaceChannel"} => expRc \in Counters

WordTypes ==
  /\ st \in States /\ pw \in [Secrets -> Words \cup {NoWord}]
  /\ paceMsg \in PaceIds \cup {"none"} /\ paceOut \in Outputs /\ modOut \in Outputs

NumberTypes ==
  /\ expRc \in -2 .. FullCounter /\ rejections \in Nat
  /\ client \in 0 .. sessions /\ sessions \in 0 .. MaxSessions
  /\ connRc \in Counters /\ ctxRc \in Counters
  /\ moves \in 0 .. MaxMoves /\ failures \in 0 .. MaxReadFailures /\ stops \in 0 .. MaxStops
  /\ chipRc \in 0 .. FullCounter /\ rdRc \in Counters

SwitchTypes ==
  /\ busy \in BOOLEAN /\ watching \in BOOLEAN /\ ctxConn \in BOOLEAN /\ expReader \in BOOLEAN
  /\ listening \in BOOLEAN /\ held \in BOOLEAN /\ present \in BOOLEAN /\ canOpen \in BOOLEAN
  /\ sm \in BOOLEAN /\ accepted \in BOOLEAN /\ changed \in BOOLEAN

QueueTypes == cmds \in Seq(Commands) /\ msgs \in Seq(Messages)

TInv == WordTypes /\ NumberTypes /\ SwitchTypes /\ QueueTypes /\ PaceWanted

LEMMA TypeParts == TInv => TypeOK
BY DEF TypeOK, TInv, WordTypes, NumberTypes, SwitchTypes, QueueTypes, Messages

LEMMA InitTypes == Init => TInv
<1> SUFFICES ASSUME Init PROVE TInv
  OBVIOUS
<1>1. WordTypes /\ PaceWanted
  BY DEF Init, WordTypes, PaceWanted, PaceStates, States, NoPasswords, Outputs, Codes
<1>2. NumberTypes
  BY CounterAssumption, BoundAssumption DEF Init, NumberTypes, Counters
<1>3. SwitchTypes
  BY DEF Init, SwitchTypes
<1>4. QueueTypes
  BY EmptySeq DEF Init, QueueTypes
<1> QED BY <1>1, <1>2, <1>3, <1>4 DEF TInv

(* At most one command of the present state is under way, and only while   *)
(* that state waits for it.                                                *)

Asker == [kind \in OfState |-> CASE kind = "UPDATE_RC" -> "UpdateRetryCounter"
                                 [] kind = "SET_PIN" -> "ChangePin"
                                 [] OTHER -> "EstablishPaceChannel"]

IsOwn(e) == e.kind \in OfState /\ e.mine

Asked(q) == \A i \in DOMAIN q : IsOwn(q[i]) => Waits(Asker[q[i].kind])

Lone(q) == \A i, j \in DOMAIN q : IsOwn(q[i]) /\ IsOwn(q[j]) => i = j

OneAnswer ==
  /\ Asked(cmds) /\ Asked(msgs)
  /\ Lone(cmds) /\ Lone(msgs)
  /\ \A i \in DOMAIN cmds, j \in DOMAIN msgs : ~(IsOwn(cmds[i]) /\ IsOwn(msgs[j]))

LEMMA FirstMessage ==
  ASSUME QueueTypes, msgs # <<>>
  PROVE  /\ Head(msgs) \in Messages /\ Tail(msgs) \in Seq(Messages)
         /\ Head(msgs).mine \in BOOLEAN
         /\ Head(msgs).kind = "changed" => Head(msgs).rc \in Counters
         /\ Head(msgs).kind # "changed" => Head(msgs).code \in Codes
         /\ Asked(msgs) /\ IsOwn(Head(msgs)) => Waits(Asker[Head(msgs).kind])
<1>1. 1 \in DOMAIN msgs /\ Head(msgs) = msgs[1]
  BY HeadTailProperties, LenProperties, EmptySeq DEF QueueTypes
<1>2. Asked(msgs) /\ IsOwn(Head(msgs)) => Waits(Asker[Head(msgs).kind])
  BY <1>1 DEF Asked
<1>3. Head(msgs) \in Messages /\ Tail(msgs) \in Seq(Messages)
  BY FirstOfQueue DEF QueueTypes
<1> QED BY <1>2, <1>3, MessageTypes

LEMMA FirstCommand ==
  ASSUME QueueTypes, cmds # <<>>
  PROVE  /\ Head(cmds) \in Commands /\ Tail(cmds) \in Seq(Commands)
         /\ \A code \in Codes : Answer(code) \in Messages
<1>1. Head(cmds) \in Commands /\ Tail(cmds) \in Seq(Commands)
  BY FirstOfQueue DEF QueueTypes
<1>2. ASSUME NEW code \in Codes PROVE Answer(code) \in Messages
  BY <1>1 DEF Answer, Commands, Messages, Replies
<1> QED BY <1>1, <1>2

LEMMA Posted ==
  ASSUME QueueTypes, NEW kind \in OfState \cup {"CREATE"}, NEW id \in PaceIds \cup {"none"},
         NEW word \in Words \cup {NoWord}, Post(kind, id, word)
  PROVE  cmds' \in Seq(Commands)
<1>1. [kind |-> kind, id |-> id, word |-> word, mine |-> TRUE] \in Commands
  BY DEF Commands
<1> QED BY <1>1, AppendProperties DEF Post, QueueTypes

LEMMA SignalTypes ==
  ASSUME SwitchTypes, NEW rc \in Counters
  PROVE  Signal(rc) \in Messages
BY DEF SwitchTypes, Signal, Signals, Messages

LEMMA ChipTypes ==
  ASSUME NumberTypes, SwitchTypes, NEW id, NEW word
  PROVE  /\ ChipAnswer(id, word).code \in Codes
         /\ ChipAnswer(id, word).rc \in 0 .. FullCounter
         /\ ChipAnswer(id, word).can \in BOOLEAN
<1>1. ChipAnswer(id, word).code \in Codes
  BY DEF ChipAnswer, Codes
<1>2. ChipAnswer(id, word).rc \in 0 .. FullCounter
  BY CounterAssumption DEF ChipAnswer, NumberTypes
<1>3. ChipAnswer(id, word).can \in BOOLEAN
  BY DEF ChipAnswer, SwitchTypes
<1> QED BY <1>1, <1>2, <1>3

(* The states that run and lead on. *)
LEMMA RunTypes ==
  ASSUME TInv, OneAnswer, Run
  PROVE  TInv'
<1>1. WordTypes /\ NumberTypes /\ SwitchTypes /\ QueueTypes /\ PaceWanted
  BY DEF TInv
<1> USE DEF Run, RunStartRemoteService, RunProcessRemoteMessages, RunUpdateRetryCounter,
            RunVerifyRetryCounter, RunPreparePace, Asks, RunEstablishPaceChannel,
            RunEstablishPaceChannelResponse, RunClearPacePasswords, RunPrepareChangePin,
            RunChangePin, RunChangePinResponse, RunStopRemoteService, DropConnection, Runs, Leads,
            OnResetMessageHandler, ResetPacePasswords, ResetCardConnection, NoPasswords,
            UnchangedByStep, controlVars, contextVars, passwordVars, settingVars, serverVars,
            chipVars, worldVars, readerVars, Counters
<1>2. WordTypes'
  BY <1>1, FirstMessage DEF WordTypes, States, Outputs, Codes
<1>3. NumberTypes'
  <2>1. expRc' \in -2 .. FullCounter
    BY <1>1, FirstMessage, CounterAssumption DEF NumberTypes, PaceWanted
  <2>2. rejections' \in Nat
    BY <1>1 DEF NumberTypes
  <2>3. client' \in 0 .. sessions' /\ sessions' \in 0 .. MaxSessions
    BY <1>1, BoundAssumption DEF NumberTypes
  <2>4. connRc' \in Counters /\ rdRc' \in Counters
    BY <1>1, FirstMessage, CounterAssumption DEF NumberTypes
  <2>8. ctxRc' \in Counters
    BY <1>1, FirstMessage, CounterAssumption DEF NumberTypes
  <2>5. moves' \in 0 .. MaxMoves
    BY <1>1, BoundAssumption DEF NumberTypes
  <2>6. failures' \in 0 .. MaxReadFailures /\ stops' \in 0 .. MaxStops
    BY <1>1, BoundAssumption DEF NumberTypes
  <2>7. chipRc' \in 0 .. FullCounter
    BY <1>1, CounterAssumption DEF NumberTypes
  <2> QED BY <2>1, <2>2, <2>3, <2>4, <2>5, <2>6, <2>7, <2>8 DEF NumberTypes
<1>4. PaceWanted'
  BY <1>1, CounterAssumption DEF PaceWanted, PaceStates, NumberTypes
<1>5. SwitchTypes'
  <2>1. busy' \in BOOLEAN /\ watching' \in BOOLEAN /\ listening' \in BOOLEAN
    BY <1>1 DEF SwitchTypes
  <2>2. ctxConn' \in BOOLEAN /\ expReader' \in BOOLEAN
    BY <1>1 DEF SwitchTypes
  <2>3. held' \in BOOLEAN /\ present' \in BOOLEAN
    BY <1>1 DEF SwitchTypes
  <2>4. sm' \in BOOLEAN /\ canOpen' \in BOOLEAN
    BY <1>1 DEF SwitchTypes
  <2>5. accepted' \in BOOLEAN /\ changed' \in BOOLEAN
    BY <1>1 DEF SwitchTypes
  <2> QED BY <2>1, <2>2, <2>3, <2>4, <2>5 DEF SwitchTypes
<1>6. cmds' \in Seq(Commands)
  BY <1>1, DisownedCommands, Posted, IdAssumption
  DEF QueueTypes, WordTypes, PaceWanted, PaceStates, OfState, Secrets
<1>7. msgs' \in Seq(Messages)
  BY <1>1, DisownedMessages, FirstCommand, FirstMessage DEF QueueTypes, OfState
<1> QED BY <1>2, <1>3, <1>4, <1>5, <1>6, <1>7 DEF TInv, QueueTypes

(* Replies and signals. *)
LEMMA DeliverTypes ==
  ASSUME TInv, OneAnswer, Deliver
  PROVE  TInv'
<1>1. WordTypes /\ NumberTypes /\ SwitchTypes /\ QueueTypes /\ PaceWanted
  BY DEF TInv
<1> USE DEF Deliver, DropConnection, AfterPin, DropReply, OnUpdateRetryCounterDone, OnEstablishConnectionDone,
            OnUnblockPinDone, OnChangePinDone, OnCreateCardConnectionCommandDone, OnReaderChanged,
            Arrives, Taken, Goto, ResetPacePasswords, ResetCardConnection, NoPasswords, controlVars,
            contextVars, passwordVars, settingVars, serverVars, chipVars, worldVars, readerVars,
            Counters
<1>2. WordTypes'
  <2>1. st' \in States
    BY <1>1 DEF WordTypes, States
  <2>2. pw' \in [Secrets -> Words \cup {NoWord}]
    BY <1>1 DEF WordTypes
  <2>3. paceMsg' \in PaceIds \cup {"none"}
    BY <1>1 DEF WordTypes
  <2>4. paceOut' \in Outputs /\ modOut' \in Outputs
    BY <1>1, FirstMessage DEF WordTypes, Outputs
  <2> QED BY <2>1, <2>2, <2>3, <2>4 DEF WordTypes
<1>3. NumberTypes'
  <2>1. expRc' \in -2 .. FullCounter
    <3>1. CASE OnEstablishConnectionDone
      <4>1. expRc \in Counters
        BY <1>1, <3>1, FirstMessage DEF PaceWanted, OneAnswer, IsOwn, OfState, Waits, Asker
      <4>2. expRc' \in {expRc, expRc - 1, FullCounter}
        BY <3>1
      <4> QED BY <4>1, <4>2, CounterAssumption
    <3>2. CASE ~OnEstablishConnectionDone
      <4>1. expRc' \in {expRc, -1}
        BY <3>2
      <4>2. expRc \in -2 .. FullCounter /\ FullCounter \in 1 .. 3
        BY <1>1, CounterAssumption DEF NumberTypes
      <4> HIDE DEF Deliver
      <4> QED BY <4>1, <4>2
    <3> QED BY <3>1, <3>2
  <2>2. rejections' \in Nat
    BY <1>1 DEF NumberTypes
  <2>3. client' \in 0 .. sessions' /\ sessions' \in 0 .. MaxSessions
    BY <1>1, BoundAssumption DEF NumberTypes
  <2>4. connRc' \in Counters /\ rdRc' \in Counters
    BY <1>1, FirstMessage, CounterAssumption DEF NumberTypes
  <2>8. ctxRc' \in Counters
    BY <1>1, FirstMessage, CounterAssumption DEF NumberTypes
  <2>5. moves' \in 0 .. MaxMoves
    BY <1>1, BoundAssumption DEF NumberTypes
  <2>6. failures' \in 0 .. MaxReadFailures /\ stops' \in 0 .. MaxStops
    BY <1>1, BoundAssumption DEF NumberTypes
  <2>7. chipRc' \in 0 .. FullCounter
    BY <1>1, CounterAssumption DEF NumberTypes
  <2> QED BY <2>1, <2>2, <2>3, <2>4, <2>5, <2>6, <2>7, <2>8 DEF NumberTypes
<1>4. PaceWanted'
  BY <1>1, FirstMessage, CounterAssumption DEF PaceWanted, PaceStates, NumberTypes, OneAnswer, IsOwn, OfState, Waits, Asker
<1>5. SwitchTypes'
  <2>1. busy' \in BOOLEAN /\ watching' \in BOOLEAN /\ listening' \in BOOLEAN
    BY <1>1 DEF SwitchTypes
  <2>2. ctxConn' \in BOOLEAN /\ expReader' \in BOOLEAN
    BY <1>1 DEF SwitchTypes
  <2>3. held' \in BOOLEAN /\ present' \in BOOLEAN
    BY <1>1 DEF SwitchTypes
  <2>4. sm' \in BOOLEAN /\ canOpen' \in BOOLEAN
    BY <1>1 DEF SwitchTypes
  <2>5. accepted' \in BOOLEAN /\ changed' \in BOOLEAN
    BY <1>1 DEF SwitchTypes
  <2> QED BY <2>1, <2>2, <2>3, <2>4, <2>5 DEF SwitchTypes
<1>6. cmds' \in Seq(Commands)
  BY <1>1, DisownedCommands, FirstCommand DEF QueueTypes, WordTypes, PaceWanted, PaceStates, Commands, OfState, Secrets
<1>7. msgs' \in Seq(Messages)
  BY <1>1, DisownedMessages, FirstCommand, FirstMessage DEF QueueTypes, OfState
<1> QED BY <1>2, <1>3, <1>4, <1>5, <1>6, <1>7 DEF TInv, QueueTypes

(* The client. *)
LEMMA ClientTypes ==
  ASSUME TInv, OneAnswer, Client
  PROVE  TInv'
<1>1. WordTypes /\ NumberTypes /\ SwitchTypes /\ QueueTypes /\ PaceWanted
  BY DEF TInv
<1> USE DEF Client, Connects, Closes, DropConnection, IfdConnect, IfdDisconnect, IfdEstablishPaceChannel,
            IfdModifyPin, IfdTransmitSecured, Goto, Waits, SetEstablishPaceChannelMessage,
            SetCardConnection, OnResetMessageHandler, ResetPacePasswords, ResetCardConnection, NoPasswords,
            controlVars, contextVars, passwordVars, settingVars, serverVars, chipVars, worldVars,
            readerVars, Counters
<1>2. WordTypes'
  <2>1. st' \in States
    BY <1>1 DEF WordTypes, States
  <2>2. pw' \in [Secrets -> Words \cup {NoWord}]
    BY <1>1 DEF WordTypes
  <2>3. paceMsg' \in PaceIds \cup {"none"}
    BY <1>1 DEF WordTypes
  <2>4. paceOut' \in Outputs /\ modOut' \in Outputs
    BY <1>1, FirstMessage DEF WordTypes, Outputs
  <2> QED BY <2>1, <2>2, <2>3, <2>4 DEF WordTypes
<1>3. NumberTypes'
  <2>1. expRc' \in -2 .. FullCounter
    BY <1>1, FirstMessage, CounterAssumption DEF NumberTypes, PaceWanted
  <2>2. rejections' \in Nat
    BY <1>1 DEF NumberTypes
  <2>3. client' \in 0 .. sessions' /\ sessions' \in 0 .. MaxSessions
    <3>1. \/ client' \in {client, 0} /\ sessions' = sessions
          \/ client' = sessions + 1 /\ sessions' = sessions + 1 /\ sessions < MaxSessions
      OBVIOUS
    <3> QED BY <1>1, <3>1, BoundAssumption, SMTT(30) DEF NumberTypes
  <2>4. connRc' \in Counters /\ rdRc' \in Counters
    BY <1>1, FirstMessage, CounterAssumption DEF NumberTypes
  <2>8. ctxRc' \in Counters
    BY <1>1, FirstMessage, CounterAssumption DEF NumberTypes
  <2>5. moves' \in 0 .. MaxMoves
    BY <1>1, BoundAssumption DEF NumberTypes
  <2>6. failures' \in 0 .. MaxReadFailures /\ stops' \in 0 .. MaxStops
    BY <1>1, BoundAssumption DEF NumberTypes
  <2>7. chipRc' \in 0 .. FullCounter
    BY <1>1, CounterAssumption DEF NumberTypes
  <2> QED BY <2>1, <2>2, <2>3, <2>4, <2>5, <2>6, <2>7, <2>8 DEF NumberTypes
<1>4. PaceWanted'
  BY <1>1, CounterAssumption DEF PaceWanted, PaceStates, NumberTypes
<1>5. SwitchTypes'
  <2>1. busy' \in BOOLEAN /\ watching' \in BOOLEAN /\ listening' \in BOOLEAN
    BY <1>1 DEF SwitchTypes
  <2>2. ctxConn' \in BOOLEAN /\ expReader' \in BOOLEAN
    BY <1>1 DEF SwitchTypes
  <2>3. held' \in BOOLEAN /\ present' \in BOOLEAN
    BY <1>1 DEF SwitchTypes
  <2>4. sm' \in BOOLEAN /\ canOpen' \in BOOLEAN
    BY <1>1 DEF SwitchTypes
  <2>5. accepted' \in BOOLEAN /\ changed' \in BOOLEAN
    BY <1>1 DEF SwitchTypes
  <2> QED BY <2>1, <2>2, <2>3, <2>4, <2>5 DEF SwitchTypes
<1>6. cmds' \in Seq(Commands)
  BY <1>1, DisownedCommands, Posted, IdAssumption
  DEF QueueTypes, WordTypes, PaceWanted, PaceStates, OfState, Secrets
<1>7. msgs' \in Seq(Messages)
  <2>1. msgs \in Seq(Messages) /\ (msgs' \in {msgs, Disown(msgs, {"CREATE"})} \/ SetCardConnection)
    BY <1>1 DEF QueueTypes
  <2> QED BY <2>1, DisownedMessages, AdoptedMessages
<1> QED BY <1>2, <1>3, <1>4, <1>5, <1>6, <1>7 DEF TInv, QueueTypes

(* The user. *)
LEMMA UserTypes ==
  ASSUME TInv, OneAnswer, User
  PROVE  TInv'
<1>1. WordTypes /\ NumberTypes /\ SwitchTypes /\ QueueTypes /\ PaceWanted
  BY DEF TInv
<1> USE DEF User, EnterPacePassword, EnterNewPacePin, CancelPasswordRequest, Stop, CancelOutput,
            Goto, Waits, controlVars, contextVars, passwordVars, settingVars, serverVars, chipVars,
            worldVars, readerVars, Counters
<1>2. WordTypes'
  <2>1. st' \in States
    BY <1>1 DEF WordTypes, States
  <2>2. pw' \in [Secrets -> Words \cup {NoWord}]
    BY <1>1, IdAssumption DEF WordTypes, Secrets, Words
  <2>3. paceMsg' \in PaceIds \cup {"none"} /\ paceOut' \in Outputs /\ modOut' \in Outputs
    BY <1>1 DEF WordTypes, Outputs, Codes
  <2> QED BY <2>1, <2>2, <2>3 DEF WordTypes
<1>3. NumberTypes'
  <2>1. expRc' \in -2 .. FullCounter
    BY <1>1, FirstMessage, CounterAssumption DEF NumberTypes, PaceWanted
  <2>2. rejections' \in Nat
    BY <1>1 DEF NumberTypes
  <2>3. client' \in 0 .. sessions' /\ sessions' \in 0 .. MaxSessions
    BY <1>1, BoundAssumption DEF NumberTypes
  <2>4. connRc' \in Counters /\ rdRc' \in Counters
    BY <1>1, FirstMessage, CounterAssumption DEF NumberTypes
  <2>8. ctxRc' \in Counters
    BY <1>1, FirstMessage, CounterAssumption DEF NumberTypes
  <2>5. moves' \in 0 .. MaxMoves
    BY <1>1, BoundAssumption DEF NumberTypes
  <2>6. failures' \in 0 .. MaxReadFailures /\ stops' \in 0 .. MaxStops
    BY <1>1, BoundAssumption DEF NumberTypes
  <2>7. chipRc' \in 0 .. FullCounter
    BY <1>1, CounterAssumption DEF NumberTypes
  <2> QED BY <2>1, <2>2, <2>3, <2>4, <2>5, <2>6, <2>7, <2>8 DEF NumberTypes
<1>4. PaceWanted'
  BY <1>1, CounterAssumption DEF PaceWanted, PaceStates, NumberTypes
<1>5. SwitchTypes'
  <2>1. busy' \in BOOLEAN /\ watching' \in BOOLEAN /\ listening' \in BOOLEAN
    BY <1>1 DEF SwitchTypes
  <2>2. ctxConn' \in BOOLEAN /\ expReader' \in BOOLEAN
    BY <1>1 DEF SwitchTypes
  <2>3. held' \in BOOLEAN /\ present' \in BOOLEAN
    BY <1>1 DEF SwitchTypes
  <2>4. sm' \in BOOLEAN /\ canOpen' \in BOOLEAN
    BY <1>1 DEF SwitchTypes
  <2>5. accepted' \in BOOLEAN /\ changed' \in BOOLEAN
    BY <1>1 DEF SwitchTypes
  <2> QED BY <2>1, <2>2, <2>3, <2>4, <2>5 DEF SwitchTypes
<1>6. cmds' \in Seq(Commands)
  BY <1>1, DisownedCommands DEF QueueTypes
<1>7. msgs' \in Seq(Messages)
  BY <1>1, DisownedMessages, FirstCommand, FirstMessage DEF QueueTypes, OfState
<1> QED BY <1>2, <1>3, <1>4, <1>5, <1>6, <1>7 DEF TInv, QueueTypes

(* The reader thread leaves the counter of the chip between 0 and full.    *)
LEMMA CounterStays ==
  ASSUME NumberTypes, SwitchTypes, ReaderThread
  PROVE  chipRc' \in 0 .. FullCounter
<1>1. chipRc \in 0 .. FullCounter
  BY DEF NumberTypes
<1>2. FullCounter \in 0 .. FullCounter
  BY CounterAssumption
<1>3. ASSUME NEW id, NEW word, ChipWorks(id, word) PROVE chipRc' \in 0 .. FullCounter
  BY <1>3, ChipTypes DEF ChipWorks
<1>4. CASE ExecuteEstablishPaceChannel
  BY <1>1, <1>3, <1>4 DEF ExecuteEstablishPaceChannel, chipVars
<1>5. CASE ExecuteUnblockPin
  BY <1>1, <1>2, <1>3, <1>5 DEF ExecuteUnblockPin, chipVars
<1>6. CASE ExecuteCreate \/ ExecuteUpdateRetryCounter \/ ExecuteSetEidPin
  BY <1>1, <1>6 DEF ExecuteCreate, ExecuteUpdateRetryCounter, ExecuteSetEidPin, chipVars
<1> QED BY <1>4, <1>5, <1>6 DEF ReaderThread

(* The reader thread. *)
LEMMA ReaderThreadTypes ==
  ASSUME TInv, OneAnswer, ReaderThread
  PROVE  TInv'
<1>1. WordTypes /\ NumberTypes /\ SwitchTypes /\ QueueTypes /\ PaceWanted
  BY DEF TInv
<1> USE DEF ReaderThread, ExecuteCreate, ExecuteUpdateRetryCounter, ExecuteEstablishPaceChannel,
            ExecuteUnblockPin, ExecuteSetEidPin, Executes, Answer, Finish,
            ChipWorks, controlVars, contextVars, passwordVars, settingVars, serverVars, chipVars,
            worldVars, readerVars, Counters
<1>2. WordTypes'
  BY <1>1, FirstMessage DEF WordTypes, States, Outputs, Codes
<1>3. NumberTypes'
  <2>1. expRc' \in -2 .. FullCounter
    BY <1>1, ChipTypes, CounterAssumption DEF NumberTypes, PaceWanted
  <2>2. rejections' \in Nat
    BY <1>1, ChipTypes DEF NumberTypes
  <2>3. client' \in 0 .. sessions' /\ sessions' \in 0 .. MaxSessions
    BY <1>1, BoundAssumption DEF NumberTypes
  <2>4. connRc' \in Counters /\ rdRc' \in Counters
    BY <1>1, ChipTypes, CounterAssumption DEF NumberTypes
  <2>8. ctxRc' \in Counters
    BY <1>1, ChipTypes, CounterAssumption DEF NumberTypes
  <2>5. moves' \in 0 .. MaxMoves
    BY <1>1, BoundAssumption DEF NumberTypes
  <2>6. failures' \in 0 .. MaxReadFailures /\ stops' \in 0 .. MaxStops
    BY <1>1, BoundAssumption DEF NumberTypes
  <2>7. chipRc' \in 0 .. FullCounter
    BY <1>1, CounterStays
  <2> QED BY <2>1, <2>2, <2>3, <2>4, <2>5, <2>6, <2>7, <2>8 DEF NumberTypes
<1>4. PaceWanted'
  BY <1>1, CounterAssumption DEF PaceWanted, PaceStates, NumberTypes
<1>5. SwitchTypes'
  <2>1. busy' \in BOOLEAN /\ watching' \in BOOLEAN /\ listening' \in BOOLEAN
    BY <1>1 DEF SwitchTypes
  <2>2. ctxConn' \in BOOLEAN /\ expReader' \in BOOLEAN
    BY <1>1 DEF SwitchTypes
  <2>3. held' \in BOOLEAN /\ present' \in BOOLEAN
    BY <1>1 DEF SwitchTypes
  <2>4. sm' \in BOOLEAN /\ canOpen' \in BOOLEAN
    <3>1. sm' \in BOOLEAN
      BY <1>1 DEF SwitchTypes
    <3>2. canOpen' \in BOOLEAN
      BY <1>1, ChipTypes DEF SwitchTypes
    <3> QED BY <3>1, <3>2
  <2>5. accepted' \in BOOLEAN /\ changed' \in BOOLEAN
    BY <1>1 DEF SwitchTypes
  <2> QED BY <2>1, <2>2, <2>3, <2>4, <2>5 DEF SwitchTypes
<1>6. cmds' \in Seq(Commands)
  BY <1>1, DisownedCommands, FirstCommand DEF QueueTypes, WordTypes, PaceWanted, PaceStates, Commands, OfState, Secrets
<1>7. msgs' \in Seq(Messages)
  <2>1. msgs \in Seq(Messages)
    BY <1>1 DEF QueueTypes
  <2>2. ASSUME NEW code \in Codes, Finish(code), cmds # <<>> PROVE msgs' \in Seq(Messages)
    BY <1>1, <2>1, <2>2, FirstCommand, AppendProperties
  <2>3. CASE ExecuteUpdateRetryCounter
    <3>1. chipRc \in Counters
      BY <1>1 DEF NumberTypes
    <3>2. Signal(chipRc) \in Messages
      BY <1>1, <3>1, SignalTypes
    <3>3. cmds # <<>> => Answer("OK") \in Messages /\ Answer("FAILED") \in Messages
      BY <1>1, FirstCommand DEF Codes
    <3>4. CASE Finish("FAILED")
      BY <2>2, <2>3, <3>4 DEF Codes
    <3>5. CASE /\ cmds # <<>>
               /\ msgs' = msgs \o (IF rdRc \in {-1, chipRc} THEN <<>> ELSE <<Signal(chipRc)>>) \o <<Answer("OK")>>
      BY <2>1, <3>2, <3>3, <3>5, TwoMore
    <3> QED BY <2>3, <3>4, <3>5
  <2>4. CASE ExecuteCreate \/ ExecuteSetEidPin
    BY <2>2, <2>4 DEF Codes
  <2>5. CASE ExecuteEstablishPaceChannel \/ ExecuteUnblockPin
    BY <1>1, <2>2, <2>5, ChipTypes DEF Codes
  <2> QED BY <2>3, <2>4, <2>5
<1> QED BY <1>2, <1>3, <1>4, <1>5, <1>6, <1>7 DEF TInv, QueueTypes

(* The card. *)
LEMMA WorldTypes ==
  ASSUME TInv, OneAnswer, PutCard \/ TakeCard
  PROVE  TInv'
<1>1. WordTypes /\ NumberTypes /\ SwitchTypes /\ QueueTypes /\ PaceWanted
  BY DEF TInv
<1> USE DEF PutCard, TakeCard, controlVars, contextVars, passwordVars, settingVars,
            serverVars, chipVars, worldVars, readerVars, Counters
<1>2. WordTypes'
  BY <1>1, FirstMessage DEF WordTypes, States, Outputs, Codes
<1>3. NumberTypes'
  <2>1. expRc' \in -2 .. FullCounter
    BY <1>1, FirstMessage, CounterAssumption DEF NumberTypes, PaceWanted
  <2>2. rejections' \in Nat
    BY <1>1 DEF NumberTypes
  <2>3. client' \in 0 .. sessions' /\ sessions' \in 0 .. MaxSessions
    BY <1>1, BoundAssumption DEF NumberTypes
  <2>4. connRc' \in Counters /\ rdRc' \in Counters
    BY <1>1, FirstMessage, CounterAssumption DEF NumberTypes
  <2>8. ctxRc' \in Counters
    BY <1>1, FirstMessage, CounterAssumption DEF NumberTypes
  <2>5. moves' \in 0 .. MaxMoves
    BY <1>1, BoundAssumption DEF NumberTypes
  <2>6. failures' \in 0 .. MaxReadFailures /\ stops' \in 0 .. MaxStops
    <3>1. stops' = stops /\ (failures' = failures \/ (failures < MaxReadFailures /\ failures' = failures + 1))
      OBVIOUS
    <3> QED BY <1>1, <3>1, BoundAssumption DEF NumberTypes
  <2>7. chipRc' \in 0 .. FullCounter
    BY <1>1, CounterAssumption DEF NumberTypes
  <2> QED BY <2>1, <2>2, <2>3, <2>4, <2>5, <2>6, <2>7, <2>8 DEF NumberTypes
<1>4. PaceWanted'
  BY <1>1, CounterAssumption DEF PaceWanted, PaceStates, NumberTypes
<1>5. SwitchTypes'
  <2>1. busy' \in BOOLEAN /\ watching' \in BOOLEAN /\ listening' \in BOOLEAN
    BY <1>1 DEF SwitchTypes
  <2>2. ctxConn' \in BOOLEAN /\ expReader' \in BOOLEAN
    BY <1>1 DEF SwitchTypes
  <2>3. held' \in BOOLEAN /\ present' \in BOOLEAN
    BY <1>1 DEF SwitchTypes
  <2>4. sm' \in BOOLEAN /\ canOpen' \in BOOLEAN
    BY <1>1 DEF SwitchTypes
  <2>5. accepted' \in BOOLEAN /\ changed' \in BOOLEAN
    BY <1>1 DEF SwitchTypes
  <2> QED BY <2>1, <2>2, <2>3, <2>4, <2>5 DEF SwitchTypes
<1>6. cmds' \in Seq(Commands)
  BY <1>1, DisownedCommands, FirstCommand DEF QueueTypes, WordTypes, PaceWanted, PaceStates, Commands, OfState, Secrets
<1>7. msgs' \in Seq(Messages)
  <2>1. rdRc' \in Counters /\ msgs' = Append(msgs, Signal(rdRc'))
    BY <1>3 DEF NumberTypes
  <2>2. Signal(rdRc') \in Messages
    BY <1>1, <2>1, SignalTypes
  <2> QED BY <1>1, <2>1, <2>2, AppendProperties DEF QueueTypes
<1> QED BY <1>2, <1>3, <1>4, <1>5, <1>6, <1>7 DEF TInv, QueueTypes

-----------------------------------------------------------------------------
(* One answer at a time.                                                   *)

Nobody == /\ \A i \in DOMAIN cmds : ~IsOwn(cmds[i])
          /\ \A j \in DOMAIN msgs : ~IsOwn(msgs[j])

Asking == busy /\ st \in {"UpdateRetryCounter", "EstablishPaceChannel", "ChangePin"}

SameState == st' = st /\ busy' = busy

LEMMA NobodyAsks ==
  ASSUME OneAnswer, ~Asking
  PROVE  Nobody
<1>1. \A kind \in OfState : ~Waits(Asker[kind])
  BY DEF OfState, Asker, Waits, Asking
<1> QED BY <1>1 DEF OneAnswer, Asked, Nobody, IsOwn

LEMMA NobodyIsOne == Nobody' => OneAnswer'
BY DEF Nobody, OneAnswer, Asked, Lone

LEMMA Stays ==
  ASSUME OneAnswer, SameState, UNCHANGED <<cmds, msgs>>
  PROVE  OneAnswer'
BY DEF OneAnswer, Asked, Lone, SameState, Waits

LEMMA InTail ==
  ASSUME NEW S, NEW q \in Seq(S), q # <<>>
  PROVE  /\ 1 \in DOMAIN q /\ Head(q) = q[1]
         /\ \A i \in DOMAIN Tail(q) : /\ i + 1 \in DOMAIN q /\ Tail(q)[i] = q[i + 1]
                                      /\ i \in Nat /\ i + 1 # 1
<1>1. Len(Tail(q)) = Len(q) - 1 /\ \A i \in 1 .. Len(Tail(q)) : Tail(q)[i] = q[i + 1]
  BY HeadTailProperties
<1>2. /\ DOMAIN q = 1 .. Len(q) /\ DOMAIN Tail(q) = 1 .. (Len(q) - 1)
      /\ Len(q) \in Nat \ {0}
  BY <1>1, LenProperties, EmptySeq, HeadTailProperties
<1> QED BY <1>1, <1>2

LEMMA InAppended ==
  ASSUME NEW S, NEW q \in Seq(S), NEW e \in S
  PROVE  \A i \in DOMAIN Append(q, e) :
           \/ i \in DOMAIN q /\ Append(q, e)[i] = q[i]
           \/ i = Len(q) + 1 /\ Append(q, e)[i] = e
<1>1. /\ Len(Append(q, e)) = Len(q) + 1
      /\ \A i \in 1 .. Len(q) : Append(q, e)[i] = q[i]
      /\ Append(q, e)[Len(q) + 1] = e
      /\ Append(q, e) \in Seq(S)
  BY AppendProperties
<1>2. DOMAIN Append(q, e) = 1 .. (Len(q) + 1) /\ DOMAIN q = 1 .. Len(q) /\ Len(q) \in Nat
  BY <1>1, LenProperties
<1> QED BY <1>1, <1>2

(* What is left of the queue when its first event is taken: a new card     *)
(* connection hears no signal that waits.                                  *)
LEMMA TakenOff ==
  ASSUME QueueTypes, msgs # <<>>, Taken \/ msgs' = Disown(Tail(msgs), {"changed"})
  PROVE  /\ 1 \in DOMAIN msgs /\ Head(msgs) = msgs[1]
         /\ \A i \in DOMAIN msgs' :
              /\ i + 1 \in DOMAIN msgs /\ i \in Nat /\ i + 1 # 1
              /\ msgs'[i] \in {msgs[i + 1], [msgs[i + 1] EXCEPT !.mine = FALSE]}
              /\ msgs'[i].kind = msgs[i + 1].kind
              /\ msgs[i + 1].kind # "changed" => msgs'[i] = msgs[i + 1]
<1>1. /\ 1 \in DOMAIN msgs /\ Head(msgs) = msgs[1]
      /\ \A i \in DOMAIN Tail(msgs) : /\ i + 1 \in DOMAIN msgs /\ Tail(msgs)[i] = msgs[i + 1]
                                      /\ i \in Nat /\ i + 1 # 1
  BY InTail DEF QueueTypes
<1>2. ASSUME NEW e \in Messages PROVE [e EXCEPT !.mine = FALSE].kind = e.kind
  BY <1>2 DEF Messages, Replies, Signals
<1>3. \A i \in DOMAIN msgs : msgs[i] \in Messages
  BY DEF QueueTypes
<1>4. CASE Taken
  BY <1>1, <1>4 DEF Taken
<1>5. CASE msgs' = Disown(Tail(msgs), {"changed"})
  BY <1>1, <1>2, <1>3, <1>5 DEF Disown
<1> QED BY <1>4, <1>5

(* A reply that is delivered leaves nothing under way, any other event     *)
(* leaves things as they are.                                              *)
LEMMA Delivered ==
  ASSUME QueueTypes, OneAnswer, msgs # <<>>, Taken \/ msgs' = Disown(Tail(msgs), {"changed"}),
         cmds' = cmds
  PROVE  /\ IsOwn(Head(msgs)) => Nobody'
         /\ SameState => OneAnswer'
<1>1. /\ 1 \in DOMAIN msgs /\ Head(msgs) = msgs[1]
      /\ \A i \in DOMAIN msgs' : /\ i + 1 \in DOMAIN msgs /\ i \in Nat /\ i + 1 # 1
                                 /\ IsOwn(msgs'[i]) => IsOwn(msgs[i + 1])
                                 /\ msgs'[i].kind = msgs[i + 1].kind
  BY TakenOff DEF IsOwn, OfState
<1>2. ASSUME IsOwn(Head(msgs)) PROVE Nobody'
  <2>1. \A i \in DOMAIN msgs' : ~IsOwn(msgs'[i])
    BY <1>1, <1>2 DEF OneAnswer, Lone
  <2>2. \A i \in DOMAIN cmds : ~IsOwn(cmds[i])
    BY <1>1, <1>2 DEF OneAnswer
  <2> QED BY <2>1, <2>2 DEF Nobody
<1>3. ASSUME SameState PROVE OneAnswer'
  <2>1. Asked(cmds)' /\ Lone(cmds)'
    BY <1>3 DEF OneAnswer, Asked, Lone, SameState, Waits
  <2>2. Asked(msgs)'
    BY <1>1, <1>3 DEF OneAnswer, Asked, SameState, Waits
  <2>3. Lone(msgs)'
    <3>1. SUFFICES ASSUME NEW i \in DOMAIN msgs', NEW j \in DOMAIN msgs', IsOwn(msgs'[i]), IsOwn(msgs'[j])
                   PROVE  i = j
      BY DEF Lone
    <3>2. i + 1 = j + 1
      BY <1>1, <3>1 DEF OneAnswer, Lone
    <3> QED BY <1>1, <3>2
  <2>4. \A i \in DOMAIN cmds', j \in DOMAIN msgs' : ~(IsOwn(cmds'[i]) /\ IsOwn(msgs'[j]))
    BY <1>1 DEF OneAnswer
  <2> QED BY <2>1, <2>2, <2>3, <2>4 DEF OneAnswer
<1> QED BY <1>2, <1>3

LEMMA PostedOne ==
  ASSUME QueueTypes, Nobody, msgs' = msgs,
         NEW kind \in OfState \cup {"CREATE"}, NEW id \in PaceIds \cup {"none"},
         NEW word \in Words \cup {NoWord}, Post(kind, id, word)
  PROVE  (kind \in OfState => Waits(Asker[kind])') => OneAnswer'
<1> DEFINE e == [kind |-> kind, id |-> id, word |-> word, mine |-> TRUE]
<1>1. e \in Commands /\ e.kind = kind
  BY DEF Commands
<1>2. cmds' = Append(cmds, e)
  BY DEF Post
<1> HIDE DEF e
<1>3. \A i \in DOMAIN cmds' : \/ i \in DOMAIN cmds /\ cmds'[i] = cmds[i]
                              \/ i = Len(cmds) + 1 /\ cmds'[i] = e
  BY <1>1, <1>2, InAppended DEF QueueTypes
<1>4. \A j \in DOMAIN msgs' : ~IsOwn(msgs'[j])
  BY DEF Nobody
<1>5. \A i \in DOMAIN cmds' : IsOwn(cmds'[i]) => i = Len(cmds) + 1 /\ cmds'[i] = e /\ kind \in OfState
  BY <1>1, <1>3 DEF Nobody, IsOwn
<1> QED BY <1>1, <1>4, <1>5 DEF OneAnswer, Asked, Lone

(* An executed command hands its place over to its answer; what else the   *)
(* reader thread posts belongs to nobody.                                  *)
LEMMA PostedNews ==
  ASSUME QueueTypes, OneAnswer, SameState, cmds' = cmds,
         NEW e \in Messages, ~IsOwn(e), msgs' = Append(msgs, e)
  PROVE  OneAnswer'
<1>1. \A i \in DOMAIN msgs' : \/ i \in DOMAIN msgs /\ msgs'[i] = msgs[i]
                              \/ msgs'[i] = e
  BY InAppended DEF QueueTypes
<1>2. \A i \in DOMAIN msgs' : IsOwn(msgs'[i]) => i \in DOMAIN msgs /\ msgs'[i] = msgs[i]
  BY <1>1
<1> QED BY <1>2 DEF OneAnswer, Asked, Lone, SameState, Waits

LEMMA Executed ==
  ASSUME QueueTypes, OneAnswer, SameState, cmds # <<>>, NEW code \in Codes, NEW q \in Seq(Messages),
         \A j \in DOMAIN q : IsOwn(q[j]) => j \in DOMAIN msgs /\ q[j] = msgs[j],
         cmds' = Tail(cmds), msgs' = Append(q, Answer(code))
  PROVE  OneAnswer'
<1>1. /\ 1 \in DOMAIN cmds /\ Head(cmds) = cmds[1]
      /\ \A i \in DOMAIN cmds' : i + 1 \in DOMAIN cmds /\ cmds'[i] = cmds[i + 1] /\ i \in Nat /\ i + 1 # 1
  BY InTail DEF QueueTypes
<1>2. Answer(code) \in Messages /\ (IsOwn(Answer(code)) <=> IsOwn(Head(cmds)))
      /\ Answer(code).kind = Head(cmds).kind
  BY FirstCommand DEF Answer, IsOwn
<1>3. \A j \in DOMAIN msgs' :
        \/ j \in DOMAIN q /\ msgs'[j] = q[j]
        \/ j = Len(q) + 1 /\ msgs'[j] = Answer(code)
  BY <1>2, InAppended
<1>4. Asked(cmds)' /\ Lone(cmds)'
  <2>1. Asked(cmds)'
    BY <1>1 DEF OneAnswer, Asked, SameState, Waits
  <2>2. ASSUME NEW i \in DOMAIN cmds', NEW j \in DOMAIN cmds', IsOwn(cmds'[i]), IsOwn(cmds'[j])
        PROVE  i = j
    <3>1. i + 1 = j + 1
      BY <1>1, <2>2 DEF OneAnswer, Lone
    <3> QED BY <1>1, <3>1
  <2> QED BY <2>1, <2>2 DEF Lone
<1>5. CASE ~IsOwn(Head(cmds))
  <2>1. \A j \in DOMAIN msgs' : IsOwn(msgs'[j]) => j \in DOMAIN msgs /\ msgs'[j] = msgs[j]
    BY <1>2, <1>3, <1>5
  <2>2. Asked(msgs)' /\ Lone(msgs)'
    BY <2>1 DEF OneAnswer, Asked, Lone, SameState, Waits
  <2>3. \A i \in DOMAIN cmds', j \in DOMAIN msgs' : ~(IsOwn(cmds'[i]) /\ IsOwn(msgs'[j]))
    BY <1>1, <2>1 DEF OneAnswer
  <2> QED BY <1>4, <2>2, <2>3 DEF OneAnswer
<1>6. CASE IsOwn(Head(cmds))
  <2>1. \A j \in DOMAIN msgs' : IsOwn(msgs'[j]) => j = Len(q) + 1 /\ msgs'[j] = Answer(code)
    BY <1>1, <1>3, <1>6 DEF OneAnswer
  <2>2. busy' /\ st' = Asker[Head(cmds).kind]
    BY <1>1, <1>6 DEF OneAnswer, Asked, SameState, Waits
  <2>3. Asked(msgs)' /\ Lone(msgs)'
    BY <1>2, <2>1, <2>2 DEF Asked, Lone, Waits
  <2>4. \A i \in DOMAIN cmds' : ~IsOwn(cmds'[i])
    BY <1>1, <1>6 DEF OneAnswer, Lone
  <2> QED BY <1>4, <2>3, <2>4 DEF OneAnswer
<1> QED BY <1>5, <1>6

(* A state that is left, a handler that goes.                              *)
LEMMA DisownedAll ==
  ASSUME QueueTypes, cmds' = Disown(cmds, OfState), msgs' = Disown(msgs, OfState)
  PROVE  Nobody'
<1>1. \A i \in DOMAIN cmds' : ~IsOwn(cmds'[i])
  <2>1. SUFFICES ASSUME NEW i \in DOMAIN cmds, IsOwn(Disown(cmds, OfState)[i]) PROVE FALSE
    BY DEF Disown
  <2>2. cmds[i] \in Commands
    BY DEF QueueTypes
  <2> QED BY <2>1, <2>2 DEF Disown, IsOwn, Commands
<1>2. \A j \in DOMAIN msgs' : ~IsOwn(msgs'[j])
  <2>1. SUFFICES ASSUME NEW j \in DOMAIN msgs, IsOwn(Disown(msgs, OfState)[j]) PROVE FALSE
    BY DEF Disown
  <2>2. msgs[j] \in Messages
    BY DEF QueueTypes
  <2> QED BY <2>1, <2>2 DEF Disown, IsOwn, Messages, Replies, Signals
<1> QED BY <1>1, <1>2 DEF Nobody

LEMMA DisownedCreate ==
  ASSUME QueueTypes, OneAnswer,
         cmds' = Disown(cmds, {"CREATE"}), msgs' = Disown(msgs, {"CREATE"})
  PROVE  /\ SameState => OneAnswer'
         /\ Nobody => Nobody'
<1>1. DOMAIN cmds' = DOMAIN cmds /\ DOMAIN msgs' = DOMAIN msgs
  BY DEF Disown
<1>2. \A i \in DOMAIN cmds : (IsOwn(cmds'[i]) <=> IsOwn(cmds[i])) /\ cmds'[i].kind = cmds[i].kind
  <2>1. SUFFICES ASSUME NEW i \in DOMAIN cmds
                 PROVE  (IsOwn(cmds'[i]) <=> IsOwn(cmds[i])) /\ cmds'[i].kind = cmds[i].kind
    OBVIOUS
  <2>2. cmds[i] \in Commands
    BY DEF QueueTypes
  <2> QED BY <2>1, <2>2 DEF Disown, IsOwn, Commands, OfState
<1>3. \A j \in DOMAIN msgs : (IsOwn(msgs'[j]) <=> IsOwn(msgs[j])) /\ msgs'[j].kind = msgs[j].kind
  <2>1. SUFFICES ASSUME NEW j \in DOMAIN msgs
                 PROVE  (IsOwn(msgs'[j]) <=> IsOwn(msgs[j])) /\ msgs'[j].kind = msgs[j].kind
    OBVIOUS
  <2>2. msgs[j] \in Messages
    BY DEF QueueTypes
  <2> QED BY <2>1, <2>2 DEF Disown, IsOwn, Messages, Replies, Signals, OfState
<1>4. SameState => OneAnswer'
  BY <1>1, <1>2, <1>3 DEF OneAnswer, Asked, Lone, SameState, Waits
<1>5. Nobody => Nobody'
  BY <1>1, <1>2, <1>3 DEF Nobody
<1> QED BY <1>4, <1>5

(* The context takes over a card connection. *)
LEMMA Adopted ==
  ASSUME QueueTypes, SetCardConnection
  PROVE  /\ DOMAIN msgs' = DOMAIN msgs
         /\ \A i \in DOMAIN msgs :
              /\ msgs[i].kind # "changed" => msgs'[i] = msgs[i]
              /\ msgs[i].kind = "changed" =>
                   /\ msgs'[i].kind = "changed" /\ msgs'[i].rc = msgs[i].rc
                   /\ msgs'[i].mine = msgs[i].mine /\ msgs'[i].ctx = msgs[i].mine
              /\ IsOwn(msgs'[i]) => msgs'[i] = msgs[i]
<1>1. \A i \in DOMAIN msgs : msgs[i] \in Messages
  BY DEF QueueTypes
<1>2. ASSUME NEW e \in Messages, e.kind = "changed"
      PROVE  [e EXCEPT !.ctx = e.mine] = [kind |-> "changed", rc |-> e.rc, mine |-> e.mine, ctx |-> e.mine]
  BY <1>2 DEF Messages, Replies, Signals, OfState
<1> QED BY <1>1, <1>2 DEF SetCardConnection, IsOwn, OfState

LEMMA NobodyAdopts ==
  ASSUME QueueTypes, Nobody, SetCardConnection, cmds' = cmds
  PROVE  Nobody'
BY Adopted DEF Nobody

LEMMA RunOne ==
  ASSUME TInv, OneAnswer, Run
  PROVE  OneAnswer'
<1>1. Nobody
  <2>1. ~busy
    BY DEF Run, RunStartRemoteService, RunProcessRemoteMessages, RunUpdateRetryCounter,
           RunVerifyRetryCounter, RunPreparePace, Asks, RunEstablishPaceChannel,
           RunEstablishPaceChannelResponse, RunClearPacePasswords, RunPrepareChangePin, RunChangePin,
           RunChangePinResponse, RunStopRemoteService, Runs, Leads
  <2> QED BY <2>1, NobodyAsks DEF Asking
<1>2. ASSUME UNCHANGED <<cmds, msgs>> PROVE OneAnswer'
  BY <1>1, <1>2, NobodyIsOne DEF Nobody
<1>3. CASE RunUpdateRetryCounter /\ ctxConn
  BY <1>1, <1>3, PostedOne DEF RunUpdateRetryCounter, OfState, Runs, Waits, Asker, TInv
<1>4. CASE RunEstablishPaceChannel /\ ctxConn
  <2>1. paceMsg \in PaceIds /\ pw[paceMsg] \in Words \cup {NoWord}
    BY <1>4, IdAssumption
       DEF RunEstablishPaceChannel, Runs, TInv, PaceWanted, PaceStates, WordTypes, Secrets
  <2> QED BY <1>1, <1>4, <2>1, PostedOne DEF RunEstablishPaceChannel, OfState, Runs, Waits, Asker, TInv
<1>5. CASE RunChangePin /\ ctxConn
  <2>1. pw["NEW_PIN"] \in Words \cup {NoWord}
    BY DEF TInv, WordTypes, Secrets
  <2> QED BY <1>1, <1>5, <2>1, PostedOne DEF RunChangePin, OfState, Runs, Waits, Asker, TInv
<1>6. CASE RunStopRemoteService
  BY <1>1, <1>6, DisownedCreate, NobodyIsOne DEF RunStopRemoteService, TInv
<1>7. CASE \/ (RunUpdateRetryCounter \/ RunEstablishPaceChannel \/ RunChangePin) /\ ~ctxConn
           \/ RunStartRemoteService \/ RunProcessRemoteMessages \/ RunVerifyRetryCounter
           \/ RunPreparePace \/ Asks("EnterPacePassword") \/ RunEstablishPaceChannelResponse
           \/ RunClearPacePasswords \/ RunPrepareChangePin \/ Asks("EnterNewPacePin")
           \/ RunChangePinResponse
  <2>1. UNCHANGED <<cmds, msgs>>
    BY <1>7 DEF RunStartRemoteService, RunProcessRemoteMessages, RunUpdateRetryCounter,
           RunVerifyRetryCounter, RunPreparePace, Asks, RunEstablishPaceChannel,
           RunEstablishPaceChannelResponse, RunClearPacePasswords, RunPrepareChangePin, RunChangePin,
           RunChangePinResponse, UnchangedByStep, readerVars
  <2> QED BY <1>2, <2>1
<1> QED BY <1>3, <1>4, <1>5, <1>6, <1>7 DEF Run

LEMMA DeliverOne ==
  ASSUME TInv, OneAnswer, Deliver
  PROVE  OneAnswer'
<1>1. QueueTypes /\ (Taken \/ msgs' = Disown(Tail(msgs), {"changed"})) /\ msgs # <<>> /\ cmds' = cmds
  BY DEF TInv, Deliver, DropReply, OnUpdateRetryCounterDone, OnEstablishConnectionDone, OnUnblockPinDone,
         OnChangePinDone, OnCreateCardConnectionCommandDone, OnReaderChanged, Arrives
<1>2. CASE DropReply \/ OnCreateCardConnectionCommandDone \/ OnReaderChanged
  <2>1. SameState
    BY <1>2 DEF DropReply, OnCreateCardConnectionCommandDone, OnReaderChanged, SameState, controlVars
  <2> QED BY <1>1, <2>1, Delivered
<1>3. CASE OnUpdateRetryCounterDone \/ OnEstablishConnectionDone \/ OnUnblockPinDone \/ OnChangePinDone
  <2>1. IsOwn(Head(msgs))
    BY <1>3 DEF OnUpdateRetryCounterDone, OnEstablishConnectionDone, OnUnblockPinDone, OnChangePinDone,
                Arrives, IsOwn, OfState
  <2> QED BY <1>1, <2>1, Delivered, NobodyIsOne
<1> QED BY <1>2, <1>3 DEF Deliver

LEMMA ClientOne ==
  ASSUME TInv, OneAnswer, Client
  PROVE  OneAnswer'
<1>1. QueueTypes
  BY DEF TInv
<1>2. CASE Connects \/ IfdDisconnect
  BY <1>2, Stays DEF Connects, IfdDisconnect, SameState, controlVars, readerVars
<1>3. CASE Closes
  <2>1. cmds' = Disown(cmds, {"CREATE"}) /\ msgs' = Disown(msgs, {"CREATE"})
    BY <1>3 DEF Closes
  <2>2. SameState \/ ~Asking
    BY <1>3 DEF Closes, Asking, SameState
  <2> QED BY <1>1, <2>1, <2>2, DisownedCreate, NobodyAsks, NobodyIsOne
<1>4. CASE IfdConnect
  <2>1. cmds = <<>> /\ SameState /\ msgs' = msgs /\ Post("CREATE", "none", NoWord)
    BY <1>4 DEF IfdConnect, SameState, controlVars
  <2> DEFINE e == [kind |-> "CREATE", id |-> "none", word |-> NoWord, mine |-> TRUE]
  <2>2. cmds' = Append(cmds, e) /\ e \in Commands /\ ~IsOwn(e)
    BY <2>1 DEF Post, Commands, IsOwn, OfState
  <2> HIDE DEF e
  <2>3. DOMAIN cmds = {}
    BY <2>1
  <2>4. \A i \in DOMAIN cmds' : ~IsOwn(cmds'[i])
    BY <1>1, <2>2, <2>3, InAppended DEF QueueTypes
  <2> QED BY <2>1, <2>4 DEF OneAnswer, Asked, Lone, SameState, Waits
<1>5. CASE IfdModifyPin \/ \E id \in PaceIds : IfdEstablishPaceChannel(id)
  <2>1. ~Asking /\ SetCardConnection /\ cmds' = cmds
    BY <1>5 DEF IfdModifyPin, IfdEstablishPaceChannel, Asking, Waits
  <2> QED BY <1>1, <2>1, NobodyAsks, NobodyAdopts, NobodyIsOne
<1>6. CASE IfdTransmitSecured
  <2>1. UNCHANGED <<cmds, msgs>> /\ (SameState \/ ~Asking)
    BY <1>6 DEF IfdTransmitSecured, SameState, Asking
  <2> QED BY <2>1, Stays, NobodyAsks, NobodyIsOne DEF Nobody
<1> QED BY <1>2, <1>3, <1>4, <1>5, <1>6 DEF Client

LEMMA UserOne ==
  ASSUME TInv, OneAnswer, User
  PROVE  OneAnswer'
<1>1. CASE Stop
  BY <1>1, DisownedAll, NobodyIsOne DEF Stop, TInv
<1>2. CASE CancelPasswordRequest \/ EnterNewPacePin \/ \E word \in Words : EnterPacePassword(word)
  <2>1. ~Asking /\ UNCHANGED <<cmds, msgs>>
    BY <1>2 DEF CancelPasswordRequest, EnterNewPacePin, EnterPacePassword, Asking, Waits, readerVars
  <2> QED BY <2>1, NobodyAsks, NobodyIsOne DEF Nobody
<1> QED BY <1>1, <1>2 DEF User

LEMMA ReaderThreadOne ==
  ASSUME TInv, OneAnswer, ReaderThread
  PROVE  OneAnswer'
<1>1. QueueTypes /\ NumberTypes /\ SwitchTypes
  BY DEF TInv
<1>2. SameState /\ cmds # <<>>
  BY DEF ReaderThread, ExecuteCreate, ExecuteUpdateRetryCounter, ExecuteEstablishPaceChannel,
         ExecuteUnblockPin, ExecuteSetEidPin, Executes, SameState, controlVars
<1>3. ASSUME NEW code \in Codes, Finish(code) PROVE OneAnswer'
  BY <1>1, <1>2, <1>3, Executed DEF Finish, QueueTypes
<1>4. CASE ExecuteCreate \/ ExecuteSetEidPin
  BY <1>3, <1>4 DEF ExecuteCreate, ExecuteSetEidPin, Codes
<1>5. CASE ExecuteEstablishPaceChannel \/ ExecuteUnblockPin
  BY <1>1, <1>3, <1>5, ChipTypes DEF ExecuteEstablishPaceChannel, ExecuteUnblockPin, ChipWorks, Codes
<1>6. CASE ExecuteUpdateRetryCounter
  <2>1. CASE Finish("FAILED")
    BY <1>3, <2>1 DEF Codes
  <2>2. CASE /\ cmds' = Tail(cmds)
             /\ msgs' = msgs \o (IF rdRc \in {-1, chipRc} THEN <<>> ELSE <<Signal(chipRc)>>) \o <<Answer("OK")>>
    <3> DEFINE q == IF rdRc \in {-1, chipRc} THEN msgs ELSE Append(msgs, Signal(chipRc))
    <3>1. chipRc \in Counters
      BY <1>1, CounterAssumption DEF NumberTypes, Counters
    <3>2. Signal(chipRc) \in Messages /\ ~IsOwn(Signal(chipRc)) /\ Answer("OK") \in Messages
      BY <1>1, <1>2, <3>1, SignalTypes, FirstCommand DEF Signal, IsOwn, OfState, Codes
    <3>3. q \in Seq(Messages)
      BY <1>1, <3>2, AppendProperties DEF QueueTypes
    <3>4. \A j \in DOMAIN q : IsOwn(q[j]) => j \in DOMAIN msgs /\ q[j] = msgs[j]
      BY <1>1, <3>2, InAppended DEF QueueTypes
    <3>5. msgs \o (IF rdRc \in {-1, chipRc} THEN <<>> ELSE <<Signal(chipRc)>>) = q
      BY <1>1, <3>2, AppendIsConcat, ConcatEmptySeq DEF QueueTypes
    <3>6. msgs' = Append(q, Answer("OK"))
      BY <2>2, <3>2, <3>3, <3>5, AppendIsConcat
    <3> HIDE DEF q
    <3> QED BY <1>1, <1>2, <2>2, <3>3, <3>4, <3>6, Executed DEF Codes
  <2> QED BY <1>6, <2>1, <2>2 DEF ExecuteUpdateRetryCounter
<1> QED BY <1>4, <1>5, <1>6 DEF ReaderThread

LEMMA WorldOne ==
  ASSUME TInv, OneAnswer, PutCard \/ TakeCard, rdRc' \in Counters
  PROVE  OneAnswer'
<1>1. QueueTypes /\ SameState /\ cmds' = cmds /\ msgs' = Append(msgs, Signal(rdRc'))
  BY DEF TInv, PutCard, TakeCard, SameState, controlVars
<1>2. Signal(rdRc') \in Messages /\ ~IsOwn(Signal(rdRc'))
  BY SignalTypes DEF TInv, Signal, IsOwn, OfState
<1> QED BY <1>1, <1>2, PostedNews

-----------------------------------------------------------------------------
(* Type correctness. *)

IInv == TInv /\ OneAnswer

LEMMA InitIInv == Init => IInv
<1> SUFFICES ASSUME Init PROVE IInv
  OBVIOUS
<1>1. OneAnswer
  BY DEF Init, OneAnswer, Asked, Lone
<1> QED BY <1>1, InitTypes DEF IInv

LEMMA NextIInv == IInv /\ [Next]_vars => IInv'
<1> SUFFICES ASSUME IInv, [Next]_vars PROVE IInv'
  OBVIOUS
<1>1. TInv /\ OneAnswer
  BY DEF IInv
<1>2. CASE Run
  BY <1>1, <1>2, RunTypes, RunOne DEF IInv
<1>3. CASE Deliver
  BY <1>1, <1>3, DeliverTypes, DeliverOne DEF IInv
<1>4. CASE Client
  BY <1>1, <1>4, ClientTypes, ClientOne DEF IInv
<1>5. CASE User
  BY <1>1, <1>5, UserTypes, UserOne DEF IInv
<1>6. CASE ReaderThread
  BY <1>1, <1>6, ReaderThreadTypes, ReaderThreadOne DEF IInv
<1>7. CASE PutCard \/ TakeCard
  <2>1. TInv'
    BY <1>1, <1>7, WorldTypes
  <2>2. rdRc' \in Counters
    BY <2>1 DEF TInv, NumberTypes
  <2> QED BY <1>1, <1>7, <2>1, <2>2, WorldOne DEF IInv
<1>8. CASE UNCHANGED vars
  <2>1. TInv'
    BY <1>1, <1>8 DEF TInv, WordTypes, NumberTypes, SwitchTypes, QueueTypes, PaceWanted, vars,
       controlVars, contextVars, passwordVars, settingVars, serverVars, chipVars, worldVars,
       readerVars
  <2>2. OneAnswer'
    BY <1>1, <1>8, Stays DEF SameState, vars, controlVars, readerVars
  <2> QED BY <2>1, <2>2 DEF IInv
<1> QED BY <1>2, <1>3, <1>4, <1>5, <1>6, <1>7, <1>8 DEF Next, MainThread, Terminated

(* The ranges of all variables, also of the expected counter, which is      *)
(* decremented by answers only.                                            *)
THEOREM TypeCorrect == Spec => []TypeOK
<1>1. IInv => TypeOK
  BY TypeParts DEF IInv
<1> QED BY <1>1, InitIInv, NextIInv, PTL DEF Spec

-----------------------------------------------------------------------------
(* An idle service has forgotten its clients. *)

LEMMA NextForgets == IInv /\ IdleForgets /\ [Next]_vars => IdleForgets'
<1> SUFFICES ASSUME IInv, IdleForgets, [Next]_vars PROVE IdleForgets'
  OBVIOUS
<1> USE DEF IdleForgets, Forgotten, Waits
<1>1. CASE Run
  BY <1>1 DEF Run, RunStartRemoteService, RunProcessRemoteMessages, RunUpdateRetryCounter,
      RunVerifyRetryCounter, RunPreparePace, Asks, RunEstablishPaceChannel,
      RunEstablishPaceChannelResponse, RunClearPacePasswords, RunPrepareChangePin, RunChangePin,
      RunChangePinResponse, RunStopRemoteService, Runs, Leads, OnResetMessageHandler,
      ResetPacePasswords, ResetCardConnection, UnchangedByStep, controlVars, contextVars,
      passwordVars, settingVars, serverVars, chipVars, worldVars, readerVars
<1>2. CASE Deliver
  BY <1>2 DEF Deliver, DropReply, OnUpdateRetryCounterDone, OnEstablishConnectionDone, OnUnblockPinDone,
      OnChangePinDone, OnCreateCardConnectionCommandDone, OnReaderChanged, Arrives, Goto,
      controlVars, contextVars, passwordVars, settingVars, serverVars, chipVars, worldVars,
      readerVars
<1>3. CASE Client
  <2>1. CASE Connects
    <3>1. client' # 0
      BY <2>1 DEF Connects, IInv, TInv, NumberTypes
    <3> QED BY <3>1
  <2>2. CASE Closes
    BY <2>2 DEF Closes, Goto, OnResetMessageHandler, ResetPacePasswords, ResetCardConnection
  <2>3. CASE Client /\ ~Connects /\ ~Closes
    BY <2>3 DEF Client, IfdConnect, IfdDisconnect, IfdEstablishPaceChannel, IfdModifyPin,
                IfdTransmitSecured, Goto, controlVars, contextVars, passwordVars, settingVars, serverVars, chipVars,
                worldVars, readerVars
  <2> QED BY <1>3, <2>1, <2>2, <2>3
<1>4. CASE User
  BY <1>4 DEF User, EnterPacePassword, EnterNewPacePin, CancelPasswordRequest, Stop, CancelOutput, Goto,
      controlVars, contextVars, passwordVars, settingVars, serverVars, chipVars, worldVars,
      readerVars
<1>5. CASE ReaderThread
  BY <1>5 DEF ReaderThread, ExecuteCreate, ExecuteUpdateRetryCounter, ExecuteEstablishPaceChannel,
      ExecuteUnblockPin, ExecuteSetEidPin, ChipWorks, controlVars, contextVars, passwordVars,
      settingVars, serverVars, chipVars, worldVars, readerVars
<1>6. CASE PutCard \/ TakeCard \/ UNCHANGED vars
  BY <1>6 DEF PutCard, TakeCard, controlVars, contextVars, passwordVars, settingVars, serverVars, chipVars,
      worldVars, readerVars, vars
<1> QED BY <1>1, <1>2, <1>3, <1>4, <1>5, <1>6 DEF Next, MainThread, Terminated

(* What a client has left behind is gone when the service waits for the    *)
(* next one, in whatever state the first has gone, although the reset the  *)
(* code queues for that never runs.                                        *)
THEOREM IdleForgotten == Spec => []IdleForgets
<1>1. Init => IdleForgets
  BY DEF Init, IdleForgets, Waits
<1> QED BY <1>1, InitIInv, NextIInv, NextForgets, PTL DEF Spec

-----------------------------------------------------------------------------
(* "OK" is answered to the request it belongs to. The outputs stay unknown *)
(* until the answer has come, an "OK" under way is about this request, and *)
(* only some states wait.                                                  *)

PinStates == {"PrepareChangePin", "EnterNewPacePin", "ChangePin"}

Outcome ==
  /\ st \in PaceStates => paceOut = "UNKNOWN"
  /\ st \in PinStates => modOut = "UNKNOWN"
  /\ busy => st \in {"ProcessRemoteMessages", "UpdateRetryCounter", "EnterPacePassword",
                     "EstablishPaceChannel", "EnterNewPacePin", "ChangePin"}
  /\ AnswerIsHonest

SaysOk(e) == IsOwn(e) /\ e.code = "OK"

OkIsMeant ==
  \A j \in DOMAIN msgs : SaysOk(msgs[j]) =>
    /\ msgs[j].kind \in {"PACE", "UNBLOCK"} => accepted
    /\ msgs[j].kind = "SET_PIN" => changed

LEMMA NobodyMeans == Nobody' => OkIsMeant'
BY DEF Nobody, OkIsMeant, SaysOk

(* Nothing is taken back while a command is under way.                     *)
LEMMA StillMeant ==
  ASSUME OkIsMeant, accepted => accepted', changed => changed',
         \A j \in DOMAIN msgs' : SaysOk(msgs'[j]) => \E k \in DOMAIN msgs : msgs'[j] = msgs[k]
  PROVE  OkIsMeant'
BY DEF OkIsMeant, SaysOk

LEMMA RunHonest ==
  ASSUME IInv, Outcome, OkIsMeant, Run
  PROVE  Outcome' /\ OkIsMeant'
<1>1. Outcome'
  BY DEF Outcome, PaceStates, PinStates, AnswerIsHonest, Runs,
         Run, RunStartRemoteService, RunProcessRemoteMessages, RunUpdateRetryCounter,
         RunVerifyRetryCounter, RunPreparePace, Asks, RunEstablishPaceChannel,
         RunEstablishPaceChannelResponse, RunClearPacePasswords, RunPrepareChangePin, RunChangePin,
         RunChangePinResponse, RunStopRemoteService, Leads, OnResetMessageHandler, UnchangedByStep,
         controlVars, contextVars, passwordVars, settingVars, serverVars, chipVars, worldVars,
         readerVars
<1>2. ~busy /\ (msgs' = msgs \/ (cmds' = Disown(cmds, {"CREATE"}) /\ msgs' = Disown(msgs, {"CREATE"})))
  BY DEF Runs, Post,
         Run, RunStartRemoteService, RunProcessRemoteMessages, RunUpdateRetryCounter,
         RunVerifyRetryCounter, RunPreparePace, Asks, RunEstablishPaceChannel,
         RunEstablishPaceChannelResponse, RunClearPacePasswords, RunPrepareChangePin, RunChangePin,
         RunChangePinResponse, RunStopRemoteService, Leads, OnResetMessageHandler, UnchangedByStep,
         controlVars, contextVars, passwordVars, settingVars, serverVars, chipVars, worldVars,
         readerVars
<1>3. Nobody
  BY <1>2, NobodyAsks DEF Asking, IInv
<1>4. ASSUME msgs' = msgs PROVE OkIsMeant'
  BY <1>3, <1>4 DEF Nobody, OkIsMeant, SaysOk
<1>5. ASSUME cmds' = Disown(cmds, {"CREATE"}), msgs' = Disown(msgs, {"CREATE"}) PROVE OkIsMeant'
  <2>1. QueueTypes /\ OneAnswer
    BY DEF IInv, TInv
  <2>2. Nobody'
    BY <1>3, <1>5, <2>1, DisownedCreate
  <2> QED BY <2>2, NobodyMeans
<1> QED BY <1>1, <1>2, <1>4, <1>5

LEMMA DeliverHonest ==
  ASSUME IInv, Outcome, OkIsMeant, Deliver
  PROVE  Outcome' /\ OkIsMeant'
<1>1. /\ msgs # <<>> /\ (Taken \/ msgs' = Disown(Tail(msgs), {"changed"}))
      /\ accepted' = accepted /\ changed' = changed
  BY DEF Deliver, DropReply, OnUpdateRetryCounterDone, OnEstablishConnectionDone, OnUnblockPinDone,
         OnChangePinDone, OnCreateCardConnectionCommandDone, OnReaderChanged, Arrives, Goto,
         controlVars, contextVars, passwordVars, settingVars, serverVars, chipVars, worldVars,
         readerVars
<1>2. QueueTypes /\ OneAnswer
  BY DEF IInv, TInv
<1>3. /\ 1 \in DOMAIN msgs /\ Head(msgs) = msgs[1]
      /\ \A i \in DOMAIN msgs' : /\ i + 1 \in DOMAIN msgs
                                 /\ SaysOk(msgs'[i]) => msgs'[i] = msgs[i + 1]
  BY <1>1, <1>2, TakenOff DEF SaysOk, IsOwn, OfState
<1>4. OkIsMeant'
  BY <1>1, <1>3, StillMeant
<1>5. IsOwn(Head(msgs)) => Waits(Asker[Head(msgs).kind])
  BY <1>1, <1>2, FirstMessage DEF OneAnswer
<1>6. SaysOk(Head(msgs)) => /\ Head(msgs).kind \in {"PACE", "UNBLOCK"} => accepted
                            /\ Head(msgs).kind = "SET_PIN" => changed
  BY <1>3 DEF OkIsMeant
<1>7. ASSUME OnEstablishConnectionDone \/ OnUnblockPinDone PROVE Outcome'
  BY <1>5, <1>6, <1>7 DEF Outcome, PaceStates, PinStates, AnswerIsHonest, Runs, Waits, IsOwn, SaysOk, OfState, Asker,
       OnEstablishConnectionDone, OnUnblockPinDone, Arrives, Goto, chipVars
<1>8. ASSUME OnChangePinDone PROVE Outcome'
  BY <1>5, <1>6, <1>8 DEF Outcome, PaceStates, PinStates, AnswerIsHonest, Runs, Waits, IsOwn, SaysOk, OfState, Asker,
       OnChangePinDone, Arrives, Goto, chipVars
<1>9. ASSUME OnUpdateRetryCounterDone PROVE Outcome'
  BY <1>5, <1>9 DEF Outcome, PaceStates, PinStates, AnswerIsHonest, Runs, Waits, IsOwn, OfState, Asker,
       OnUpdateRetryCounterDone, Arrives, Goto, chipVars
<1>10. ASSUME DropReply \/ OnCreateCardConnectionCommandDone \/ OnReaderChanged PROVE Outcome'
  BY <1>10 DEF Outcome, AnswerIsHonest, Runs, DropReply, OnCreateCardConnectionCommandDone, OnReaderChanged,
       controlVars, contextVars, passwordVars, settingVars, serverVars, chipVars, worldVars,
       readerVars
<1> QED BY <1>4, <1>7, <1>8, <1>9, <1>10 DEF Deliver

(* Only the reader thread makes an "OK" of its own. *)
LEMMA NothingMeant ==
  ASSUME OkIsMeant, msgs' = msgs, accepted' = accepted, changed' = changed
  PROVE  OkIsMeant'
BY DEF OkIsMeant, SaysOk

LEMMA ClientOutcome ==
  ASSUME Outcome, Client
  PROVE  Outcome'
BY DEF Outcome, PaceStates, PinStates, AnswerIsHonest, Runs, Waits,
       Client, Connects, Closes, IfdConnect, IfdDisconnect, IfdEstablishPaceChannel, IfdModifyPin,
       IfdTransmitSecured, Goto, SetEstablishPaceChannelMessage, OnResetMessageHandler,
       controlVars, contextVars, passwordVars, settingVars, serverVars, chipVars, worldVars,
       readerVars

LEMMA ClientMeans ==
  ASSUME IInv, OkIsMeant, Client
  PROVE  OkIsMeant'
<1>1. QueueTypes /\ OneAnswer
  BY DEF IInv, TInv
<1>2. CASE Closes
  <2>1. /\ accepted' = accepted /\ changed' = changed
        /\ msgs' = Disown(msgs, {"CREATE"})
    BY <1>2 DEF Closes, chipVars
  <2>2. DOMAIN msgs' = DOMAIN msgs
    BY <2>1 DEF Disown
  <2>3. ASSUME NEW j \in DOMAIN msgs', SaysOk(msgs'[j]) PROVE msgs'[j] = msgs[j]
    <3>1. msgs[j] \in Messages /\ j \in DOMAIN msgs
      BY <1>1, <2>2 DEF QueueTypes
    <3>2. msgs'[j] = IF msgs[j].kind \in {"CREATE"} THEN [msgs[j] EXCEPT !.mine = FALSE] ELSE msgs[j]
      BY <2>1, <3>1 DEF Disown
    <3>3. msgs[j].kind = "CREATE" => msgs'[j].kind = "CREATE"
      BY <3>1, <3>2 DEF Messages, Replies, Signals
    <3> QED BY <2>3, <3>2, <3>3 DEF SaysOk, IsOwn, OfState
  <2>4. \A j \in DOMAIN msgs' : SaysOk(msgs'[j]) => \E k \in DOMAIN msgs : msgs'[j] = msgs[k]
    BY <2>2, <2>3
  <2> QED BY <2>1, <2>4, StillMeant
<1>3. CASE IfdModifyPin \/ \E id \in PaceIds : IfdEstablishPaceChannel(id)
  <2>1. ~Asking /\ SetCardConnection /\ cmds' = cmds
    BY <1>3 DEF IfdModifyPin, IfdEstablishPaceChannel, Asking, Waits
  <2>2. Nobody'
    BY <1>1, <2>1, NobodyAsks, NobodyAdopts
  <2> QED BY <2>2, NobodyMeans
<1>4. CASE Connects \/ IfdConnect \/ IfdDisconnect \/ IfdTransmitSecured
  <2>1. msgs' = msgs /\ accepted' = accepted /\ changed' = changed
    BY <1>4 DEF Connects, IfdConnect, IfdDisconnect, IfdTransmitSecured, chipVars, readerVars
  <2> QED BY <2>1, NothingMeant
<1> QED BY <1>2, <1>3, <1>4 DEF Client

LEMMA UserOutcome ==
  ASSUME Outcome, User
  PROVE  Outcome'
BY DEF Outcome, PaceStates, PinStates, AnswerIsHonest, Runs, Waits,
       User, EnterPacePassword, EnterNewPacePin, CancelPasswordRequest, Stop, CancelOutput, Goto,
       controlVars, contextVars, passwordVars, settingVars, serverVars, chipVars, worldVars,
       readerVars

LEMMA UserMeans ==
  ASSUME IInv, OkIsMeant, User
  PROVE  OkIsMeant'
<1>1. CASE Stop
  <2>1. QueueTypes /\ cmds' = Disown(cmds, OfState) /\ msgs' = Disown(msgs, OfState)
    BY <1>1 DEF Stop, IInv, TInv
  <2> QED BY <2>1, DisownedAll, NobodyMeans
<1>2. CASE CancelPasswordRequest \/ EnterNewPacePin \/ \E word \in Words : EnterPacePassword(word)
  <2>1. msgs' = msgs /\ accepted' = accepted /\ changed' = changed
    BY <1>2 DEF CancelPasswordRequest, EnterNewPacePin, EnterPacePassword, chipVars, readerVars
  <2> QED BY <2>1, NothingMeant
<1> QED BY <1>1, <1>2 DEF User

LEMMA ReaderThreadHonest ==
  ASSUME IInv, Outcome, OkIsMeant, ReaderThread
  PROVE  Outcome' /\ OkIsMeant'
<1>1. QueueTypes /\ NumberTypes /\ SwitchTypes
  BY DEF IInv, TInv
<1>2. accepted => accepted'
  BY DEF ReaderThread, ExecuteCreate, ExecuteUpdateRetryCounter, ExecuteEstablishPaceChannel,
         ExecuteUnblockPin, ExecuteSetEidPin, ChipWorks, controlVars, contextVars, passwordVars,
         settingVars, serverVars, chipVars, worldVars, readerVars
<1>3. changed => changed'
  BY DEF ReaderThread, ExecuteCreate, ExecuteUpdateRetryCounter, ExecuteEstablishPaceChannel,
         ExecuteUnblockPin, ExecuteSetEidPin, ChipWorks, controlVars, contextVars, passwordVars,
         settingVars, serverVars, chipVars, worldVars, readerVars
<1>4. Outcome'
  BY <1>2, <1>3 DEF Outcome, AnswerIsHonest, Runs, SameState,
         ReaderThread, ExecuteCreate, ExecuteUpdateRetryCounter, ExecuteEstablishPaceChannel,
         ExecuteUnblockPin, ExecuteSetEidPin, ChipWorks, controlVars, contextVars, passwordVars,
         settingVars, serverVars, chipVars, worldVars, readerVars
<1>5. ASSUME NEW code \in Codes, cmds # <<>>, Finish(code),
             code = "OK" /\ Head(cmds).mine /\ Head(cmds).kind \in {"PACE", "UNBLOCK"} => accepted',
             code = "OK" /\ Head(cmds).mine /\ Head(cmds).kind = "SET_PIN" => changed'
      PROVE  OkIsMeant'
  <2>1. Answer(code) \in Messages /\ msgs' = Append(msgs, Answer(code))
    BY <1>1, <1>5, FirstCommand DEF Finish
  <2>2. /\ Answer(code).code = code /\ Answer(code).kind = Head(cmds).kind
        /\ Answer(code).mine = Head(cmds).mine
    BY DEF Answer
  <2>3. \A j \in DOMAIN msgs' :
          \/ j \in DOMAIN msgs /\ msgs'[j] = msgs[j]
          \/ j = Len(msgs) + 1 /\ msgs'[j] = Answer(code)
    BY <1>1, <2>1, InAppended DEF QueueTypes
  <2> QED BY <1>2, <1>3, <1>5, <2>2, <2>3 DEF OkIsMeant, SaysOk, IsOwn
<1>6. CASE ExecuteCreate
  <2>1. cmds # <<>> /\ Head(cmds).kind = "CREATE" /\ (Finish("OK") \/ Finish("FAILED"))
    BY <1>6 DEF ExecuteCreate, Executes
  <2>2. OkIsMeant'
    BY <1>5, <2>1 DEF Codes
  <2> QED BY <1>4, <2>2
<1>7. CASE ExecuteSetEidPin
  <2>1. /\ cmds # <<>> /\ Head(cmds).kind = "SET_PIN"
        /\ (Finish("OK") /\ changed' = (changed \/ Head(cmds).mine)) \/ Finish("FAILED")
    BY <1>7 DEF ExecuteSetEidPin, Executes
  <2>2. OkIsMeant'
    BY <1>5, <2>1 DEF Codes
  <2> QED BY <1>4, <2>2
<1>8. ASSUME NEW id, NEW word, cmds # <<>>, ChipWorks(id, word), Head(cmds).kind \in {"PACE", "UNBLOCK"}
      PROVE  OkIsMeant'
  <2> DEFINE a == ChipAnswer(id, word).code
  <2>1. /\ a \in Codes /\ (Finish(a) \/ Finish("FAILED"))
        /\ accepted' = (accepted \/ (Head(cmds).mine /\ a = "OK"))
    BY <1>1, <1>8, ChipTypes DEF ChipWorks
  <2> HIDE DEF a
  <2>2. a \in Codes /\ "FAILED" \in Codes
    BY <1>1, ChipTypes DEF a, Codes
  <2>3. CASE Finish(a)
    BY <1>5, <1>8, <2>1, <2>2, <2>3
  <2>4. CASE Finish("FAILED")
    BY <1>5, <1>8, <2>2, <2>4
  <2> QED BY <2>1, <2>3, <2>4
<1>9. CASE ExecuteEstablishPaceChannel \/ ExecuteUnblockPin
  <2>1. /\ cmds # <<>> /\ Head(cmds).kind \in {"PACE", "UNBLOCK"}
        /\ \/ \E id, word : ChipWorks(id, word)
           \/ Finish("INVALID") \/ Finish("FAILED")
    BY <1>9 DEF ExecuteEstablishPaceChannel, ExecuteUnblockPin, Executes
  <2>2. OkIsMeant'
    BY <1>5, <1>8, <2>1 DEF Codes
  <2> QED BY <1>4, <2>2
<1>10. CASE ExecuteUpdateRetryCounter
  <2>1. cmds # <<>> /\ Head(cmds).kind = "UPDATE_RC"
    BY <1>10 DEF ExecuteUpdateRetryCounter, Executes
  <2>2. CASE Finish("FAILED")
    <3>1. OkIsMeant'
      BY <1>5, <2>1, <2>2 DEF Codes
    <3> QED BY <1>4, <3>1
  <2>3. CASE msgs' = msgs \o (IF rdRc \in {-1, chipRc} THEN <<>> ELSE <<Signal(chipRc)>>) \o <<Answer("OK")>>
    <3> DEFINE q == IF rdRc \in {-1, chipRc} THEN msgs ELSE Append(msgs, Signal(chipRc))
    <3>1. chipRc \in Counters
      BY <1>1, CounterAssumption DEF NumberTypes, Counters
    <3>2. Signal(chipRc) \in Messages /\ ~IsOwn(Signal(chipRc)) /\ Answer("OK") \in Messages
      BY <1>1, <2>1, <3>1, SignalTypes, FirstCommand DEF Signal, IsOwn, OfState, Codes
    <3>3. q \in Seq(Messages)
      BY <1>1, <3>2, AppendProperties DEF QueueTypes
    <3>4. \A j \in DOMAIN q : IsOwn(q[j]) => j \in DOMAIN msgs /\ q[j] = msgs[j]
      BY <1>1, <3>2, InAppended DEF QueueTypes
    <3>5. msgs \o (IF rdRc \in {-1, chipRc} THEN <<>> ELSE <<Signal(chipRc)>>) = q
      BY <1>1, <3>2, AppendIsConcat, ConcatEmptySeq DEF QueueTypes
    <3>6. msgs' = Append(q, Answer("OK"))
      BY <2>3, <3>2, <3>3, <3>5, AppendIsConcat
    <3> HIDE DEF q
    <3>7. \A j \in DOMAIN msgs' :
            \/ j \in DOMAIN q /\ msgs'[j] = q[j]
            \/ msgs'[j] = Answer("OK")
      BY <3>2, <3>3, <3>6, InAppended
    <3>8. Answer("OK").kind = "UPDATE_RC"
      BY <2>1 DEF Answer
    <3>9. ASSUME NEW j \in DOMAIN msgs', SaysOk(msgs'[j])
          PROVE  \/ msgs'[j].kind = "UPDATE_RC"
                 \/ j \in DOMAIN msgs /\ msgs'[j] = msgs[j]
      BY <3>4, <3>7, <3>8, <3>9 DEF SaysOk
    <3>10. OkIsMeant'
      BY <1>2, <1>3, <3>9 DEF OkIsMeant
    <3> QED BY <1>4, <3>10
  <2> QED BY <1>10, <2>2, <2>3 DEF ExecuteUpdateRetryCounter
<1> QED BY <1>6, <1>7, <1>9, <1>10 DEF ReaderThread

LEMMA WorldHonest ==
  ASSUME IInv, Outcome, OkIsMeant, PutCard \/ TakeCard, rdRc' \in Counters
  PROVE  Outcome' /\ OkIsMeant'
<1>1. QueueTypes /\ accepted' = accepted /\ changed' = changed /\ msgs' = Append(msgs, Signal(rdRc'))
  BY DEF IInv, TInv, PutCard, TakeCard, chipVars
<1>2. Signal(rdRc') \in Messages /\ ~IsOwn(Signal(rdRc'))
  BY SignalTypes DEF IInv, TInv, Signal, IsOwn, OfState
<1>3. \A j \in DOMAIN msgs' :
        \/ j \in DOMAIN msgs /\ msgs'[j] = msgs[j]
        \/ msgs'[j] = Signal(rdRc')
  BY <1>1, <1>2, InAppended DEF QueueTypes
<1>4. OkIsMeant'
  BY <1>1, <1>2, <1>3, StillMeant DEF SaysOk
<1>5. Outcome'
  BY DEF PutCard, TakeCard, Outcome, AnswerIsHonest, Runs, controlVars, contextVars, settingVars, chipVars
<1> QED BY <1>4, <1>5

LEMMA NextHonest == IInv /\ Outcome /\ OkIsMeant /\ [Next]_vars => Outcome' /\ OkIsMeant'
<1> SUFFICES ASSUME IInv, Outcome, OkIsMeant, [Next]_vars PROVE Outcome' /\ OkIsMeant'
  OBVIOUS
<1>1. CASE Run
  BY <1>1, RunHonest
<1>2. CASE Deliver
  BY <1>2, DeliverHonest
<1>3. CASE Client
  BY <1>3, ClientOutcome, ClientMeans
<1>4. CASE User
  BY <1>4, UserOutcome, UserMeans
<1>5. CASE ReaderThread
  BY <1>5, ReaderThreadHonest
<1>6. CASE PutCard \/ TakeCard
  <2>1. rdRc' \in Counters
    BY NextIInv DEF IInv, TInv, NumberTypes
  <2> QED BY <1>6, <2>1, WorldHonest
<1>7. CASE UNCHANGED vars
  BY <1>7 DEF vars, controlVars, contextVars, settingVars, chipVars, readerVars, Outcome, OkIsMeant,
              SaysOk, AnswerIsHonest, Runs
<1> QED BY <1>1, <1>2, <1>3, <1>4, <1>5, <1>6, <1>7 DEF Next, MainThread, Terminated

(* No request is answered "OK" unless the chip has accepted its password,  *)
(* or changed its PIN, while it was being served: not with the output of   *)
(* an earlier request, nor with the late answer to one.                    *)
THEOREM AnswersHonest == Spec => []AnswerIsHonest
<1>1. Init => Outcome /\ OkIsMeant
  BY DEF Init, Outcome, OkIsMeant, PaceStates, PinStates, AnswerIsHonest, Runs
<1>2. Outcome => AnswerIsHonest
  BY DEF Outcome
<1> QED BY <1>1, <1>2, InitIInv, NextIInv, NextHonest, PTL DEF Spec

-----------------------------------------------------------------------------
(* A rejected PIN is not sent again. First the order of the commands: what *)
(* a state has asked for comes after any command an earlier one has left   *)
(* behind, and the next password is asked for when the chip is idle.       *)

OfChip(e) == e.kind \in {"PACE", "UNBLOCK"}

Prepared == \/ Runs("VerifyRetryCounter") \/ Runs("PreparePace")
            \/ st = "EnterPacePassword" \/ Runs("EstablishPaceChannel")

Answered == \E j \in DOMAIN msgs : IsOwn(msgs[j])

ChipOrder ==
  /\ \A i, k \in DOMAIN cmds : OfChip(cmds[k]) => /\ IsOwn(cmds[i]) => k <= i
                                                  /\ OfChip(cmds[i]) => i = k
  /\ Prepared \/ Answered => \A k \in DOMAIN cmds : ~OfChip(cmds[k])

LEMMA OrderKept ==
  ASSUME ChipOrder, DOMAIN cmds' = DOMAIN cmds,
         \A i \in DOMAIN cmds : /\ OfChip(cmds'[i]) => OfChip(cmds[i])
                                /\ IsOwn(cmds'[i]) => IsOwn(cmds[i]),
         Prepared' \/ Answered' => Prepared \/ Answered
  PROVE  ChipOrder'
BY DEF ChipOrder

LEMMA OrderPosted ==
  ASSUME QueueTypes, ChipOrder, Nobody, msgs' = msgs, ~Prepared',
         NEW kind \in OfState \cup {"CREATE"}, NEW id \in PaceIds \cup {"none"},
         NEW word \in Words \cup {NoWord}, Post(kind, id, word),
         kind \in {"PACE", "UNBLOCK"} => Prepared
  PROVE  ChipOrder'
<1> DEFINE e == [kind |-> kind, id |-> id, word |-> word, mine |-> TRUE]
<1>1. e \in Commands /\ e.kind = kind
  BY DEF Commands
<1>2. cmds' = Append(cmds, e)
  BY DEF Post
<1> HIDE DEF e
<1>3. \A i \in DOMAIN cmds' : \/ i \in DOMAIN cmds /\ cmds'[i] = cmds[i]
                              \/ i = Len(cmds) + 1 /\ cmds'[i] = e
  BY <1>1, <1>2, InAppended DEF QueueTypes
<1>4. Len(cmds) \in Nat /\ DOMAIN cmds = 1 .. Len(cmds)
  BY LenProperties DEF QueueTypes
<1>5. ~Answered'
  BY DEF Nobody, Answered
<1>6. ASSUME NEW i \in DOMAIN cmds', NEW k \in DOMAIN cmds', OfChip(cmds'[k])
      PROVE  (IsOwn(cmds'[i]) => k <= i) /\ (OfChip(cmds'[i]) => i = k)
  <2>1. CASE k = Len(cmds) + 1 /\ cmds'[k] = e
    <3>1. \A n \in DOMAIN cmds : ~OfChip(cmds[n]) /\ ~IsOwn(cmds[n])
      BY <1>1, <1>6, <2>1 DEF ChipOrder, OfChip, Nobody
    <3> QED BY <1>3, <1>4, <2>1, <3>1
  <2>2. CASE k \in DOMAIN cmds /\ cmds'[k] = cmds[k]
    <3>1. CASE i \in DOMAIN cmds /\ cmds'[i] = cmds[i]
      BY <1>6, <2>2, <3>1 DEF ChipOrder
    <3>2. CASE i = Len(cmds) + 1 /\ cmds'[i] = e
      BY <1>1, <1>4, <1>6, <2>2, <3>2 DEF ChipOrder, OfChip
    <3> QED BY <1>3, <3>1, <3>2
  <2> QED BY <1>3, <2>1, <2>2
<1> QED BY <1>5, <1>6 DEF ChipOrder

LEMMA OrderExecuted ==
  ASSUME QueueTypes, ChipOrder, cmds # <<>>, cmds' = Tail(cmds), Prepared' => Prepared,
         Answered' => Answered \/ IsOwn(Head(cmds))
  PROVE  ChipOrder' /\ (OfChip(Head(cmds)) => \A k \in DOMAIN cmds' : ~OfChip(cmds'[k]))
<1>1. /\ 1 \in DOMAIN cmds /\ Head(cmds) = cmds[1]
      /\ \A i \in DOMAIN cmds' : i + 1 \in DOMAIN cmds /\ cmds'[i] = cmds[i + 1] /\ i \in Nat /\ i + 1 # 1
  BY InTail DEF QueueTypes
<1>2. DOMAIN cmds' \subseteq Nat \ {0}
  BY <1>1
<1>3. ASSUME NEW i \in DOMAIN cmds', NEW k \in DOMAIN cmds', OfChip(cmds'[k])
      PROVE  (IsOwn(cmds'[i]) => k <= i) /\ (OfChip(cmds'[i]) => i = k)
  <2>1. /\ IsOwn(cmds[i + 1]) => k + 1 <= i + 1
        /\ OfChip(cmds[i + 1]) => i + 1 = k + 1
    BY <1>1, <1>3 DEF ChipOrder
  <2>2. i \in Nat /\ k \in Nat /\ cmds'[i] = cmds[i + 1]
    BY <1>1
  <2> QED BY <2>1, <2>2
<1>4. ASSUME IsOwn(Head(cmds)) PROVE \A k \in DOMAIN cmds' : ~OfChip(cmds'[k])
  <2>1. \A k \in DOMAIN cmds' : OfChip(cmds[k + 1]) => k + 1 <= 1
    BY <1>1, <1>4 DEF ChipOrder
  <2> QED BY <1>1, <1>2, <2>1
<1>5. ASSUME Prepared \/ Answered PROVE \A k \in DOMAIN cmds' : ~OfChip(cmds'[k])
  BY <1>1, <1>5 DEF ChipOrder
<1>6. ASSUME OfChip(Head(cmds)) PROVE \A k \in DOMAIN cmds' : ~OfChip(cmds'[k])
  BY <1>1, <1>6 DEF ChipOrder
<1> QED BY <1>3, <1>4, <1>5, <1>6 DEF ChipOrder

LEMMA DisownedOrder ==
  ASSUME QueueTypes, NEW kinds, cmds' = Disown(cmds, kinds)
  PROVE  /\ DOMAIN cmds' = DOMAIN cmds
         /\ \A i \in DOMAIN cmds : /\ cmds'[i].kind = cmds[i].kind /\ cmds'[i].id = cmds[i].id
                                   /\ OfChip(cmds'[i]) <=> OfChip(cmds[i])
                                   /\ IsOwn(cmds'[i]) => IsOwn(cmds[i])
<1>1. \A i \in DOMAIN cmds : cmds[i] \in Commands
  BY DEF QueueTypes
<1>2. ASSUME NEW e \in Commands
      PROVE  /\ [e EXCEPT !.mine = FALSE].kind = e.kind /\ [e EXCEPT !.mine = FALSE].id = e.id
             /\ ~IsOwn([e EXCEPT !.mine = FALSE])
  BY DEF Commands, IsOwn
<1> QED BY <1>1, <1>2 DEF Disown, OfChip, IsOwn

LEMMA RunOrder ==
  ASSUME TInv, OneAnswer, ChipOrder, Run
  PROVE  ChipOrder'
<1>1. QueueTypes
  BY DEF TInv
<1>2. Nobody
  <2>1. ~busy
    BY DEF Run, RunStartRemoteService, RunProcessRemoteMessages, RunUpdateRetryCounter,
           RunVerifyRetryCounter, RunPreparePace, Asks, RunEstablishPaceChannel,
           RunEstablishPaceChannelResponse, RunClearPacePasswords, RunPrepareChangePin, RunChangePin,
           RunChangePinResponse, RunStopRemoteService, Runs, Leads
  <2> QED BY <2>1, NobodyAsks DEF Asking
<1>3. CASE RunUpdateRetryCounter /\ ctxConn
  BY <1>1, <1>2, <1>3, OrderPosted DEF RunUpdateRetryCounter, OfState, Runs, Prepared
<1>4. CASE RunEstablishPaceChannel /\ ctxConn
  <2>1. paceMsg \in PaceIds /\ pw[paceMsg] \in Words \cup {NoWord}
    BY <1>4, IdAssumption
       DEF RunEstablishPaceChannel, Runs, TInv, PaceWanted, PaceStates, WordTypes, Secrets
  <2>2. Prepared /\ ~Prepared'
    BY <1>4 DEF RunEstablishPaceChannel, Runs, Prepared
  <2> QED BY <1>1, <1>2, <1>4, <2>1, <2>2, OrderPosted DEF RunEstablishPaceChannel, OfState
<1>5. CASE RunChangePin /\ ctxConn
  <2>1. pw["NEW_PIN"] \in Words \cup {NoWord}
    BY DEF TInv, WordTypes, Secrets
  <2> QED BY <1>1, <1>2, <1>5, <2>1, OrderPosted DEF RunChangePin, OfState, Runs, Prepared
<1>6. CASE RunStopRemoteService
  <2>1. cmds' = Disown(cmds, {"CREATE"}) /\ msgs' = Disown(msgs, {"CREATE"}) /\ ~Prepared'
    BY <1>6 DEF RunStopRemoteService, Leads, Runs, Prepared
  <2>2. ~Answered'
    BY <1>1, <1>2, <2>1, DisownedCreate DEF TInv, Nobody, Answered
  <2> QED BY <1>1, <2>1, <2>2, DisownedOrder, OrderKept
<1>7. CASE \/ (RunUpdateRetryCounter \/ RunEstablishPaceChannel \/ RunChangePin) /\ ~ctxConn
           \/ RunStartRemoteService \/ RunProcessRemoteMessages \/ RunVerifyRetryCounter
           \/ RunPreparePace \/ Asks("EnterPacePassword") \/ RunEstablishPaceChannelResponse
           \/ RunClearPacePasswords \/ RunPrepareChangePin \/ Asks("EnterNewPacePin")
           \/ RunChangePinResponse
  <2>1. UNCHANGED <<cmds, msgs>>
    BY <1>7 DEF RunStartRemoteService, RunProcessRemoteMessages, RunUpdateRetryCounter,
           RunVerifyRetryCounter, RunPreparePace, Asks, RunEstablishPaceChannel,
           RunEstablishPaceChannelResponse, RunClearPacePasswords, RunPrepareChangePin, RunChangePin,
           RunChangePinResponse, UnchangedByStep, readerVars
  <2>2. Prepared' => Prepared
    BY <1>7 DEF RunStartRemoteService, RunProcessRemoteMessages, RunUpdateRetryCounter,
           RunVerifyRetryCounter, RunPreparePace, Asks, RunEstablishPaceChannel,
           RunEstablishPaceChannelResponse, RunClearPacePasswords, RunPrepareChangePin, RunChangePin,
           RunChangePinResponse, Leads, Runs, Prepared
  <2> QED BY <2>1, <2>2, OrderKept DEF Answered
<1> QED BY <1>3, <1>4, <1>5, <1>6, <1>7 DEF Run

LEMMA DeliverOrder ==
  ASSUME TInv, ChipOrder, Deliver
  PROVE  ChipOrder'
<1>1. QueueTypes /\ (Taken \/ msgs' = Disown(Tail(msgs), {"changed"})) /\ msgs # <<>> /\ cmds' = cmds
  BY DEF TInv, Deliver, DropReply, OnUpdateRetryCounterDone, OnEstablishConnectionDone, OnUnblockPinDone,
         OnChangePinDone, OnCreateCardConnectionCommandDone, OnReaderChanged, Arrives
<1>2. Answered' => Answered
  BY <1>1, TakenOff DEF Answered, IsOwn, OfState
<1>3. Prepared' => Prepared \/ IsOwn(Head(msgs))
  BY DEF Deliver, DropReply, OnUpdateRetryCounterDone, OnEstablishConnectionDone, OnUnblockPinDone,
         OnChangePinDone, OnCreateCardConnectionCommandDone, OnReaderChanged, Arrives, Goto, Runs,
         Prepared, controlVars, IsOwn, OfState
<1>4. IsOwn(Head(msgs)) => Answered
  BY <1>1, TakenOff DEF Answered
<1> QED BY <1>1, <1>2, <1>3, <1>4, OrderKept

LEMMA ClientOrder ==
  ASSUME TInv, OneAnswer, ChipOrder, Client
  PROVE  ChipOrder'
<1>1. QueueTypes
  BY DEF TInv
<1>2. CASE Connects \/ IfdDisconnect \/ IfdTransmitSecured
  <2>1. UNCHANGED <<cmds, msgs>> /\ (Prepared' => Prepared)
    BY <1>2 DEF Connects, IfdDisconnect, IfdTransmitSecured, Prepared, Runs, Goto, controlVars, readerVars
  <2> QED BY <2>1, OrderKept DEF Answered
<1>3. CASE Closes
  <2>1. /\ cmds' = Disown(cmds, {"CREATE"}) /\ msgs' = Disown(msgs, {"CREATE"})
        /\ Prepared' => Prepared
    BY <1>3 DEF Closes, Prepared, Runs, Goto
  <2>2. Answered' => Answered
    <3>1. ASSUME NEW j \in DOMAIN msgs', IsOwn(msgs'[j]) PROVE j \in DOMAIN msgs /\ IsOwn(msgs[j])
      <4>1. j \in DOMAIN msgs /\ msgs[j] \in Messages
        BY <1>1, <2>1 DEF Disown, QueueTypes
      <4> QED BY <2>1, <3>1, <4>1 DEF Disown, IsOwn, Messages, Replies, Signals, OfState
    <3> QED BY <3>1 DEF Answered
  <2> QED BY <1>1, <2>1, <2>2, DisownedOrder, OrderKept
<1>4. CASE IfdConnect
  <2>1. /\ cmds = <<>> /\ msgs' = msgs /\ Post("CREATE", "none", NoWord)
    BY <1>4 DEF IfdConnect
  <2> DEFINE e == [kind |-> "CREATE", id |-> "none", word |-> NoWord, mine |-> TRUE]
  <2>2. cmds' = Append(cmds, e) /\ e \in Commands /\ ~OfChip(e)
    BY <2>1 DEF Post, Commands, OfState, OfChip
  <2> HIDE DEF e
  <2>3. DOMAIN cmds = {}
    BY <2>1
  <2>4. \A i \in DOMAIN cmds' : ~OfChip(cmds'[i])
    BY <1>1, <2>2, <2>3, InAppended DEF QueueTypes
  <2> QED BY <2>4 DEF ChipOrder
<1>5. CASE IfdModifyPin \/ \E id \in PaceIds : IfdEstablishPaceChannel(id)
  <2>1. ~Asking /\ SetCardConnection /\ cmds' = cmds /\ ~Prepared'
    BY <1>5 DEF IfdModifyPin, IfdEstablishPaceChannel, Asking, Waits, Goto, Prepared, Runs
  <2>2. ~Answered'
    BY <1>1, <2>1, NobodyAsks, NobodyAdopts DEF Answered, Nobody
  <2> QED BY <2>1, <2>2, OrderKept
<1> QED BY <1>2, <1>3, <1>4, <1>5 DEF Client

LEMMA UserOrder ==
  ASSUME TInv, ChipOrder, User
  PROVE  ChipOrder'
<1>1. QueueTypes
  BY DEF TInv
<1>2. CASE Stop
  <2>1. cmds' = Disown(cmds, OfState) /\ msgs' = Disown(msgs, OfState) /\ ~Prepared'
    BY <1>2 DEF Stop, Prepared, Runs
  <2>2. ~Answered'
    BY <1>1, <2>1, DisownedAll DEF Nobody, Answered
  <2> QED BY <1>1, <2>1, <2>2, DisownedOrder, OrderKept
<1>3. CASE CancelPasswordRequest \/ EnterNewPacePin \/ \E word \in Words : EnterPacePassword(word)
  <2>1. UNCHANGED <<cmds, msgs>> /\ (Prepared' => Prepared)
    BY <1>3 DEF CancelPasswordRequest, EnterNewPacePin, EnterPacePassword, Waits, Goto, Prepared, Runs, readerVars
  <2> QED BY <2>1, OrderKept DEF Answered
<1> QED BY <1>2, <1>3 DEF User

(* What the reader thread has told by the time it answers that it has read *)
(* the counter.                                                            *)
ReadQueue == IF rdRc \in {-1, chipRc} THEN msgs ELSE Append(msgs, Signal(chipRc))

LEMMA CounterRead ==
  ASSUME TInv, ExecuteUpdateRetryCounter
  PROVE  /\ cmds # <<>> /\ Head(cmds).kind = "UPDATE_RC"
         /\ \/ Finish("FAILED") /\ rdRc' = rdRc
            \/ /\ present /\ rdRc' = chipRc /\ cmds' = Tail(cmds)
               /\ ReadQueue \in Seq(Messages) /\ Answer("OK") \in Messages
               /\ msgs' = Append(ReadQueue, Answer("OK"))
<1>1. QueueTypes /\ NumberTypes /\ SwitchTypes
  BY DEF TInv
<1>2. cmds # <<>> /\ Head(cmds).kind = "UPDATE_RC"
  BY DEF ExecuteUpdateRetryCounter, Executes
<1>3. CASE Finish("FAILED") /\ rdRc' = rdRc
  BY <1>2, <1>3
<1>4. CASE /\ present /\ rdRc' = chipRc /\ cmds' = Tail(cmds)
           /\ msgs' = msgs \o (IF rdRc \in {-1, chipRc} THEN <<>> ELSE <<Signal(chipRc)>>) \o <<Answer("OK")>>
  <2>1. chipRc \in Counters
    BY <1>1, CounterAssumption DEF NumberTypes, Counters
  <2>2. Signal(chipRc) \in Messages /\ Answer("OK") \in Messages
    BY <1>1, <1>2, <2>1, SignalTypes, FirstCommand DEF Codes
  <2>3. ReadQueue \in Seq(Messages)
    BY <1>1, <2>2, AppendProperties DEF QueueTypes, ReadQueue
  <2>4. msgs \o (IF rdRc \in {-1, chipRc} THEN <<>> ELSE <<Signal(chipRc)>>) = ReadQueue
    BY <1>1, <2>2, AppendIsConcat, ConcatEmptySeq DEF QueueTypes, ReadQueue
  <2>5. msgs' = Append(ReadQueue, Answer("OK"))
    BY <1>4, <2>2, <2>3, <2>4, AppendIsConcat
  <2> QED BY <1>2, <1>4, <2>2, <2>3, <2>5
<1> QED BY <1>3, <1>4 DEF ExecuteUpdateRetryCounter

LEMMA SignalsAreNobodys ==
  ASSUME TInv, NEW rc \in Counters
  PROVE  Signal(rc) \in Messages /\ ~IsOwn(Signal(rc)) /\ Signal(rc).kind = "changed"
BY SignalTypes DEF TInv, Signal, IsOwn, OfState

(* A step of the reader thread takes one command and answers it. *)
LEMMA Works ==
  ASSUME TInv, ReaderThread
  PROVE  /\ cmds # <<>> /\ cmds' = Tail(cmds) /\ SameState
         /\ \E code \in Codes :
              /\ Answer(code) \in Messages
              /\ \/ msgs' = Append(msgs, Answer(code)) /\ rdRc' = rdRc
                 \/ /\ Head(cmds).kind = "UPDATE_RC" /\ code = "OK" /\ present /\ rdRc' = chipRc
                    /\ ReadQueue \in Seq(Messages) /\ msgs' = Append(ReadQueue, Answer(code))
<1>1. QueueTypes /\ NumberTypes /\ SwitchTypes
  BY DEF TInv
<1>2. SameState /\ cmds # <<>>
  BY DEF ReaderThread, ExecuteCreate, ExecuteUpdateRetryCounter, ExecuteEstablishPaceChannel,
         ExecuteUnblockPin, ExecuteSetEidPin, Executes, SameState, controlVars
<1> DEFINE Done == \E code \in Codes :
              /\ Answer(code) \in Messages
              /\ \/ msgs' = Append(msgs, Answer(code)) /\ rdRc' = rdRc
                 \/ /\ Head(cmds).kind = "UPDATE_RC" /\ code = "OK" /\ present /\ rdRc' = chipRc
                    /\ ReadQueue \in Seq(Messages) /\ msgs' = Append(ReadQueue, Answer(code))
<1>3. ASSUME NEW code \in Codes, Finish(code), rdRc' = rdRc PROVE cmds' = Tail(cmds) /\ Done
  <2>1. Answer(code) \in Messages
    BY <1>1, <1>2, FirstCommand
  <2> QED BY <1>3, <2>1 DEF Finish
<1> HIDE DEF Done
<1>4. CASE ExecuteCreate \/ ExecuteSetEidPin
  <2>1. (Finish("OK") \/ Finish("FAILED")) /\ rdRc' = rdRc
    BY <1>4 DEF ExecuteCreate, ExecuteSetEidPin
  <2>2. cmds' = Tail(cmds) /\ Done
    BY <1>3, <2>1 DEF Codes
  <2> QED BY <1>2, <2>2 DEF Done
<1>5. CASE ExecuteEstablishPaceChannel \/ ExecuteUnblockPin
  <2>1. (\E code \in Codes : Finish(code)) /\ rdRc' = rdRc
    BY <1>1, <1>5, ChipTypes DEF ExecuteEstablishPaceChannel, ExecuteUnblockPin, ChipWorks, Codes
  <2>2. cmds' = Tail(cmds) /\ Done
    BY <1>3, <2>1
  <2> QED BY <1>2, <2>2 DEF Done
<1>6. CASE ExecuteUpdateRetryCounter
  <2>1. CASE Finish("FAILED") /\ rdRc' = rdRc
    <3>1. cmds' = Tail(cmds) /\ Done
      BY <1>3, <2>1 DEF Codes
    <3> QED BY <1>2, <3>1 DEF Done
  <2>2. CASE ~(Finish("FAILED") /\ rdRc' = rdRc)
    <3>1. /\ Head(cmds).kind = "UPDATE_RC" /\ present /\ rdRc' = chipRc /\ cmds' = Tail(cmds)
          /\ ReadQueue \in Seq(Messages) /\ Answer("OK") \in Messages
          /\ msgs' = Append(ReadQueue, Answer("OK"))
      BY <1>6, <2>2, CounterRead
    <3> QED BY <1>2, <3>1 DEF Codes
  <2> QED BY <2>1, <2>2
<1> QED BY <1>4, <1>5, <1>6 DEF ReaderThread

LEMMA AnswerIsFor ==
  ASSUME NEW code
  PROVE  /\ Answer(code).kind = Head(cmds).kind /\ Answer(code).id = Head(cmds).id
         /\ Answer(code).code = code
         /\ IsOwn(Answer(code)) <=> IsOwn(Head(cmds))
BY DEF Answer, IsOwn

LEMMA ReadQueueAdds ==
  ASSUME TInv
  PROVE  \A j \in DOMAIN ReadQueue :
           \/ j \in DOMAIN msgs /\ ReadQueue[j] = msgs[j]
           \/ rdRc \notin {-1, chipRc} /\ j = Len(msgs) + 1 /\ ReadQueue[j] = Signal(chipRc)
<1>1. chipRc \in Counters /\ QueueTypes
  BY CounterAssumption DEF TInv, NumberTypes, Counters
<1>2. Signal(chipRc) \in Messages
  BY <1>1, SignalsAreNobodys
<1> QED BY <1>1, <1>2, InAppended DEF ReadQueue, QueueTypes

LEMMA ThreadOrder ==
  ASSUME TInv, ChipOrder, ReaderThread
  PROVE  ChipOrder' /\ (OfChip(Head(cmds)) => \A k \in DOMAIN cmds' : ~OfChip(cmds'[k]))
<1>1. QueueTypes /\ cmds # <<>> /\ cmds' = Tail(cmds) /\ SameState
  BY Works DEF TInv
<1>2. PICK code \in Codes :
        /\ Answer(code) \in Messages
        /\ \/ msgs' = Append(msgs, Answer(code))
           \/ ReadQueue \in Seq(Messages) /\ msgs' = Append(ReadQueue, Answer(code))
  BY Works
<1>3. chipRc \in Counters
  BY CounterAssumption DEF TInv, NumberTypes, Counters
<1>4. ASSUME NEW j \in DOMAIN msgs', IsOwn(msgs'[j]) PROVE Answered \/ IsOwn(Head(cmds))
  <2>1. \/ j \in DOMAIN msgs /\ msgs'[j] = msgs[j]
        \/ msgs'[j] = Answer(code)
        \/ msgs'[j] = Signal(chipRc)
    <3>1. CASE msgs' = Append(msgs, Answer(code))
      BY <1>1, <1>2, <3>1, InAppended DEF QueueTypes
    <3>2. CASE ReadQueue \in Seq(Messages) /\ msgs' = Append(ReadQueue, Answer(code))
      <4>1. (j \in DOMAIN ReadQueue /\ msgs'[j] = ReadQueue[j]) \/ msgs'[j] = Answer(code)
        BY <1>2, <3>2, InAppended
      <4> QED BY <4>1, ReadQueueAdds
    <3> QED BY <1>2, <3>1, <3>2
  <2> QED BY <1>3, <1>4, <2>1, SignalsAreNobodys, AnswerIsFor DEF Answered
<1>5. Answered' => Answered \/ IsOwn(Head(cmds))
  BY <1>4 DEF Answered
<1>6. Prepared' => Prepared
  BY <1>1 DEF SameState, Prepared, Runs
<1> QED BY <1>1, <1>5, <1>6, OrderExecuted

LEMMA WorldOrder ==
  ASSUME TInv, ChipOrder, PutCard \/ TakeCard, rdRc' \in Counters
  PROVE  ChipOrder'
<1>1. QueueTypes /\ SameState /\ cmds' = cmds /\ msgs' = Append(msgs, Signal(rdRc'))
  BY DEF TInv, PutCard, TakeCard, SameState, controlVars
<1>2. Signal(rdRc') \in Messages /\ ~IsOwn(Signal(rdRc'))
  BY SignalTypes DEF TInv, Signal, IsOwn, OfState
<1>3. Answered' => Answered
  BY <1>1, <1>2, InAppended DEF Answered, QueueTypes
<1>4. Prepared' => Prepared
  BY <1>1 DEF SameState, Prepared, Runs
<1> QED BY <1>1, <1>3, <1>4, OrderKept

LEMMA NextOrder == IInv /\ ChipOrder /\ [Next]_vars => ChipOrder'
<1> SUFFICES ASSUME IInv, ChipOrder, [Next]_vars PROVE ChipOrder'
  OBVIOUS
<1>1. TInv /\ OneAnswer
  BY DEF IInv
<1>2. CASE Run
  BY <1>1, <1>2, RunOrder
<1>3. CASE Deliver
  BY <1>1, <1>3, DeliverOrder
<1>4. CASE Client
  BY <1>1, <1>4, ClientOrder
<1>5. CASE User
  BY <1>1, <1>5, UserOrder
<1>6. CASE ReaderThread
  BY <1>1, <1>6, ThreadOrder
<1>7. CASE PutCard \/ TakeCard
  <2>1. rdRc' \in Counters
    BY NextIInv DEF IInv, TInv, NumberTypes
  <2> QED BY <1>1, <1>7, <2>1, WorldOrder
<1>8. CASE UNCHANGED vars
  BY <1>8, OrderKept DEF vars, controlVars, readerVars, Answered, Prepared, Runs
<1> QED BY <1>2, <1>3, <1>4, <1>5, <1>6, <1>7, <1>8 DEF Next, MainThread, Terminated

-----------------------------------------------------------------------------
(* What a card connection knows of the counter when all signals before the *)
(* n-th event have been delivered. As long as nothing of it is missed, it  *)
(* is what the reader knows; a counter the reader has read without a       *)
(* signal, because it knew none, is not known to the connection.           *)

Listeners == {"handler", "context"}
Live(w)   == IF w = "context" THEN ctxConn ELSE held
Value(w)  == IF w = "context" THEN ctxRc ELSE connRc

Hears(e, w) == e.kind = "changed" /\ (IF w = "context" THEN e.ctx ELSE e.mine)

Told(q, n, w, v, x) ==
  \/ x = v /\ \A i \in DOMAIN q : i < n => ~Hears(q[i], w)
  \/ \E i \in DOMAIN q : /\ i < n /\ Hears(q[i], w) /\ x = q[i].rc
                         /\ \A k \in DOMAIN q : i < k /\ k < n => ~Hears(q[k], w)

Knows(w, x) == Told(msgs, Len(msgs) + 1, w, Value(w), x)

Views ==
  /\ \A w \in Listeners, x \in Counters :
       Live(w) /\ Knows(w, x) => x = rdRc \/ (x = -1 /\ failures >= 1)
  /\ present /\ rdRc = -1 => failures >= 1

LEMMA ToldAppended ==
  ASSUME NEW q \in Seq(Messages), NEW e \in Messages, NEW w, NEW v, NEW x
  PROVE  /\ \A n \in 1 .. (Len(q) + 1) : Told(Append(q, e), n, w, v, x) => Told(q, n, w, v, x)
         /\ Hears(e, w) /\ Told(Append(q, e), Len(Append(q, e)) + 1, w, v, x) => x = e.rc
         /\ ~Hears(e, w) /\ Told(Append(q, e), Len(Append(q, e)) + 1, w, v, x)
              => Told(q, Len(q) + 1, w, v, x)
<1> DEFINE r == Append(q, e)
<1>1. /\ Len(r) = Len(q) + 1 /\ DOMAIN r = 1 .. (Len(q) + 1) /\ DOMAIN q = 1 .. Len(q)
      /\ Len(q) \in Nat /\ r[Len(q) + 1] = e /\ \A i \in DOMAIN q : r[i] = q[i]
  BY AppendProperties, LenProperties
<1> HIDE DEF r
<1>2. ASSUME NEW n \in 1 .. (Len(q) + 1), Told(r, n, w, v, x) PROVE Told(q, n, w, v, x)
  <2>1. \A i \in DOMAIN r : i < n => i \in DOMAIN q
    BY <1>1
  <2>2. CASE x = v /\ \A i \in DOMAIN r : i < n => ~Hears(r[i], w)
    BY <1>1, <2>2 DEF Told
  <2>3. ASSUME NEW i \in DOMAIN r, i < n, Hears(r[i], w), x = r[i].rc,
               \A k \in DOMAIN r : i < k /\ k < n => ~Hears(r[k], w)
        PROVE  Told(q, n, w, v, x)
    <3>1. i \in DOMAIN q /\ r[i] = q[i]
      BY <1>1, <2>1, <2>3
    <3>2. \A k \in DOMAIN q : i < k /\ k < n => ~Hears(q[k], w)
      BY <1>1, <2>3
    <3> QED BY <2>3, <3>1, <3>2 DEF Told
  <2> QED BY <1>2, <2>2, <2>3 DEF Told
<1>3. ASSUME Hears(e, w), Told(r, Len(r) + 1, w, v, x) PROVE x = e.rc
  <2>1. Len(q) + 1 \in DOMAIN r /\ Hears(r[Len(q) + 1], w) /\ Len(q) + 1 < Len(r) + 1
    BY <1>1, <1>3
  <2>2. PICK i \in DOMAIN r : /\ i < Len(r) + 1 /\ Hears(r[i], w) /\ x = r[i].rc
                              /\ \A k \in DOMAIN r : i < k /\ k < Len(r) + 1 => ~Hears(r[k], w)
    BY <1>3, <2>1 DEF Told
  <2>3. ~(i < Len(q) + 1)
    BY <2>1, <2>2
  <2>4. i = Len(q) + 1
    BY <1>1, <2>3
  <2> QED BY <1>1, <2>2, <2>4
<1>4. ASSUME ~Hears(e, w), Told(r, Len(r) + 1, w, v, x) PROVE Told(q, Len(q) + 1, w, v, x)
  <2>1. CASE x = v /\ \A i \in DOMAIN r : i < Len(r) + 1 => ~Hears(r[i], w)
    <3>1. \A i \in DOMAIN q : ~Hears(q[i], w)
      BY <1>1, <2>1
    <3> QED BY <2>1, <3>1 DEF Told
  <2>2. ASSUME NEW i \in DOMAIN r, Hears(r[i], w), x = r[i].rc,
               \A k \in DOMAIN r : i < k /\ k < Len(r) + 1 => ~Hears(r[k], w)
        PROVE  Told(q, Len(q) + 1, w, v, x)
    <3>1. i \in DOMAIN q /\ r[i] = q[i] /\ i < Len(q) + 1
      BY <1>1, <1>4, <2>2
    <3>2. \A k \in DOMAIN q : i < k => ~Hears(q[k], w)
      BY <1>1, <2>2
    <3> QED BY <2>2, <3>1, <3>2 DEF Told
  <2> QED BY <1>4, <2>1, <2>2 DEF Told
<1> QED BY <1>2, <1>3, <1>4 DEF r

(* Of two queues of which one is what is left of the other when its first  *)
(* event has been delivered.                                               *)
LEMMA ToldLess ==
  ASSUME NEW q \in Seq(Messages), NEW r \in Seq(Messages), Len(q) = Len(r) + 1, NEW w, NEW v, NEW x,
         \A i \in DOMAIN r : /\ Hears(r[i], w) <=> Hears(q[i + 1], w)
                             /\ Hears(r[i], w) => r[i].rc = q[i + 1].rc,
         NEW n \in Nat \ {0},
         Told(r, n, w, IF Hears(q[1], w) THEN q[1].rc ELSE v, x)
  PROVE  Told(q, n + 1, w, v, x)
<1>1. /\ DOMAIN q = 1 .. (Len(r) + 1) /\ DOMAIN r = 1 .. Len(r) /\ Len(r) \in Nat
  BY LenProperties
<1>2. ASSUME NEW k \in DOMAIN q, 1 < k, k < n + 1 PROVE k - 1 \in DOMAIN r /\ k - 1 < n /\ (k - 1) + 1 = k
  BY <1>1, <1>2
<1>3. CASE \A i \in DOMAIN r : i < n => ~Hears(r[i], w)
  <2>1. \A k \in DOMAIN q : 1 < k /\ k < n + 1 => ~Hears(q[k], w)
    <3>1. ASSUME NEW k \in DOMAIN q, 1 < k, k < n + 1 PROVE ~Hears(q[k], w)
      BY <1>2, <1>3, <3>1
    <3> QED BY <3>1
  <2>2. x = IF Hears(q[1], w) THEN q[1].rc ELSE v
    BY <1>3 DEF Told
  <2>3. 1 \in DOMAIN q /\ 1 < n + 1 /\ \A k \in DOMAIN q : k = 1 \/ 1 < k
    BY <1>1
  <2> QED BY <2>1, <2>2, <2>3 DEF Told
<1>4. ASSUME NEW i \in DOMAIN r, i < n, Hears(r[i], w), x = r[i].rc,
             \A k \in DOMAIN r : i < k /\ k < n => ~Hears(r[k], w)
      PROVE  Told(q, n + 1, w, v, x)
  <2>1. i + 1 \in DOMAIN q /\ i + 1 < n + 1 /\ Hears(q[i + 1], w) /\ x = q[i + 1].rc
    BY <1>1, <1>4
  <2>2. ASSUME NEW k \in DOMAIN q, i + 1 < k, k < n + 1 PROVE ~Hears(q[k], w)
    <3>1. k - 1 \in DOMAIN r /\ i < k - 1 /\ k - 1 < n /\ (k - 1) + 1 = k
      BY <1>1, <2>2
    <3> QED BY <1>4, <3>1
  <2> QED BY <2>1, <2>2 DEF Told
<1> QED BY <1>3, <1>4 DEF Told

(* Of two queues that tell the same. *)
LEMMA ToldAlike ==
  ASSUME NEW q, NEW r, DOMAIN r = DOMAIN q, NEW u, NEW w, NEW v, NEW x, NEW n,
         \A i \in DOMAIN q : /\ Hears(r[i], u) <=> Hears(q[i], w)
                             /\ Hears(r[i], u) => r[i].rc = q[i].rc,
         Told(r, n, u, v, x)
  PROVE  Told(q, n, w, v, x)
BY DEF Told

(* Where a connection has its knowledge from: from the reader, or from one *)
(* that was there before.                                                  *)
SomeoneKnows(x) == \E u \in Listeners : Live(u) /\ Knows(u, x)

HearSay ==
  \A w \in Listeners, x \in Counters :
    Live(w)' /\ Knows(w, x)' =>
      \/ x = rdRc'
      \/ SomeoneKnows(x) /\ (rdRc' = rdRc \/ (rdRc = -1 /\ present))

Steady(w) == Live(w)' => Live(w) /\ Value(w)' = Value(w)

LEMMA SameNews ==
  ASSUME rdRc' = rdRc, \A w \in Listeners : Steady(w), DOMAIN msgs' = DOMAIN msgs, Len(msgs') = Len(msgs),
         \A w \in Listeners, i \in DOMAIN msgs : /\ Hears(msgs'[i], w) <=> Hears(msgs[i], w)
                                                 /\ Hears(msgs'[i], w) => msgs'[i].rc = msgs[i].rc
  PROVE  HearSay
<1> SUFFICES ASSUME NEW w \in Listeners, NEW x \in Counters, Live(w)', Knows(w, x)'
             PROVE  SomeoneKnows(x)
  BY DEF HearSay
<1>1. Live(w) /\ Told(msgs', Len(msgs) + 1, w, Value(w), x)
  BY DEF Steady, Knows
<1>2. Told(msgs, Len(msgs) + 1, w, Value(w), x)
  BY <1>1, ToldAlike
<1> QED BY <1>1, <1>2 DEF SomeoneKnows, Knows

LEMMA DisownedHears ==
  ASSUME QueueTypes, NEW kinds, "changed" \notin kinds, msgs' = Disown(msgs, kinds)
  PROVE  /\ DOMAIN msgs' = DOMAIN msgs /\ Len(msgs') = Len(msgs)
         /\ \A w \in Listeners, i \in DOMAIN msgs : /\ Hears(msgs'[i], w) <=> Hears(msgs[i], w)
                                                    /\ Hears(msgs'[i], w) => msgs'[i].rc = msgs[i].rc
<1>1. DOMAIN msgs' = DOMAIN msgs /\ msgs' \in Seq(Messages)
  BY DisownedMessages DEF Disown, QueueTypes
<1>2. Len(msgs') = Len(msgs)
  BY <1>1, LenProperties DEF QueueTypes
<1>3. ASSUME NEW i \in DOMAIN msgs, msgs[i].kind = "changed" PROVE msgs'[i] = msgs[i]
  BY <1>3 DEF Disown
<1>4. ASSUME NEW i \in DOMAIN msgs, msgs[i].kind # "changed" PROVE msgs'[i].kind # "changed"
  <2>1. msgs[i] \in Messages
    BY DEF QueueTypes
  <2>2. [msgs[i] EXCEPT !.mine = FALSE].kind = msgs[i].kind
    BY <2>1 DEF Messages, Replies, Signals
  <2> QED BY <1>4, <2>2 DEF Disown
<1> QED BY <1>1, <1>2, <1>3, <1>4 DEF Hears

LEMMA RunHears ==
  ASSUME TInv, Run
  PROVE  HearSay
<1>1. QueueTypes
  BY DEF TInv
<1>2. /\ rdRc' = rdRc /\ (msgs' = msgs \/ msgs' = Disown(msgs, {"CREATE"}))
      /\ held' => held /\ connRc' = connRc
      /\ ctxConn' => ctxConn /\ ctxRc' = ctxRc
  BY DEF Runs, Post,
         Run, RunStartRemoteService, RunProcessRemoteMessages, RunUpdateRetryCounter,
         RunVerifyRetryCounter, RunPreparePace, Asks, RunEstablishPaceChannel,
         RunEstablishPaceChannelResponse, RunClearPacePasswords, RunPrepareChangePin, RunChangePin,
         RunChangePinResponse, RunStopRemoteService, DropConnection, Leads, OnResetMessageHandler,
         ResetCardConnection,
         UnchangedByStep,
         controlVars, contextVars, passwordVars, settingVars, serverVars, chipVars, worldVars,
         readerVars
<1>3. \A w \in Listeners : Steady(w)
  BY <1>2 DEF Steady, Live, Value
<1> QED BY <1>1, <1>2, <1>3, SameNews, DisownedHears

LEMMA UserHears ==
  ASSUME TInv, User
  PROVE  HearSay
<1>1. QueueTypes
  BY DEF TInv
<1>2. /\ rdRc' = rdRc /\ (msgs' = msgs \/ msgs' = Disown(msgs, OfState))
      /\ held' = held /\ connRc' = connRc /\ ctxConn' = ctxConn /\ ctxRc' = ctxRc
  BY DEF User, CancelPasswordRequest, EnterNewPacePin, EnterPacePassword, Stop,
         contextVars, settingVars, serverVars, readerVars
<1>3. \A w \in Listeners : Steady(w)
  BY <1>2 DEF Steady, Live, Value
<1>4. "changed" \notin OfState
  BY DEF OfState
<1>5. CASE msgs' = msgs
  BY <1>2, <1>3, <1>5, SameNews
<1>6. CASE msgs' = Disown(msgs, OfState)
  <2>1. /\ DOMAIN msgs' = DOMAIN msgs /\ Len(msgs') = Len(msgs)
        /\ \A w \in Listeners, i \in DOMAIN msgs : /\ Hears(msgs'[i], w) <=> Hears(msgs[i], w)
                                                   /\ Hears(msgs'[i], w) => msgs'[i].rc = msgs[i].rc
    BY <1>1, <1>4, <1>6, DisownedHears
  <2> QED BY <1>2, <1>3, <2>1, SameNews
<1> QED BY <1>2, <1>5, <1>6

LEMMA ClientHears ==
  ASSUME TInv, Client
  PROVE  HearSay
<1>1. QueueTypes
  BY DEF TInv
<1>2. CASE Connects \/ Closes \/ IfdConnect \/ IfdDisconnect \/ IfdTransmitSecured
  <2>1. /\ rdRc' = rdRc /\ (msgs' = msgs \/ msgs' = Disown(msgs, {"CREATE"}))
        /\ held' => held /\ connRc' = connRc
        /\ ctxConn' => ctxConn /\ ctxRc' = ctxRc
    BY <1>2 DEF Connects, Closes, DropConnection, IfdConnect, IfdDisconnect, IfdTransmitSecured, OnResetMessageHandler,
                ResetCardConnection, contextVars, settingVars, serverVars, readerVars
  <2>2. \A w \in Listeners : Steady(w)
    BY <2>1 DEF Steady, Live, Value
  <2> QED BY <1>1, <2>1, <2>2, SameNews, DisownedHears
<1>3. CASE IfdModifyPin \/ \E id \in PaceIds : IfdEstablishPaceChannel(id)
  <2>1. SetCardConnection /\ held /\ held' = held /\ connRc' = connRc /\ rdRc' = rdRc
    BY <1>3 DEF IfdModifyPin, IfdEstablishPaceChannel, serverVars
  <2>2. msgs' \in Seq(Messages) /\ DOMAIN msgs' = DOMAIN msgs
    BY <1>1, <2>1, AdoptedMessages, Adopted DEF QueueTypes
  <2>3. Len(msgs') = Len(msgs)
    BY <1>1, <2>2, LenProperties DEF QueueTypes
  <2>4. \A w \in Listeners : Value(w)' = Value("handler")
    BY <2>1 DEF Value, SetCardConnection
  <2>5. \A w \in Listeners, i \in DOMAIN msgs :
          /\ Hears(msgs'[i], w) <=> Hears(msgs[i], "handler")
          /\ Hears(msgs'[i], w) => msgs'[i].rc = msgs[i].rc
    BY <1>1, <2>1, Adopted DEF Hears
  <2>6. ASSUME NEW w \in Listeners, NEW x \in Counters, Knows(w, x)' PROVE SomeoneKnows(x)
    <3>1. Told(msgs', Len(msgs) + 1, w, Value("handler"), x)
      BY <2>3, <2>4, <2>6 DEF Knows
    <3>2. Told(msgs, Len(msgs) + 1, "handler", Value("handler"), x)
      BY <2>2, <2>5, <3>1, ToldAlike
    <3>3. "handler" \in Listeners /\ Live("handler")
      BY <2>1 DEF Listeners, Live
    <3> QED BY <3>2, <3>3 DEF SomeoneKnows, Knows
  <2> QED BY <2>1, <2>6 DEF HearSay
<1> QED BY <1>2, <1>3 DEF Client

(* What the first event tells, and what the others tell without it. *)
Learns(w) == Value(w)' = IF Hears(Head(msgs), w) THEN Head(msgs).rc ELSE Value(w)

LEMMA HeardLess ==
  ASSUME QueueTypes, msgs # <<>>, Taken \/ msgs' = Disown(Tail(msgs), {"changed"}),
         NEW w, Taken \/ w = "context"
  PROVE  /\ msgs' \in Seq(Messages) /\ Len(msgs) = Len(msgs') + 1
         /\ \A v, x : \A n \in Nat \ {0} :
              Told(msgs', n, w, IF Hears(msgs[1], w) THEN msgs[1].rc ELSE v, x) => Told(msgs, n + 1, w, v, x)
<1>1. Tail(msgs) \in Seq(Messages) /\ msgs' \in Seq(Messages)
  BY FirstMessage, DisownedMessages DEF Taken
<1>2. Len(msgs) = Len(msgs') + 1
  <2>1. DOMAIN msgs' = DOMAIN Tail(msgs)
    BY DEF Taken, Disown
  <2> QED BY <1>1, <2>1, LenProperties, HeadTailProperties DEF QueueTypes
<1>3. \A i \in DOMAIN msgs' : /\ i + 1 \in DOMAIN msgs /\ msgs[i + 1] \in Messages
                              /\ msgs'[i] \in {msgs[i + 1], [msgs[i + 1] EXCEPT !.mine = FALSE]}
                              /\ msgs'[i].kind = msgs[i + 1].kind
                              /\ Taken => msgs'[i] = msgs[i + 1]
  <2>1. \A i \in DOMAIN msgs : msgs[i] \in Messages
    BY DEF QueueTypes
  <2>2. \A i \in DOMAIN msgs' : Taken => msgs'[i] = msgs[i + 1]
    BY InTail DEF QueueTypes, Taken
  <2> QED BY <2>1, <2>2, TakenOff
<1>4. \A e \in Messages : e.kind = "changed" =>
        [e EXCEPT !.mine = FALSE].rc = e.rc /\ [e EXCEPT !.mine = FALSE].ctx = e.ctx
  BY DEF Messages, Replies, Signals, OfState
<1>5. \A i \in DOMAIN msgs' : /\ Hears(msgs'[i], w) <=> Hears(msgs[i + 1], w)
                              /\ Hears(msgs'[i], w) => msgs'[i].rc = msgs[i + 1].rc
  <2>1. CASE Taken
    BY <1>3, <2>1 DEF Hears
  <2>2. CASE w = "context"
    BY <1>3, <1>4, <2>2 DEF Hears
  <2> QED BY <2>1, <2>2
<1>6. \A v, x : \A n \in Nat \ {0} :
        Told(msgs', n, w, IF Hears(msgs[1], w) THEN msgs[1].rc ELSE v, x) => Told(msgs, n + 1, w, v, x)
  BY <1>1, <1>2, <1>5, ToldLess DEF QueueTypes
<1> QED BY <1>1, <1>2, <1>6

LEMMA DeliverHears ==
  ASSUME TInv, Deliver
  PROVE  HearSay
<1>1. /\ QueueTypes /\ msgs # <<>> /\ rdRc' = rdRc
      /\ Taken \/ msgs' = Disown(Tail(msgs), {"changed"})
  BY DEF TInv, Deliver, DropReply, OnUpdateRetryCounterDone, OnEstablishConnectionDone, OnUnblockPinDone,
         OnChangePinDone, OnCreateCardConnectionCommandDone, OnReaderChanged, Arrives
<1>2. Tail(msgs) \in Seq(Messages) /\ Head(msgs) = msgs[1]
  BY <1>1, FirstMessage, InTail DEF QueueTypes
<1>3. ASSUME NEW w \in Listeners, Live(w), Learns(w), Taken \/ w = "context", NEW x \in Counters, Knows(w, x)'
      PROVE  SomeoneKnows(x)
  <2>1. Told(msgs', Len(msgs') + 1, w, IF Hears(msgs[1], w) THEN msgs[1].rc ELSE Value(w), x)
    BY <1>2, <1>3 DEF Knows, Learns
  <2>2. Len(msgs') + 1 \in Nat \ {0} /\ Len(msgs) = Len(msgs') + 1
    BY <1>1, <1>3, HeardLess, LenProperties
  <2>3. Told(msgs, (Len(msgs') + 1) + 1, w, Value(w), x)
    BY <1>1, <1>3, <2>1, <2>2, HeardLess
  <2> QED BY <1>3, <2>2, <2>3 DEF SomeoneKnows, Knows
<1>4. CASE OnCreateCardConnectionCommandDone /\ Head(msgs).code = "OK"
  <2>1. /\ held' = TRUE /\ connRc' = rdRc /\ msgs' = Disown(Tail(msgs), {"changed"})
        /\ ctxConn' = ctxConn /\ ctxRc' = ctxRc /\ Head(msgs).kind = "CREATE"
    BY <1>4 DEF OnCreateCardConnectionCommandDone, Arrives, contextVars, settingVars
  <2>2. ASSUME NEW x \in Counters, Knows("handler", x)' PROVE x = rdRc'
    <3>1. ASSUME NEW i \in DOMAIN msgs' PROVE ~Hears(msgs'[i], "handler")
      <4>1. i \in DOMAIN Tail(msgs) /\ Tail(msgs)[i] \in Messages
        BY <1>2, <2>1 DEF Disown
      <4>2. Tail(msgs)[i].kind = "changed" => msgs'[i].mine = FALSE
        BY <2>1, <4>1 DEF Disown, Messages, Replies, Signals
      <4>3. Tail(msgs)[i].kind # "changed" => msgs'[i] = Tail(msgs)[i]
        BY <2>1, <4>1 DEF Disown
      <4> QED BY <4>2, <4>3 DEF Hears
    <3>2. x = Value("handler")'
      BY <2>2, <3>1 DEF Knows, Told
    <3> QED BY <1>1, <2>1, <3>2 DEF Value
  <2>3. ASSUME NEW x \in Counters, ctxConn, Knows("context", x)' PROVE SomeoneKnows(x)
    <3>1. "context" \in Listeners /\ Live("context") /\ Learns("context")
      BY <2>1, <2>3 DEF Listeners, Live, Learns, Value, Hears
    <3> QED BY <1>3, <2>3, <3>1
  <2> QED BY <1>1, <2>1, <2>2, <2>3 DEF HearSay, Live, Listeners
<1>5. ASSUME Taken, \A w \in Listeners : Live(w)' => Live(w) /\ Learns(w) PROVE HearSay
  BY <1>1, <1>3, <1>5 DEF HearSay
<1>6. CASE OnReaderChanged
  <2>1. /\ held' => held /\ connRc' = IF Head(msgs).mine THEN Head(msgs).rc ELSE connRc
        /\ ctxRc' = IF Head(msgs).ctx /\ ctxConn THEN Head(msgs).rc ELSE ctxRc
        /\ ctxConn' = ctxConn /\ Head(msgs).kind = "changed" /\ Taken
    BY <1>6 DEF OnReaderChanged, DropConnection, Arrives
  <2>2. \A w \in Listeners : Live(w)' => Live(w) /\ Learns(w)
    BY <2>1 DEF Live, Learns, Value, Hears
  <2> QED BY <1>5, <2>1, <2>2
<1>7. CASE \/ DropReply \/ OnUpdateRetryCounterDone \/ OnEstablishConnectionDone \/ OnUnblockPinDone
           \/ OnChangePinDone \/ (OnCreateCardConnectionCommandDone /\ Head(msgs).code # "OK")
  <2>1. /\ Head(msgs).kind # "changed" /\ Taken
        /\ held' = held /\ connRc' = connRc
        /\ ctxConn' => ctxConn /\ ctxRc' = ctxRc
    BY <1>7 DEF DropReply, OnUpdateRetryCounterDone, OnEstablishConnectionDone, OnUnblockPinDone,
         OnChangePinDone, OnCreateCardConnectionCommandDone, Arrives, ResetCardConnection,
         contextVars, settingVars, serverVars
  <2>2. \A w \in Listeners : Live(w)' => Live(w) /\ Learns(w)
    BY <2>1 DEF Live, Learns, Value, Hears
  <2> QED BY <1>5, <2>1, <2>2
<1> QED BY <1>4, <1>6, <1>7 DEF Deliver

LEMMA ThreadHears ==
  ASSUME TInv, ReaderThread
  PROVE  HearSay
<1>1. QueueTypes /\ cmds # <<>>
  BY Works DEF TInv
<1>2. PICK code \in Codes :
        /\ Answer(code) \in Messages
        /\ \/ msgs' = Append(msgs, Answer(code)) /\ rdRc' = rdRc
           \/ /\ present /\ rdRc' = chipRc
              /\ ReadQueue \in Seq(Messages) /\ msgs' = Append(ReadQueue, Answer(code))
  BY Works
<1>3. \A w \in Listeners : Live(w)' = Live(w) /\ Value(w)' = Value(w)
  BY DEF ReaderThread, ExecuteCreate, ExecuteUpdateRetryCounter, ExecuteEstablishPaceChannel,
         ExecuteUnblockPin, ExecuteSetEidPin, ChipWorks, contextVars, settingVars, serverVars, Live, Value
<1>4. \A w : ~Hears(Answer(code), w)
  <2>1. Head(cmds).kind # "changed"
    BY <1>1, FirstCommand DEF Commands, OfState
  <2> QED BY <2>1, AnswerIsFor DEF Hears
<1>5. ASSUME NEW w \in Listeners, NEW x \in Counters, Live(w)', Knows(w, x)'
      PROVE  \/ x = rdRc'
             \/ SomeoneKnows(x) /\ (rdRc' = rdRc \/ (rdRc = -1 /\ present))
  <2>1. Live(w) /\ Told(msgs', Len(msgs') + 1, w, Value(w), x)
    BY <1>3, <1>5 DEF Knows
  <2>2. CASE msgs' = Append(msgs, Answer(code)) /\ rdRc' = rdRc
    <3>1. Told(msgs, Len(msgs) + 1, w, Value(w), x)
      BY <1>1, <1>2, <1>4, <2>1, <2>2, ToldAppended DEF QueueTypes
    <3> QED BY <2>1, <2>2, <3>1 DEF SomeoneKnows, Knows
  <2>3. CASE /\ present /\ rdRc' = chipRc
             /\ ReadQueue \in Seq(Messages) /\ msgs' = Append(ReadQueue, Answer(code))
    <3>1. Told(ReadQueue, Len(ReadQueue) + 1, w, Value(w), x)
      BY <1>2, <1>4, <2>1, <2>3, ToldAppended
    <3>2. CASE rdRc \in {-1, chipRc}
      <4>1. ReadQueue = msgs
        BY <3>2 DEF ReadQueue
      <4> QED BY <2>1, <2>3, <3>1, <3>2, <4>1 DEF SomeoneKnows, Knows
    <3>3. CASE rdRc \notin {-1, chipRc}
      <4>1. ReadQueue = Append(msgs, Signal(chipRc))
        BY <3>3 DEF ReadQueue
      <4>2. Signal(chipRc) \in Messages /\ Signal(chipRc).kind = "changed"
        BY CounterAssumption, SignalsAreNobodys DEF TInv, NumberTypes, Counters
      <4>3. Hears(Signal(chipRc), w) /\ Signal(chipRc).rc = chipRc
        BY <2>1, <4>2 DEF Signal, Hears, Live
      <4> QED BY <1>1, <2>3, <3>1, <4>1, <4>2, <4>3, ToldAppended DEF QueueTypes
    <3> QED BY <3>2, <3>3
  <2> QED BY <1>2, <2>2, <2>3
<1> QED BY <1>5 DEF HearSay

LEMMA WorldHears ==
  ASSUME TInv, PutCard \/ TakeCard, rdRc' \in Counters
  PROVE  HearSay
<1>1. /\ QueueTypes /\ msgs' = Append(msgs, Signal(rdRc'))
      /\ held' = held /\ connRc' = connRc /\ ctxConn' = ctxConn /\ ctxRc' = ctxRc
  BY DEF TInv, PutCard, TakeCard, contextVars, settingVars, serverVars
<1>2. Signal(rdRc') \in Messages /\ Signal(rdRc').kind = "changed" /\ Signal(rdRc').rc = rdRc'
  BY SignalsAreNobodys DEF Signal
<1>3. ASSUME NEW w \in Listeners, NEW x \in Counters, Live(w)', Knows(w, x)' PROVE x = rdRc'
  <2>1. Hears(Signal(rdRc'), w)
    BY <1>1, <1>2, <1>3 DEF Signal, Hears, Live
  <2> QED BY <1>1, <1>2, <1>3, <2>1, ToldAppended DEF Knows, QueueTypes
<1> QED BY <1>3 DEF HearSay

LEMMA NextHears == IInv /\ [Next]_vars => HearSay
<1> SUFFICES ASSUME IInv, [Next]_vars PROVE HearSay
  OBVIOUS
<1>1. TInv
  BY DEF IInv
<1>2. CASE Run
  BY <1>1, <1>2, RunHears
<1>3. CASE Deliver
  BY <1>1, <1>3, DeliverHears
<1>4. CASE Client
  BY <1>1, <1>4, ClientHears
<1>5. CASE User
  BY <1>1, <1>5, UserHears
<1>6. CASE ReaderThread
  BY <1>1, <1>6, ThreadHears
<1>7. CASE PutCard \/ TakeCard
  <2>1. rdRc' \in Counters
    BY NextIInv DEF IInv, TInv, NumberTypes
  <2> QED BY <1>1, <1>7, <2>1, WorldHears
<1>8. CASE UNCHANGED vars
  BY <1>8, SameNews DEF vars, contextVars, settingVars, serverVars, readerVars, Steady, Live, Value
<1> QED BY <1>2, <1>3, <1>4, <1>5, <1>6, <1>7, <1>8 DEF Next, MainThread, Terminated

(* What changes in the reader, and who changes it. *)
LEMMA NextReads ==
  ASSUME IInv, [Next]_vars
  PROVE  /\ failures' \in Nat /\ failures \in Nat /\ failures' >= failures
         /\ \/ rdRc' = rdRc /\ present' = present
            \/ rdRc' = chipRc /\ present' = present /\ present
            \/ PutCard \/ TakeCard
         /\ PutCard => /\ present'
                    /\ \/ rdRc' = chipRc /\ failures' = failures
                       \/ rdRc' = -1 /\ failures' = failures + 1
         /\ TakeCard => ~present' /\ rdRc' = -1 /\ failures' = failures
         /\ ~PutCard => failures' = failures
<1>1. TInv /\ TInv'
  BY NextIInv DEF IInv
<1>2. failures \in Nat /\ failures' \in Nat
  BY <1>1, BoundAssumption DEF TInv, NumberTypes
<1>3. PutCard => /\ present'
                 /\ \/ rdRc' = chipRc /\ failures' = failures
                    \/ rdRc' = -1 /\ failures' = failures + 1
  BY DEF PutCard
<1>4. TakeCard => ~present' /\ rdRc' = -1 /\ failures' = failures
  BY DEF TakeCard
<1>5. \/ failures' = failures /\ rdRc' = rdRc /\ present' = present
      \/ failures' = failures /\ rdRc' = chipRc /\ present' = present /\ present
      \/ PutCard \/ TakeCard
  <2>1. CASE Run
    BY <2>1 DEF Runs, Post,
         Run, RunStartRemoteService, RunProcessRemoteMessages, RunUpdateRetryCounter,
         RunVerifyRetryCounter, RunPreparePace, Asks, RunEstablishPaceChannel,
         RunEstablishPaceChannelResponse, RunClearPacePasswords, RunPrepareChangePin, RunChangePin,
         RunChangePinResponse, RunStopRemoteService, UnchangedByStep, worldVars, readerVars
  <2>2. CASE Deliver
    BY <2>2 DEF Deliver, DropReply, OnUpdateRetryCounterDone, OnEstablishConnectionDone, OnUnblockPinDone,
         OnChangePinDone, OnCreateCardConnectionCommandDone, OnReaderChanged, worldVars
  <2>3. CASE Client
    BY <2>3 DEF Client, Connects, Closes, IfdConnect, IfdDisconnect, IfdEstablishPaceChannel, IfdModifyPin,
         IfdTransmitSecured, worldVars, readerVars
  <2>4. CASE User
    BY <2>4 DEF User, EnterPacePassword, EnterNewPacePin, CancelPasswordRequest, Stop, worldVars, readerVars
  <2>5. CASE ReaderThread
    <3>1. present' = present /\ failures' = failures
      BY <2>5 DEF ReaderThread, ExecuteCreate, ExecuteUpdateRetryCounter, ExecuteEstablishPaceChannel,
         ExecuteUnblockPin, ExecuteSetEidPin, worldVars
    <3> QED BY <1>1, <2>5, <3>1, Works
  <2>6. CASE UNCHANGED vars
    BY <2>6 DEF vars, readerVars, worldVars
  <2> QED BY <2>1, <2>2, <2>3, <2>4, <2>5, <2>6 DEF Next, MainThread, Terminated
<1> QED BY <1>2, <1>3, <1>4, <1>5

LEMMA NextViews == IInv /\ Views /\ [Next]_vars => Views'
<1> SUFFICES ASSUME IInv, Views, [Next]_vars PROVE Views'
  OBVIOUS
<1>1. HearSay
  BY NextHears
<1>2. /\ failures' \in Nat /\ failures \in Nat /\ failures' >= failures
      /\ \/ rdRc' = rdRc /\ present' = present
         \/ rdRc' = chipRc /\ present' = present /\ present
         \/ PutCard \/ TakeCard
      /\ PutCard => /\ present'
                    /\ \/ rdRc' = chipRc /\ failures' = failures
                       \/ rdRc' = -1 /\ failures' = failures + 1
      /\ TakeCard => ~present' /\ rdRc' = -1 /\ failures' = failures
  BY NextReads
<1>3. chipRc \in Nat
  BY CounterAssumption DEF IInv, TInv, NumberTypes
<1>4. present' /\ rdRc' = -1 => failures' >= 1
  <2>1. CASE rdRc' = rdRc /\ present' = present
    BY <1>2, <2>1 DEF Views
  <2>2. CASE rdRc' = chipRc \/ TakeCard
    BY <1>2, <1>3, <2>2
  <2>3. CASE PutCard
    BY <1>2, <1>3, <2>3
  <2> QED BY <1>2, <2>1, <2>2, <2>3
<1>5. ASSUME NEW w \in Listeners, NEW x \in Counters, Live(w)', Knows(w, x)'
      PROVE  x = rdRc' \/ (x = -1 /\ failures' >= 1)
  <2>1. \/ x = rdRc'
        \/ SomeoneKnows(x) /\ (rdRc' = rdRc \/ (rdRc = -1 /\ present))
    BY <1>1, <1>5 DEF HearSay
  <2>2. SomeoneKnows(x) => x = rdRc \/ (x = -1 /\ failures >= 1)
    BY DEF SomeoneKnows, Views
  <2> QED BY <1>2, <2>1, <2>2 DEF Views
<1> QED BY <1>4, <1>5 DEF Views

-----------------------------------------------------------------------------
(* Why a rejected PIN is found out. The chip has lowered its counter; the  *)
(* expected counter is not lowered with it unless the answer arrives, and  *)
(* then the passwords are forgotten. So it is Behind: one above that of    *)
(* the chip, or, when the first reading of the counter had failed, still   *)
(* -1 while every connection that hears of the present counter knows it.   *)
(* That holds as long as at most one reading has failed: after a second    *)
(* one the context may take the -1 of now for the -1 of then.              *)

Blind == failures >= 1 /\ rdRc \in {chipRc, -1} /\ (present => rdRc # -1)
KnownCounter(x) == x = chipRc \/ (x = -1 /\ Blind)

Spent == rejections >= 1 /\ pw["PIN"] # NoWord

Clears == \/ Runs("ClearPacePasswords")
          \/ Runs("EstablishPaceChannelResponse") /\ paceOut = "INVALID"

Behind ==
  \/ expRc = chipRc + 1
  \/ /\ expRc = -1 /\ failures >= 1 /\ (present => rdRc # -1)
     /\ rdRc = chipRc => \A w \in Listeners, x \in Counters : Live(w) /\ Knows(w, x) => x = chipRc

OkCounter(e) == IsOwn(e) /\ e.kind = "UPDATE_RC" /\ e.code = "OK"
PinTaken(e)  == IsOwn(e) /\ e.kind = "PACE" /\ e.id = "PIN" /\ e.code = "OK"

Fresh(x) == KnownCounter(x) /\ (Spent => x # expRc)

\* What the context will know when the answer of the counter has arrived.
CounterTold ==
  \A j \in DOMAIN msgs, x \in Counters :
    OkCounter(msgs[j]) /\ ctxConn /\ Told(msgs, j, "context", ctxRc, x) => Fresh(x)

CounterTaken == Runs("VerifyRetryCounter") /\ ctxConn => Fresh(ctxRc)

CounterCompared == Prepared /\ st # "VerifyRetryCounter" => KnownCounter(expRc) /\ ~Spent

WordThere == Runs("EstablishPaceChannel") => pw[paceMsg] # NoWord

MaySend(id) == ~Spent /\ (id = "PIN" => KnownCounter(expRc) /\ rejections = 0)
Sendable == \A i \in DOMAIN cmds : OfChip(cmds[i]) => MaySend(cmds[i].id)

Detected == Spent /\ ~Clears => Behind

PinAccepted == \A j \in DOMAIN msgs : PinTaken(msgs[j]) => ~Spent

SentOnce == rejections <= 1

PinInv == /\ CounterTold /\ CounterTaken /\ CounterCompared /\ WordThere
          /\ Sendable /\ Detected /\ PinAccepted /\ SentOnce

PinStep == /\ IInv /\ IInv' /\ ChipOrder /\ ChipOrder' /\ Views /\ HearSay /\ [Next]_vars
           /\ PinInv /\ failures' <= 1

LEMMA StillBlind ==
  ASSUME PinStep, chipRc' = chipRc, Blind
  PROVE  Blind'
<1>1. /\ failures' \in Nat /\ failures \in Nat /\ failures' >= failures
      /\ \/ rdRc' = rdRc /\ present' = present
         \/ rdRc' = chipRc /\ present' = present /\ present
         \/ PutCard \/ TakeCard
      /\ PutCard => /\ present'
                    /\ \/ rdRc' = chipRc /\ failures' = failures
                       \/ rdRc' = -1 /\ failures' = failures + 1
      /\ TakeCard => ~present' /\ rdRc' = -1 /\ failures' = failures
  BY NextReads DEF PinStep
<1>2. chipRc \in Nat /\ failures' <= 1
  BY CounterAssumption DEF PinStep, IInv, TInv, NumberTypes
<1>3. failures = 1 /\ failures' = 1
  BY <1>1, <1>2 DEF Blind
<1>4. CASE rdRc' = rdRc /\ present' = present
  BY <1>3, <1>4 DEF Blind
<1>5. CASE rdRc' = chipRc
  BY <1>2, <1>3, <1>5 DEF Blind
<1>6. CASE TakeCard
  BY <1>1, <1>3, <1>6 DEF Blind
<1> QED BY <1>1, <1>3, <1>4, <1>5, <1>6

LEMMA StillBehind ==
  ASSUME PinStep, chipRc' = chipRc, expRc' = expRc, Behind
  PROVE  Behind'
<1>1. /\ failures' \in Nat /\ failures \in Nat /\ failures' >= failures
      /\ \/ rdRc' = rdRc /\ present' = present
         \/ rdRc' = chipRc /\ present' = present /\ present
         \/ PutCard \/ TakeCard
      /\ PutCard => /\ present'
                    /\ \/ rdRc' = chipRc /\ failures' = failures
                       \/ rdRc' = -1 /\ failures' = failures + 1
      /\ TakeCard => ~present' /\ rdRc' = -1 /\ failures' = failures
  BY NextReads DEF PinStep
<1>2. chipRc \in Nat /\ failures' <= 1
  BY CounterAssumption DEF PinStep, IInv, TInv, NumberTypes
<1>3. CASE expRc = chipRc + 1
  BY <1>3 DEF Behind
<1>4. CASE ~(expRc = chipRc + 1)
  <2>1. /\ expRc = -1 /\ failures >= 1 /\ (present => rdRc # -1)
        /\ rdRc = chipRc => \A w \in Listeners, x \in Counters : Live(w) /\ Knows(w, x) => x = chipRc
    BY <1>4 DEF Behind
  <2>2. failures = 1 /\ failures' = 1
    BY <1>1, <1>2, <2>1
  <2>3. present' => rdRc' # -1
    <3>1. CASE rdRc' = rdRc /\ present' = present
      BY <2>1, <3>1
    <3>2. CASE rdRc' = chipRc \/ TakeCard
      BY <1>1, <1>2, <3>2
    <3>3. CASE PutCard
      <4>1. rdRc' = chipRc
        BY <1>1, <2>2, <3>3
      <4> QED BY <3>2, <4>1
    <3> QED BY <1>1, <3>1, <3>2, <3>3
  <2>4. ASSUME rdRc' = chipRc', NEW w \in Listeners, NEW x \in Counters, Live(w)', Knows(w, x)'
        PROVE  x = chipRc'
    <3>1. \/ x = rdRc'
          \/ SomeoneKnows(x) /\ (rdRc' = rdRc \/ (rdRc = -1 /\ present))
      BY <2>4 DEF PinStep, HearSay
    <3>2. CASE SomeoneKnows(x) /\ rdRc' = rdRc
      BY <2>1, <2>4, <3>2 DEF SomeoneKnows
    <3> QED BY <2>1, <2>4, <3>1, <3>2
  <2> QED BY <2>1, <2>2, <2>3, <2>4 DEF Behind
<1> QED BY <1>3, <1>4

LEMMA StillDetected ==
  ASSUME PinStep, chipRc' = chipRc, Spent' /\ ~Clears' => Spent /\ ~Clears /\ expRc' = expRc
  PROVE  Detected'
<1> SUFFICES ASSUME Spent', ~Clears' PROVE Behind'
  BY DEF Detected
<1>1. Behind /\ expRc' = expRc
  BY DEF PinStep, PinInv, Detected
<1> QED BY <1>1, StillBehind

LEMMA StillSendable ==
  ASSUME PinStep, chipRc' = chipRc, expRc' = expRc, Spent' => Spent, rejections' \in {0, rejections},
         NEW k \in DOMAIN cmds, OfChip(cmds[k]), NEW id, cmds[k].id = id
  PROVE  MaySend(id)'
<1>1. MaySend(id)
  BY DEF PinStep, PinInv, Sendable
<1>2. KnownCounter(expRc) => KnownCounter(expRc)'
  BY StillBlind DEF KnownCounter
<1> QED BY <1>1, <1>2 DEF MaySend

LEMMA ForgottenIsNotSpent ==
  ASSUME ResetPacePasswords
  PROVE  ~Spent' /\ rejections' = 0
BY DEF ResetPacePasswords, Spent

(* Nothing own is under way while a state runs. *)
LEMMA NothingOwn ==
  ASSUME ~Answered'
  PROVE  CounterTold' /\ PinAccepted'
BY DEF Answered, CounterTold, PinAccepted, OkCounter, PinTaken

LEMMA RunMoves ==
  ASSUME Run
  PROVE  /\ ~busy /\ chipRc' = chipRc /\ ~Runs("VerifyRetryCounter")'
         /\ (msgs' = msgs \/ (msgs' = Disown(msgs, {"CREATE"}) /\ cmds' = Disown(cmds, {"CREATE"})))
         /\ \/ ResetPacePasswords
            \/ pw' = pw /\ rejections' = rejections /\ expRc' = expRc
         /\ RunVerifyRetryCounter \/ expRc' = expRc
         /\ Clears => Clears' \/ ResetPacePasswords
         /\ Prepared' /\ st' # "VerifyRetryCounter" =>
              (RunVerifyRetryCounter /\ ctxConn) \/ (Prepared /\ st # "VerifyRetryCounter" /\ UNCHANGED contextVars)
         /\ Runs("EstablishPaceChannel")' => pw[paceMsg] # NoWord /\ UNCHANGED contextVars
BY DEF Run, RunStartRemoteService, RunProcessRemoteMessages, RunUpdateRetryCounter,
       RunVerifyRetryCounter, RunPreparePace, Asks, RunEstablishPaceChannel,
       RunEstablishPaceChannelResponse, RunClearPacePasswords, RunPrepareChangePin, RunChangePin,
       RunChangePinResponse, RunStopRemoteService, Leads, Runs, Prepared, Clears, UnchangedByStep,
       OnResetMessageHandler, Post, contextVars, passwordVars, settingVars, chipVars, readerVars

LEMMA RunSendable ==
  ASSUME PinStep, Run
  PROVE  Sendable'
<1>1. QueueTypes /\ PinInv /\ chipRc' = chipRc /\ (Spent' => Spent) /\ rejections' \in {0, rejections}
  BY RunMoves, ForgottenIsNotSpent DEF PinStep, IInv, TInv, Spent, ResetPacePasswords
<1>2. CASE RunVerifyRetryCounter
  BY <1>2 DEF RunVerifyRetryCounter, PinStep, ChipOrder, Prepared, Leads, Runs, UnchangedByStep,
              readerVars, Sendable
<1>3. ASSUME ~RunVerifyRetryCounter, NEW k \in DOMAIN cmds, OfChip(cmds[k]), NEW id, cmds[k].id = id
      PROVE  MaySend(id)'
  BY <1>1, <1>3, RunMoves, StillSendable
<1>4. CASE RunEstablishPaceChannel /\ ctxConn
  <2>1. /\ cmds' = Append(cmds, [kind |-> IF paceMsg = "PUK" THEN "UNBLOCK" ELSE "PACE", id |-> paceMsg,
                                 word |-> pw[paceMsg], mine |-> TRUE])
        /\ Runs("EstablishPaceChannel") /\ UNCHANGED contextVars
        /\ paceMsg \in PaceIds /\ pw[paceMsg] \in Words \cup {NoWord}
    BY <1>4, IdAssumption DEF RunEstablishPaceChannel, Post, Runs, PinStep, IInv, TInv, PaceWanted,
                              PaceStates, WordTypes, Secrets
  <2> DEFINE e == [kind |-> IF paceMsg = "PUK" THEN "UNBLOCK" ELSE "PACE", id |-> paceMsg,
                   word |-> pw[paceMsg], mine |-> TRUE]
  <2>2. e \in Commands /\ e.id = paceMsg
    BY <2>1 DEF Commands, OfState
  <2>3. cmds' = Append(cmds, e)
    BY <2>1
  <2> HIDE DEF e
  <2>4. MaySend(paceMsg)'
    <3>1. KnownCounter(expRc) /\ ~Spent /\ pw[paceMsg] # NoWord
      BY <1>1, <2>1 DEF PinInv, CounterCompared, WordThere, Prepared, Runs
    <3>2. KnownCounter(expRc)'
      BY <1>1, <2>1, <3>1, StillBlind DEF KnownCounter, contextVars, settingVars
    <3>3. rejections \in Nat
      BY DEF PinStep, IInv, TInv, NumberTypes
    <3>4. paceMsg = "PIN" => rejections = 0
      BY <3>1, <3>3 DEF Spent
    <3> QED BY <2>1, <3>1, <3>2, <3>4 DEF MaySend, Spent, contextVars, settingVars, passwordVars
  <2>5. ASSUME NEW i \in DOMAIN cmds', OfChip(cmds'[i]) PROVE MaySend(cmds[i].id)' 
    <3>1. \A k \in DOMAIN cmds : ~OfChip(cmds[k])
      BY <2>1 DEF PinStep, ChipOrder, Prepared
    <3>2. cmds'[i] = e
      BY <1>1, <2>2, <2>3, <2>5, <3>1, InAppended DEF QueueTypes
    <3>3. cmds'[i].id = paceMsg'
      BY <2>1, <2>2, <3>2 DEF contextVars, settingVars
    <3> QED BY <2>4, <3>3 DEF MaySend
  <2> QED BY <2>5 DEF Sendable
<1>5. CASE (RunUpdateRetryCounter \/ RunChangePin) /\ ctxConn
  <2>1. PICK kind \in {"UPDATE_RC", "SET_PIN"}, word \in Words \cup {NoWord} : Post(kind, "none", word)
    BY <1>5 DEF RunUpdateRetryCounter, RunChangePin, PinStep, IInv, TInv, WordTypes, Secrets
  <2> DEFINE e == [kind |-> kind, id |-> "none", word |-> word, mine |-> TRUE]
  <2>2. e \in Commands /\ ~OfChip(e) /\ cmds' = Append(cmds, e)
    BY <2>1 DEF Commands, OfState, OfChip, Post
  <2> HIDE DEF e
  <2>3. ASSUME NEW i \in DOMAIN cmds', OfChip(cmds'[i]), NEW id, cmds'[i].id = id PROVE MaySend(id)'
    <3>1. i \in DOMAIN cmds /\ cmds'[i] = cmds[i]
      BY <1>1, <2>2, <2>3, InAppended DEF QueueTypes
    <3>2. ~RunVerifyRetryCounter
      BY <1>5 DEF RunUpdateRetryCounter, RunChangePin, RunVerifyRetryCounter, Leads, Runs
    <3> QED BY <1>3, <2>3, <3>1, <3>2
  <2> QED BY <2>3 DEF Sendable, MaySend
<1>6. CASE /\ ~RunVerifyRetryCounter /\ ~(RunEstablishPaceChannel /\ ctxConn)
           /\ ~((RunUpdateRetryCounter \/ RunChangePin) /\ ctxConn)
  <2>1. cmds' = cmds \/ cmds' = Disown(cmds, {"CREATE"})
    BY <1>6 DEF Run, RunStartRemoteService, RunProcessRemoteMessages, RunUpdateRetryCounter,
       RunVerifyRetryCounter, RunPreparePace, Asks, RunEstablishPaceChannel,
       RunEstablishPaceChannelResponse, RunClearPacePasswords, RunPrepareChangePin, RunChangePin,
       RunChangePinResponse, RunStopRemoteService, UnchangedByStep, readerVars
  <2>2. ASSUME NEW i \in DOMAIN cmds', OfChip(cmds'[i]), NEW id, cmds'[i].id = id PROVE MaySend(id)'
    <3>1. i \in DOMAIN cmds /\ OfChip(cmds[i]) /\ cmds[i].id = id
      BY <1>1, <2>1, <2>2, DisownedOrder
    <3> QED BY <1>3, <1>6, <3>1
  <2> QED BY <2>2 DEF Sendable, MaySend
<1> QED BY <1>2, <1>4, <1>5, <1>6

LEMMA RunPin ==
  ASSUME PinStep, Run
  PROVE  PinInv'
<1>1. IInv /\ QueueTypes /\ PinInv /\ ~busy /\ chipRc' = chipRc
  BY RunMoves DEF PinStep, IInv, TInv
<1>2. Nobody
  BY <1>1, NobodyAsks DEF Asking, IInv
<1>3. ~Answered'
  BY <1>1, <1>2, RunMoves, DisownedCreate DEF Nobody, Answered, IInv
<1>4. CounterTold' /\ PinAccepted'
  BY <1>3, NothingOwn
<1>5. CounterTaken'
  BY RunMoves DEF CounterTaken
<1>6. CounterCompared'
  <2> SUFFICES ASSUME Prepared', st' # "VerifyRetryCounter" PROVE KnownCounter(expRc)' /\ ~Spent'
    BY DEF CounterCompared
  <2>1. CASE RunVerifyRetryCounter /\ ctxConn
    <3>1. Fresh(ctxRc) /\ expRc' = ctxRc /\ (ResetPacePasswords \/ (pw' = pw /\ rejections' = rejections /\ expRc = ctxRc))
      BY <1>1, <2>1 DEF RunVerifyRetryCounter, Leads, PinInv, CounterTaken, passwordVars
    <3>2. KnownCounter(expRc)'
      BY <1>1, <3>1, StillBlind DEF Fresh, KnownCounter
    <3> QED BY <3>1, <3>2, ForgottenIsNotSpent DEF Fresh, Spent
  <2>2. CASE Prepared /\ st # "VerifyRetryCounter" /\ UNCHANGED contextVars
    BY <1>1, <2>2, StillBlind DEF PinInv, CounterCompared, KnownCounter, Spent, contextVars, settingVars, passwordVars
  <2> QED BY <2>1, <2>2, RunMoves
<1>7. WordThere'
  BY RunMoves DEF WordThere, contextVars, settingVars, passwordVars
<1>8. Detected'
  <2>1. Spent' /\ ~Clears' => Spent /\ ~Clears /\ expRc' = expRc
    BY RunMoves, ForgottenIsNotSpent DEF Spent
  <2> QED BY <1>1, <2>1, StillDetected
<1>9. SentOnce'
  BY <1>1, RunMoves DEF PinInv, SentOnce, ResetPacePasswords
<1> QED BY <1>4, <1>5, <1>6, <1>7, <1>8, <1>9, RunSendable DEF PinInv

LEMMA DeliverMoves ==
  ASSUME Deliver
  PROVE  /\ busy /\ chipRc' = chipRc /\ cmds' = cmds /\ msgs # <<>>
         /\ Taken \/ msgs' = Disown(Tail(msgs), {"changed"})
         /\ IsOwn(Head(msgs)) \/ (SameState /\ UNCHANGED <<pw, rejections, expRc, paceMsg, ctxConn>>)
BY DEF Deliver, DropReply, OnUpdateRetryCounterDone, OnEstablishConnectionDone, OnUnblockPinDone,
       OnChangePinDone, OnCreateCardConnectionCommandDone, OnReaderChanged, Arrives, IsOwn, OfState,
       SameState, controlVars, contextVars, passwordVars, settingVars, chipVars

(* A state gets the answer it waits for. *)
LEMMA AnswerPin ==
  ASSUME PinStep, Deliver, IsOwn(Head(msgs))
  PROVE  PinInv'
<1>1. IInv /\ QueueTypes /\ OneAnswer /\ PinInv /\ busy /\ chipRc' = chipRc /\ cmds' = cmds /\ msgs # <<>>
  BY DeliverMoves DEF PinStep, IInv, TInv
<1>2. 1 \in DOMAIN msgs /\ Head(msgs) = msgs[1]
  BY <1>1, InTail DEF QueueTypes
<1>3. Nobody' /\ Answered
  BY <1>1, <1>2, DeliverMoves, Delivered DEF Answered
<1>4. CounterTold' /\ PinAccepted'
  BY <1>3, NothingOwn DEF Nobody, Answered
<1>5. CASE OnUpdateRetryCounterDone /\ Head(msgs).code = "OK"
  <2>1. ctxConn => Fresh(ctxRc)
    <3>1. OkCounter(msgs[1])
      BY <1>2, <1>5 DEF OnUpdateRetryCounterDone, Arrives, OkCounter
    <3>2. Told(msgs, 1, "context", ctxRc, ctxRc)
      <4>1. \A i \in DOMAIN msgs : ~(i < 1)
        BY <1>1, LenProperties DEF QueueTypes
      <4> QED BY <4>1 DEF Told
    <3>3. ctxRc \in Counters
      BY <1>1 DEF IInv, TInv, NumberTypes
    <3> QED BY <1>1, <1>2, <3>1, <3>2, <3>3 DEF PinInv, CounterTold
  <2>2. st' = "VerifyRetryCounter" /\ ~busy' /\ UNCHANGED <<ctxConn, ctxRc, pw, rejections, expRc>>
    BY <1>5 DEF OnUpdateRetryCounterDone, Goto, passwordVars
  <2>3. CounterTaken'
    BY <1>1, <2>1, <2>2, StillBlind DEF CounterTaken, Fresh, KnownCounter, Spent
  <2>4. CounterCompared' /\ WordThere'
    BY <2>2 DEF CounterCompared, WordThere, Runs
  <2>5. Detected' /\ SentOnce'
    <3>1. ~Clears
      BY <1>1 DEF Clears, Runs
    <3> QED BY <1>1, <2>2, <3>1, StillDetected DEF Spent, PinInv, SentOnce
  <2>6. Sendable'
    BY <1>1, <1>3 DEF PinStep, ChipOrder, Sendable
  <2> QED BY <1>4, <2>3, <2>4, <2>5, <2>6 DEF PinInv
<1>6. CASE ~(OnUpdateRetryCounterDone /\ Head(msgs).code = "OK")
  <2>1. st' \in {"EstablishPaceChannelResponse", "ChangePinResponse"} /\ ~busy'
    BY <1>6 DEF Deliver, DropReply, OnUpdateRetryCounterDone, OnEstablishConnectionDone, OnUnblockPinDone,
       OnChangePinDone, OnCreateCardConnectionCommandDone, OnReaderChanged, Arrives, IsOwn, OfState, Goto
  <2>2. CounterTaken' /\ CounterCompared' /\ WordThere'
    BY <2>1 DEF CounterTaken, CounterCompared, WordThere, Prepared, Runs
  <2>3. /\ \/ ResetPacePasswords
           \/ pw' = pw /\ rejections' = rejections /\ expRc' = expRc
           \/ pw' = pw /\ rejections' = rejections /\ Clears'
           \/ pw' = pw /\ rejections' = rejections /\ PinTaken(Head(msgs))
    <3>1. CASE OnEstablishConnectionDone
      BY <3>1 DEF OnEstablishConnectionDone, AfterPin, Arrives, Goto, PinTaken, IsOwn, OfState, Clears, Runs, passwordVars
    <3>2. CASE ~OnEstablishConnectionDone
      BY <3>2 DEF Deliver, DropReply, OnUpdateRetryCounterDone, OnUnblockPinDone, OnChangePinDone,
         OnCreateCardConnectionCommandDone, OnReaderChanged, Arrives, IsOwn, OfState, passwordVars
    <3> QED BY <3>1, <3>2
  <2>4. Detected'
    <3>1. Spent' /\ ~Clears' => Spent /\ ~Clears /\ expRc' = expRc
      BY <1>1, <1>2, <2>3, ForgottenIsNotSpent DEF PinInv, PinAccepted, Spent, Clears, Runs
    <3> QED BY <1>1, <3>1, StillDetected
  <2>5. SentOnce'
    BY <1>1, <2>3 DEF PinInv, SentOnce, ResetPacePasswords
  <2>6. Sendable'
    BY <1>1, <1>3 DEF PinStep, ChipOrder, Sendable
  <2> QED BY <1>4, <2>2, <2>4, <2>5, <2>6 DEF PinInv
<1> QED BY <1>5, <1>6

(* Any other event leaves the state machine alone. *)
LEMMA EventPin ==
  ASSUME PinStep, Deliver, ~IsOwn(Head(msgs))
  PROVE  PinInv'
<1>1. /\ IInv /\ QueueTypes /\ PinInv /\ busy /\ busy' /\ chipRc' = chipRc /\ cmds' = cmds /\ msgs # <<>>
      /\ SameState /\ UNCHANGED <<pw, rejections, expRc, paceMsg, ctxConn>>
      /\ Taken \/ msgs' = Disown(Tail(msgs), {"changed"})
  BY DeliverMoves DEF PinStep, IInv, TInv, SameState
<1>2. /\ 1 \in DOMAIN msgs /\ Head(msgs) = msgs[1]
      /\ \A i \in DOMAIN msgs' : /\ i + 1 \in DOMAIN msgs /\ i \in Nat \ {0}
                                 /\ IsOwn(msgs'[i]) => msgs'[i] = msgs[i + 1]
  <2>1. /\ 1 \in DOMAIN msgs /\ Head(msgs) = msgs[1]
        /\ \A i \in DOMAIN msgs' : /\ i + 1 \in DOMAIN msgs
                                   /\ IsOwn(msgs'[i]) => msgs'[i] = msgs[i + 1]
    BY <1>1, TakenOff DEF IsOwn, OfState
  <2>2. DOMAIN msgs' \subseteq Nat \ {0}
    BY <1>1, HeardLess, LenProperties
  <2> QED BY <2>1, <2>2
<1>3. Spent' = Spent /\ ~Clears /\ (Blind => Blind')
  BY <1>1, StillBlind DEF PinStep, Spent, Clears, Runs
<1>4. CounterTold'
  <2> SUFFICES ASSUME NEW j \in DOMAIN msgs', NEW x \in Counters, OkCounter(msgs'[j]), ctxConn,
                      Told(msgs', j, "context", ctxRc', x)
               PROVE  Fresh(x)'
    BY <1>1 DEF CounterTold
  <2>1. OkCounter(msgs[j + 1]) /\ j + 1 \in DOMAIN msgs
    BY <1>2 DEF OkCounter
  <2>2. ctxRc' = IF Hears(msgs[1], "context") THEN msgs[1].rc ELSE ctxRc
    BY <1>2 DEF Deliver, DropReply, OnUpdateRetryCounterDone, OnEstablishConnectionDone, OnUnblockPinDone,
         OnChangePinDone, OnCreateCardConnectionCommandDone, OnReaderChanged, Arrives, IsOwn, OfState, Hears,
         contextVars, settingVars
  <2>3. Told(msgs, j + 1, "context", ctxRc, x)
    BY <1>1, <1>2, <2>2, HeardLess
  <2>4. Fresh(x)
    BY <1>1, <2>1, <2>3 DEF PinInv, CounterTold
  <2> QED BY <1>1, <1>3, <2>4 DEF Fresh, KnownCounter
<1>5. PinAccepted'
  BY <1>1, <1>2, <1>3 DEF PinInv, PinAccepted, PinTaken
<1>6. CounterTaken' /\ WordThere'
  BY <1>1 DEF CounterTaken, WordThere, Runs
<1>7. CounterCompared'
  BY <1>1, <1>3 DEF PinInv, CounterCompared, KnownCounter, Prepared, Runs, SameState
<1>8. Sendable'
  BY <1>1, <1>3, StillSendable DEF PinInv, Sendable, MaySend, KnownCounter
<1>9. Detected' /\ SentOnce'
  BY <1>1, <1>3, StillDetected DEF PinInv, SentOnce
<1> QED BY <1>4, <1>5, <1>6, <1>7, <1>8, <1>9 DEF PinInv

(* What comes from outside leaves the commands for the chip and the        *)
(* answers as they are, or takes them from their state.                    *)
LEMMA OutsidePin ==
  ASSUME PinStep, busy, chipRc' = chipRc, expRc' = expRc, Spent' => Spent, rejections' \in {0, rejections},
         ctxConn' => ctxConn /\ ctxRc' = ctxRc,
         NEW kinds, "changed" \notin kinds, msgs' \in {msgs, Disown(msgs, kinds)},
         \A i \in DOMAIN cmds' : OfChip(cmds'[i]) =>
           i \in DOMAIN cmds /\ OfChip(cmds[i]) /\ cmds'[i].id = cmds[i].id
  PROVE  CounterTold' /\ PinAccepted' /\ Sendable' /\ Detected' /\ SentOnce'
<1>1. IInv /\ QueueTypes /\ PinInv /\ ~Clears /\ (Blind => Blind')
  BY StillBlind DEF PinStep, IInv, TInv, Clears, Runs
<1>2. /\ DOMAIN msgs' = DOMAIN msgs
      /\ \A j \in DOMAIN msgs : IsOwn(msgs'[j]) => msgs'[j] = msgs[j]
      /\ \A i \in DOMAIN msgs : /\ Hears(msgs'[i], "context") <=> Hears(msgs[i], "context")
                                /\ Hears(msgs'[i], "context") => msgs'[i].rc = msgs[i].rc
  <2>1. CASE msgs' = msgs
    BY <2>1
  <2>2. CASE msgs' = Disown(msgs, kinds)
    <3>1. ASSUME NEW j \in DOMAIN msgs, IsOwn(msgs'[j]) PROVE msgs'[j] = msgs[j]
      <4>1. msgs[j] \in Messages
        BY <1>1 DEF QueueTypes
      <4> QED BY <2>2, <3>1, <4>1 DEF Disown, IsOwn, Messages, Replies, Signals
    <3>2. "context" \in Listeners
      BY DEF Listeners
    <3> QED BY <1>1, <2>2, <3>1, <3>2, DisownedHears
  <2> QED BY <2>1, <2>2
<1>3. CounterTold'
  <2> SUFFICES ASSUME NEW j \in DOMAIN msgs', NEW x \in Counters, OkCounter(msgs'[j]), ctxConn',
                      Told(msgs', j, "context", ctxRc', x)
               PROVE  Fresh(x)'
    BY DEF CounterTold
  <2>1. Told(msgs', j, "context", ctxRc, x)
    OBVIOUS
  <2>2. OkCounter(msgs[j]) /\ Told(msgs, j, "context", ctxRc, x)
    BY <1>2, <2>1, ToldAlike DEF OkCounter
  <2>3. Fresh(x)
    BY <1>1, <1>2, <2>2 DEF PinInv, CounterTold
  <2> QED BY <1>1, <2>3 DEF Fresh, KnownCounter
<1>4. PinAccepted'
  BY <1>1, <1>2 DEF PinInv, PinAccepted, PinTaken
<1>5. Sendable'
  <2>1. ASSUME NEW i \in DOMAIN cmds', OfChip(cmds'[i]), NEW id, cmds'[i].id = id PROVE MaySend(id)'
    BY <2>1, StillSendable
  <2> QED BY <2>1 DEF Sendable, MaySend
<1>6. Detected' /\ SentOnce'
  BY <1>1, StillDetected DEF PinInv, SentOnce
<1> QED BY <1>3, <1>4, <1>5, <1>6

LEMMA ClientPin ==
  ASSUME PinStep, Client
  PROVE  PinInv'
<1>1. IInv /\ OneAnswer /\ QueueTypes /\ PinInv
  BY DEF PinStep, IInv, TInv
<1>2. CASE Connects \/ Closes \/ IfdConnect \/ IfdDisconnect \/ IfdTransmitSecured
  <2>1. /\ busy /\ chipRc' = chipRc /\ expRc' = expRc /\ (ctxConn' => ctxConn /\ ctxRc' = ctxRc)
        /\ msgs' \in {msgs, Disown(msgs, {"CREATE"})}
        /\ ResetPacePasswords \/ (pw' = pw /\ rejections' = rejections)
        /\ ~Runs("VerifyRetryCounter")' /\ ~Runs("EstablishPaceChannel")'
        /\ Prepared' => st = "EnterPacePassword" /\ pw' = pw /\ rejections' = rejections
    BY <1>2 DEF Connects, Closes, IfdConnect, IfdDisconnect, IfdTransmitSecured, OnResetMessageHandler,
                ResetCardConnection, controlVars, contextVars, passwordVars, settingVars, chipVars,
                readerVars, Runs, Prepared, Goto
  <2>2. (Spent' => Spent) /\ rejections' \in {0, rejections}
    BY <2>1, ForgottenIsNotSpent DEF Spent
  <2>3. ASSUME NEW i \in DOMAIN cmds', OfChip(cmds'[i])
        PROVE  i \in DOMAIN cmds /\ OfChip(cmds[i]) /\ cmds'[i].id = cmds[i].id
    <3>1. CASE ~IfdConnect
      <4>1. cmds' = cmds \/ cmds' = Disown(cmds, {"CREATE"})
        BY <1>2, <3>1 DEF Connects, Closes, IfdDisconnect, IfdTransmitSecured, readerVars
      <4> QED BY <1>1, <2>3, <4>1, DisownedOrder
    <3>2. CASE IfdConnect
      <4> DEFINE e == [kind |-> "CREATE", id |-> "none", word |-> NoWord, mine |-> TRUE]
      <4>1. cmds' = Append(cmds, e) /\ e \in Commands /\ ~OfChip(e)
        BY <3>2 DEF IfdConnect, Post, Commands, OfState, OfChip
      <4> HIDE DEF e
      <4> QED BY <1>1, <2>3, <4>1, InAppended DEF QueueTypes
    <3> QED BY <3>1, <3>2
  <2>4. CounterTold' /\ PinAccepted' /\ Sendable' /\ Detected' /\ SentOnce'
    <3>1. "changed" \notin {"CREATE"}
      OBVIOUS
    <3> QED BY <2>1, <2>2, <2>3, <3>1, OutsidePin
  <2>5. CounterTaken' /\ WordThere'
    BY <2>1 DEF CounterTaken, WordThere
  <2>6. CounterCompared'
    BY <1>1, <2>1, StillBlind DEF PinInv, CounterCompared, KnownCounter, Prepared, Spent
  <2> QED BY <2>4, <2>5, <2>6 DEF PinInv
<1>3. CASE IfdModifyPin \/ \E id \in PaceIds : IfdEstablishPaceChannel(id)
  <2>1. /\ ~Asking /\ ~Clears /\ SetCardConnection /\ cmds' = cmds /\ chipRc' = chipRc /\ expRc' = expRc
        /\ pw' = pw /\ rejections' = rejections /\ ~Prepared' /\ ~Runs("VerifyRetryCounter")'
    BY <1>3 DEF IfdModifyPin, IfdEstablishPaceChannel, Asking, Clears, Waits, Goto, Prepared, Runs, passwordVars
  <2>2. ~Answered'
    BY <1>1, <2>1, NobodyAsks, NobodyAdopts DEF Answered, Nobody
  <2>3. Sendable'
    BY <1>1, <2>1, StillBlind DEF PinInv, Sendable, MaySend, KnownCounter, Spent
  <2>4. Detected' /\ SentOnce'
    BY <1>1, <2>1, StillDetected DEF Spent, PinInv, SentOnce
  <2>5. CounterTaken' /\ CounterCompared' /\ WordThere'
    BY <2>1 DEF CounterTaken, CounterCompared, WordThere, Prepared
  <2> QED BY <2>2, <2>3, <2>4, <2>5, NothingOwn DEF PinInv
<1> QED BY <1>2, <1>3 DEF Client

LEMMA UserPin ==
  ASSUME PinStep, User
  PROVE  PinInv'
<1>1. IInv /\ QueueTypes /\ PinInv
  BY DEF PinStep, IInv, TInv
<1>2. /\ busy /\ chipRc' = chipRc /\ expRc' = expRc /\ ctxConn' = ctxConn /\ ctxRc' = ctxRc
      /\ msgs' \in {msgs, Disown(msgs, OfState)} /\ cmds' \in {cmds, Disown(cmds, OfState)}
      /\ ~Runs("VerifyRetryCounter")'
      /\ Prepared' => Prepared /\ st # "VerifyRetryCounter"
    BY DEF User, CancelPasswordRequest, EnterNewPacePin, EnterPacePassword, Stop, Waits, Goto, Prepared, Runs,
           contextVars, settingVars, chipVars, readerVars
<1>3. ASSUME Spent' PROVE Spent
  <2>1. CASE Stop \/ CancelPasswordRequest
    BY <1>3, <2>1 DEF Stop, CancelPasswordRequest, contextVars, passwordVars, Spent
  <2>2. CASE EnterNewPacePin \/ \E word \in Words : EnterPacePassword(word)
    <3>1. pw \in [Secrets -> Words \cup {NoWord}]
      BY <1>1 DEF IInv, TInv, WordTypes
    <3> QED BY <1>3, <2>2, <3>1 DEF EnterNewPacePin, EnterPacePassword, Spent, Secrets
  <2> QED BY <2>1, <2>2 DEF User
<1>4. rejections' \in {0, rejections}
  BY DEF User, CancelPasswordRequest, EnterNewPacePin, EnterPacePassword, Stop, contextVars, passwordVars
<1>5. CounterTold' /\ PinAccepted' /\ Sendable' /\ Detected' /\ SentOnce'
  <2>1. "changed" \notin OfState
    BY DEF OfState
  <2>2. \A i \in DOMAIN cmds' : OfChip(cmds'[i]) =>
          i \in DOMAIN cmds /\ OfChip(cmds[i]) /\ cmds'[i].id = cmds[i].id
    BY <1>1, <1>2, DisownedOrder
  <2> QED BY <1>2, <1>3, <1>4, <2>1, <2>2, OutsidePin
<1>6. CounterTaken'
  BY <1>2 DEF CounterTaken
<1>7. CounterCompared'
  BY <1>1, <1>2, <1>3, StillBlind DEF PinInv, CounterCompared, KnownCounter
<1>8. WordThere'
  <2>1. ASSUME NEW word \in Words, EnterPacePassword(word), st = "EnterPacePassword"
        PROVE  pw'[paceMsg] # NoWord
    <3>1. paceMsg \in Secrets /\ pw \in [Secrets -> Words \cup {NoWord}]
      BY <1>1, <2>1, IdAssumption DEF IInv, TInv, WordTypes, PaceWanted, PaceStates, Secrets
    <3> QED BY <2>1, <3>1 DEF EnterPacePassword, Words, NoWord
  <2>2. Runs("EstablishPaceChannel")' => paceMsg' = paceMsg /\ \E word \in Words : EnterPacePassword(word)
    BY DEF User, CancelPasswordRequest, EnterNewPacePin, EnterPacePassword, Stop, Waits, Goto, Runs
  <2>3. (\E word \in Words : EnterPacePassword(word)) => st = "EnterPacePassword"
    BY DEF EnterPacePassword, Waits
  <2> QED BY <2>1, <2>2, <2>3 DEF WordThere
<1> QED BY <1>5, <1>6, <1>7, <1>8 DEF PinInv

(* The chip works: nothing is prepared then, and no counter is answered.   *)
LEMMA ChipMoves ==
  ASSUME TInv, ReaderThread, OfChip(Head(cmds))
  PROVE  \E code \in Codes :
           /\ Finish(code) /\ rdRc' = rdRc /\ present' = present /\ failures' = failures
           /\ \/ rejections' = rejections
              \/ /\ rejections' = rejections + 1 /\ Head(cmds).id = "PIN" /\ present
                 /\ chipRc' = chipRc - 1 /\ code # "OK"
<1>1. NumberTypes /\ SwitchTypes
  BY DEF TInv
<1>2. UNCHANGED <<rdRc, present, failures>>
  BY DEF ReaderThread, ExecuteCreate, ExecuteUpdateRetryCounter, ExecuteEstablishPaceChannel, Executes,
         ExecuteUnblockPin, ExecuteSetEidPin, OfChip, worldVars
<1>3. CASE (Finish("INVALID") \/ Finish("FAILED")) /\ UNCHANGED rejections
  BY <1>2, <1>3 DEF Codes
<1>4. ASSUME NEW id, NEW word, ChipWorks(id, word), id = "PIN" => Head(cmds).id = "PIN"
      PROVE  \E code \in Codes :
               /\ Finish(code)
               /\ \/ rejections' = rejections
                  \/ /\ rejections' = rejections + 1 /\ Head(cmds).id = "PIN" /\ present
                     /\ chipRc' = chipRc - 1 /\ code # "OK"
  <2> DEFINE a == ChipAnswer(id, word)
  <2>1. a.code \in Codes
    BY <1>1, ChipTypes
  <2>2. id = "PIN" /\ a.code = "INVALID" => a.rc = chipRc - 1
    BY DEF ChipAnswer
  <2>3. /\ present /\ chipRc' = a.rc
        /\ rejections' = IF id = "PIN" /\ a.code = "INVALID" THEN rejections + 1 ELSE rejections
        /\ Finish(a.code) \/ Finish("FAILED")
    BY <1>4 DEF ChipWorks
  <2> HIDE DEF a
  <2>4. CASE id = "PIN" /\ a.code = "INVALID"
    BY <1>4, <2>2, <2>3, <2>4 DEF Codes
  <2>5. CASE ~(id = "PIN" /\ a.code = "INVALID")
    BY <2>1, <2>3, <2>5 DEF Codes
  <2> QED BY <2>4, <2>5
<1>5. CASE ExecuteEstablishPaceChannel
  <2>1. CASE ChipWorks(Head(cmds).id, Head(cmds).word)
    BY <1>2, <1>4, <2>1
  <2> QED BY <1>3, <1>5, <2>1 DEF ExecuteEstablishPaceChannel, chipVars
<1>6. CASE ExecuteUnblockPin
  <2>1. CASE ChipWorks("PUK", Head(cmds).word)
    BY <1>2, <1>4, <2>1
  <2> QED BY <1>3, <1>6, <2>1 DEF ExecuteUnblockPin, chipVars
<1> QED BY <1>5, <1>6 DEF ReaderThread, ExecuteCreate, ExecuteUpdateRetryCounter, ExecuteSetEidPin,
                          Executes, OfChip

LEMMA ThreadMoves ==
  ASSUME ReaderThread
  PROVE  /\ SameState /\ UNCHANGED <<pw, expRc, ctxConn, ctxRc, paceMsg, paceOut, failures, present>>
         /\ OfChip(Head(cmds)) \/ (chipRc' = chipRc /\ rejections' = rejections)
BY DEF ReaderThread, ExecuteCreate, ExecuteUpdateRetryCounter, ExecuteEstablishPaceChannel,
       ExecuteUnblockPin, ExecuteSetEidPin, Executes, OfChip, SameState, controlVars, contextVars,
       passwordVars, settingVars, chipVars, worldVars

LEMMA ChipPin ==
  ASSUME PinStep, ReaderThread, OfChip(Head(cmds))
  PROVE  PinInv'
<1>1. IInv /\ TInv /\ QueueTypes /\ PinInv /\ cmds # <<>> /\ SameState
      /\ UNCHANGED <<pw, expRc, ctxConn, ctxRc, paceMsg, paceOut, failures, present>>
  BY Works, ThreadMoves DEF PinStep, IInv, TInv
<1>2. 1 \in DOMAIN cmds /\ Head(cmds) = cmds[1]
  BY <1>1, InTail DEF QueueTypes
<1>3. ~Prepared /\ ~Answered /\ MaySend(Head(cmds).id)
  BY <1>1, <1>2 DEF PinStep, ChipOrder, PinInv, Sendable
<1>4. \A k \in DOMAIN cmds' : ~OfChip(cmds'[k])
  BY <1>1, ThreadOrder DEF PinStep
<1>5. PICK code \in Codes :
        /\ Finish(code) /\ rdRc' = rdRc /\ present' = present /\ failures' = failures
        /\ \/ rejections' = rejections
           \/ /\ rejections' = rejections + 1 /\ Head(cmds).id = "PIN" /\ present
              /\ chipRc' = chipRc - 1 /\ code # "OK"
  BY <1>1, ChipMoves
<1>6. ASSUME NEW j \in DOMAIN msgs', IsOwn(msgs'[j])
      PROVE  msgs'[j].kind \in {"PACE", "UNBLOCK"} /\ msgs'[j].code = code
  <2>1. Answer(code) \in Messages /\ msgs' = Append(msgs, Answer(code))
    BY <1>1, <1>5, FirstCommand DEF Finish
  <2>2. msgs'[j] = Answer(code)
    BY <1>1, <1>3, <1>6, <2>1, InAppended DEF QueueTypes, Answered
  <2> QED BY <2>2, AnswerIsFor DEF OfChip
<1>7. CounterTold'
  BY <1>6 DEF CounterTold, OkCounter
<1>8. CounterTaken' /\ CounterCompared' /\ WordThere'
  BY <1>1, <1>3 DEF CounterTaken, CounterCompared, WordThere, Prepared, Runs, SameState
<1>9. Sendable'
  BY <1>4 DEF Sendable
<1>10. CASE rejections' = rejections
  <2>1. ~Spent'
    BY <1>1, <1>3, <1>10 DEF MaySend, Spent
  <2>2. SentOnce'
    BY <1>1, <1>10 DEF PinInv, SentOnce
  <2> QED BY <1>7, <1>8, <1>9, <2>1, <2>2 DEF PinInv, Detected, PinAccepted
<1>11. CASE /\ rejections' = rejections + 1 /\ Head(cmds).id = "PIN" /\ present
            /\ chipRc' = chipRc - 1 /\ code # "OK"
  <2>1. KnownCounter(expRc) /\ rejections = 0
    BY <1>3, <1>11 DEF MaySend
  <2>2. SentOnce'
    BY <1>11, <2>1 DEF SentOnce
  <2>3. PinAccepted'
    BY <1>6, <1>11 DEF PinAccepted, PinTaken
  <2>4. chipRc \in Nat
    BY <1>1, CounterAssumption DEF TInv, NumberTypes
  <2>5. Behind'
    <3>1. CASE expRc = chipRc
      BY <1>1, <1>11, <2>4, <3>1 DEF Behind
    <3>2. CASE expRc = -1 /\ Blind
      <4>1. rdRc = chipRc
        BY <1>11, <3>2 DEF Blind
      <4>2. rdRc' = chipRc /\ rdRc' # chipRc' /\ chipRc # -1
        BY <1>5, <1>11, <2>4, <4>1
      <4> QED BY <1>1, <3>2, <4>2 DEF Behind, Blind
    <3> QED BY <2>1, <3>1, <3>2 DEF KnownCounter
  <2> QED BY <1>7, <1>8, <1>9, <2>2, <2>3, <2>5 DEF PinInv, Detected
<1> QED BY <1>5, <1>10, <1>11

(* The counter is read: the context will be told of it, or has missed it   *)
(* since the reading before had failed.                                    *)
LEMMA CounterIsFresh ==
  ASSUME PinStep, ExecuteUpdateRetryCounter, OkCounter(Answer("OK")), present, rdRc' = chipRc, ctxConn,
         UNCHANGED <<chipRc, pw, rejections, expRc, present, failures>>,
         NEW x \in Counters, Told(ReadQueue, Len(ReadQueue) + 1, "context", ctxRc, x)
  PROVE  Fresh(x)'
<1>1. IInv /\ TInv /\ QueueTypes /\ PinInv /\ Views
  BY DEF PinStep, IInv, TInv
<1>2. chipRc \in Nat /\ chipRc \in Counters
  BY <1>1, CounterAssumption DEF TInv, NumberTypes, Counters
<1>3. Spent => Behind
  <2>1. 1 \in DOMAIN cmds /\ Head(cmds) = cmds[1] /\ IsOwn(Head(cmds)) /\ Head(cmds).kind = "UPDATE_RC"
    BY <1>1, CounterRead, InTail, AnswerIsFor DEF OkCounter, QueueTypes
  <2>2. Waits("UpdateRetryCounter")
    BY <1>1, <2>1 DEF IInv, OneAnswer, Asked, Asker, OfState
  <2> QED BY <1>1, <2>2 DEF PinInv, Detected, Clears, Runs, Waits
<1>4. rdRc \in {-1, chipRc} => x = rdRc \/ (x = -1 /\ failures >= 1)
  <2> SUFFICES ASSUME rdRc \in {-1, chipRc} PROVE x = rdRc \/ (x = -1 /\ failures >= 1)
    OBVIOUS
  <2>1. ReadQueue = msgs
    BY DEF ReadQueue
  <2>2. "context" \in Listeners /\ Live("context") /\ Knows("context", x)
    BY <2>1 DEF Listeners, Live, Knows, Value
  <2> QED BY <1>1, <2>2 DEF Views
<1>5. CASE rdRc \notin {-1, chipRc}
  <2>1. ReadQueue = Append(msgs, Signal(chipRc))
    BY <1>5 DEF ReadQueue
  <2>2. Signal(chipRc) \in Messages /\ Hears(Signal(chipRc), "context") /\ Signal(chipRc).rc = chipRc
    BY <1>1, <1>2, SignalsAreNobodys DEF Signal, Hears
  <2>3. x = chipRc
    BY <1>1, <2>1, <2>2, ToldAppended DEF QueueTypes
  <2>4. Spent => chipRc # expRc
    BY <1>2, <1>3 DEF Behind
  <2> QED BY <2>3, <2>4 DEF Fresh, KnownCounter, Spent
<1>6. CASE rdRc = chipRc
  <2>1. x = chipRc \/ (x = -1 /\ failures >= 1)
    BY <1>4, <1>6
  <2>2. KnownCounter(x)'
    BY <1>2, <2>1 DEF KnownCounter, Blind
  <2>3. ASSUME Spent PROVE x # expRc
    <3>1. CASE expRc = chipRc + 1
      BY <1>2, <2>1, <3>1
    <3>2. CASE /\ expRc = -1
               /\ rdRc = chipRc => \A w \in Listeners, y \in Counters : Live(w) /\ Knows(w, y) => y = chipRc
      <4>1. ReadQueue = msgs
        BY <1>6 DEF ReadQueue
      <4>2. "context" \in Listeners /\ Live("context") /\ Knows("context", x)
        BY <4>1 DEF Listeners, Live, Knows, Value
      <4> QED BY <1>2, <1>6, <3>2, <4>2
    <3> QED BY <1>3, <2>3, <3>1, <3>2 DEF Behind
  <2> QED BY <2>2, <2>3 DEF Fresh, Spent
<1>7. CASE rdRc = -1
  <2>1. x = -1 /\ failures >= 1
    BY <1>1, <1>4, <1>7 DEF Views
  <2>2. KnownCounter(x)'
    BY <1>2, <2>1 DEF KnownCounter, Blind
  <2>3. Spent => x # expRc
    BY <1>2, <1>3, <1>7, <2>1 DEF Behind
  <2> QED BY <2>2, <2>3 DEF Fresh, Spent
<1> QED BY <1>5, <1>6, <1>7

LEMMA CalmPin ==
  ASSUME PinStep, ReaderThread, ~OfChip(Head(cmds))
  PROVE  PinInv'
<1>1. /\ IInv /\ TInv /\ QueueTypes /\ PinInv /\ cmds # <<>> /\ SameState /\ cmds' = Tail(cmds)
      /\ UNCHANGED <<pw, expRc, ctxConn, ctxRc, paceMsg, paceOut, failures, present, chipRc, rejections>>
  BY Works, ThreadMoves DEF PinStep, IInv, TInv
<1>2. Spent' = Spent /\ Clears' = Clears /\ Prepared' = Prepared /\ (Blind => Blind')
  BY <1>1, StillBlind DEF Spent, Clears, Prepared, Runs, SameState
<1>3. PICK code \in Codes :
        /\ Answer(code) \in Messages
        /\ \/ msgs' = Append(msgs, Answer(code)) /\ rdRc' = rdRc
              /\ ~(ExecuteUpdateRetryCounter /\ code = "OK")
           \/ /\ ExecuteUpdateRetryCounter /\ code = "OK" /\ present /\ rdRc' = chipRc
              /\ ReadQueue \in Seq(Messages) /\ msgs' = Append(ReadQueue, Answer(code))
  <2>1. CASE ExecuteUpdateRetryCounter
    <3>1. \A code \in Codes : Answer(code) \in Messages
      BY <1>1, FirstCommand
    <3> QED BY <1>1, <2>1, <3>1, CounterRead DEF Codes, Finish
  <2>2. CASE ~ExecuteUpdateRetryCounter
    <3>1. Head(cmds).kind # "UPDATE_RC"
      BY <2>2 DEF ReaderThread, ExecuteCreate, ExecuteEstablishPaceChannel, ExecuteUnblockPin,
                  ExecuteSetEidPin, Executes
    <3> QED BY <1>1, <2>2, <3>1, Works
  <2> QED BY <2>1, <2>2
<1>4. Answer(code).kind = Head(cmds).kind /\ ~PinTaken(Answer(code))
  BY AnswerIsFor DEF PinTaken, OfChip
<1>5. OkCounter(Answer(code)) => ExecuteUpdateRetryCounter /\ code = "OK"
  BY <1>1, AnswerIsFor DEF OkCounter, ReaderThread, ExecuteCreate, ExecuteEstablishPaceChannel, ExecuteUnblockPin,
                  ExecuteSetEidPin, Executes
<1>6. CounterTold' /\ PinAccepted'
  <2>1. CASE msgs' = Append(msgs, Answer(code)) /\ ~(ExecuteUpdateRetryCounter /\ code = "OK")
    <3>1. \A j \in DOMAIN msgs' : OkCounter(msgs'[j]) \/ PinTaken(msgs'[j]) => j \in DOMAIN msgs /\ msgs'[j] = msgs[j]
      BY <1>1, <1>3, <1>4, <1>5, <2>1, InAppended DEF QueueTypes
    <3>2. \A x : \A j \in DOMAIN msgs : Told(msgs', j, "context", ctxRc, x) => Told(msgs, j, "context", ctxRc, x)
      <4>1. DOMAIN msgs \subseteq 1 .. (Len(msgs) + 1)
        BY <1>1, LenProperties DEF QueueTypes
      <4> QED BY <1>1, <1>3, <2>1, <4>1, ToldAppended DEF QueueTypes
    <3> QED BY <1>1, <1>2, <3>1, <3>2 DEF PinInv, CounterTold, PinAccepted, Fresh, KnownCounter
  <2>2. CASE /\ ExecuteUpdateRetryCounter /\ code = "OK" /\ present /\ rdRc' = chipRc
             /\ ReadQueue \in Seq(Messages) /\ msgs' = Append(ReadQueue, Answer(code))
    <3>1. \A j \in DOMAIN msgs' : \/ j \in DOMAIN ReadQueue /\ msgs'[j] = ReadQueue[j]
                                  \/ j = Len(ReadQueue) + 1 /\ msgs'[j] = Answer(code)
      BY <1>3, <2>2, InAppended
    <3>2. ASSUME NEW j \in DOMAIN ReadQueue, IsOwn(ReadQueue[j]) PROVE j \in DOMAIN msgs /\ ReadQueue[j] = msgs[j]
      <4>1. chipRc \in Counters
        BY <1>1, CounterAssumption DEF TInv, NumberTypes, Counters
      <4> QED BY <1>1, <3>2, <4>1, ReadQueueAdds, SignalsAreNobodys
    <3>3. PinAccepted'
      BY <1>1, <1>2, <1>4, <3>1, <3>2 DEF PinInv, PinAccepted, PinTaken
    <3>4. ASSUME NEW j \in DOMAIN msgs', NEW x \in Counters, OkCounter(msgs'[j]), ctxConn,
                 Told(msgs', j, "context", ctxRc, x)
          PROVE  Fresh(x)'
      <4>1. j \in 1 .. (Len(ReadQueue) + 1)
        BY <2>2, <3>1, LenProperties
      <4>2. Told(ReadQueue, j, "context", ctxRc, x)
        BY <1>3, <2>2, <3>4, <4>1, ToldAppended
      <4>3. CASE j = Len(ReadQueue) + 1 /\ msgs'[j] = Answer(code)
        BY <1>1, <2>2, <3>4, <4>2, <4>3, CounterIsFresh
      <4>4. CASE j \in DOMAIN ReadQueue /\ msgs'[j] = ReadQueue[j]
        <5>1. j \in DOMAIN msgs /\ OkCounter(msgs[j])
          BY <3>2, <3>4, <4>4 DEF OkCounter
        <5>2. Told(msgs, j, "context", ctxRc, x)
          <6>1. CASE ReadQueue = msgs
            BY <4>2, <6>1
          <6>2. CASE ReadQueue = Append(msgs, Signal(chipRc))
            <7>1. chipRc \in Counters /\ j \in 1 .. (Len(msgs) + 1)
              BY <1>1, <5>1, CounterAssumption, LenProperties DEF TInv, NumberTypes, Counters, QueueTypes
            <7>2. Signal(chipRc) \in Messages
              BY <1>1, <7>1, SignalsAreNobodys
            <7> QED BY <1>1, <4>2, <6>2, <7>1, <7>2, ToldAppended DEF QueueTypes
          <6> QED BY <6>1, <6>2 DEF ReadQueue
        <5> QED BY <1>1, <1>2, <3>4, <5>1, <5>2 DEF PinInv, CounterTold, Fresh, KnownCounter
      <4> QED BY <3>1, <4>3, <4>4
    <3> QED BY <1>1, <3>3, <3>4 DEF CounterTold
  <2> QED BY <1>3, <2>1, <2>2
<1>7. CounterTaken' /\ CounterCompared' /\ WordThere'
  BY <1>1, <1>2 DEF PinInv, CounterTaken, CounterCompared, WordThere, Fresh, KnownCounter, Runs, SameState
<1>8. Sendable'
  <2>1. ASSUME NEW i \in DOMAIN cmds', OfChip(cmds'[i]), NEW id, cmds'[i].id = id PROVE MaySend(id)'
    <3>1. i + 1 \in DOMAIN cmds /\ cmds'[i] = cmds[i + 1]
      BY <1>1, <2>1, InTail DEF QueueTypes
    <3> QED BY <1>1, <1>2, <2>1, <3>1, StillSendable
  <2> QED BY <2>1 DEF Sendable, MaySend
<1>9. Detected' /\ SentOnce'
  BY <1>1, <1>2, StillDetected DEF PinInv, SentOnce
<1> QED BY <1>6, <1>7, <1>8, <1>9 DEF PinInv

LEMMA WorldPin ==
  ASSUME PinStep, PutCard \/ TakeCard
  PROVE  PinInv'
<1>1. /\ IInv /\ TInv /\ QueueTypes /\ PinInv /\ rdRc' \in Counters
      /\ SameState /\ cmds' = cmds /\ msgs' = Append(msgs, Signal(rdRc'))
      /\ UNCHANGED <<pw, expRc, ctxConn, ctxRc, paceMsg, paceOut, chipRc, rejections>>
  BY DEF PinStep, IInv, TInv, NumberTypes, PutCard, TakeCard, SameState, controlVars, contextVars,
         passwordVars, settingVars, chipVars
<1>2. Spent' = Spent /\ Clears' = Clears /\ Prepared' = Prepared /\ (Blind => Blind')
  BY <1>1, StillBlind DEF Spent, Clears, Prepared, Runs, SameState
<1>3. Signal(rdRc') \in Messages /\ ~IsOwn(Signal(rdRc'))
  BY <1>1, SignalTypes DEF TInv, Signal, IsOwn, OfState
<1>4. \A j \in DOMAIN msgs' : IsOwn(msgs'[j]) => j \in DOMAIN msgs /\ msgs'[j] = msgs[j]
  BY <1>1, <1>3, InAppended DEF QueueTypes
<1>5. \A x : \A j \in DOMAIN msgs : Told(msgs', j, "context", ctxRc, x) => Told(msgs, j, "context", ctxRc, x)
  <2>1. DOMAIN msgs \subseteq 1 .. (Len(msgs) + 1)
    BY <1>1, LenProperties DEF QueueTypes
  <2> QED BY <1>1, <1>3, <2>1, ToldAppended DEF QueueTypes
<1>6. CounterTold' /\ PinAccepted'
  BY <1>1, <1>2, <1>4, <1>5 DEF PinInv, CounterTold, PinAccepted, OkCounter, PinTaken, Fresh, KnownCounter
<1>7. CounterTaken' /\ CounterCompared' /\ WordThere'
  BY <1>1, <1>2 DEF PinInv, CounterTaken, CounterCompared, WordThere, Fresh, KnownCounter, Runs, SameState
<1>8. Sendable'
  BY <1>1, <1>2 DEF PinInv, Sendable, MaySend, KnownCounter
<1>9. Detected' /\ SentOnce'
  BY <1>1, <1>2, StillDetected DEF PinInv, SentOnce
<1> QED BY <1>6, <1>7, <1>8, <1>9 DEF PinInv

LEMMA NextPin == PinStep => PinInv'
<1> SUFFICES ASSUME PinStep PROVE PinInv'
  OBVIOUS
<1>1. CASE Run
  BY <1>1, RunPin
<1>2. CASE Deliver
  BY <1>2, AnswerPin, EventPin
<1>3. CASE Client
  BY <1>3, ClientPin
<1>4. CASE User
  BY <1>4, UserPin
<1>5. CASE ReaderThread
  BY <1>5, ChipPin, CalmPin
<1>6. CASE PutCard \/ TakeCard
  BY <1>6, WorldPin
<1>7. CASE UNCHANGED vars
  <2>1. PinInv
    BY DEF PinStep
  <2> QED BY <1>7, <2>1
    DEF PinInv, CounterTold, CounterTaken, CounterCompared, WordThere, Sendable, Detected, PinAccepted,
        SentOnce, OkCounter, PinTaken, Fresh, KnownCounter, MaySend, Spent, Behind, Blind,
        Clears, Prepared, Runs, Live, Knows, Value, vars, controlVars, contextVars, passwordVars, settingVars,
        serverVars, chipVars, worldVars, readerVars
<1> QED BY <1>1, <1>2, <1>3, <1>4, <1>5, <1>6, <1>7 DEF PinStep, Next, MainThread, Terminated

\* As long as at most one reading of the counter has failed.
FewFailures == failures <= 1

(* A PIN the chip has rejected is not sent to it once more unless the user *)
(* has entered it again: not when the answer is lost, when a stop throws   *)
(* it away, for the next request or for the next client. The counter that  *)
(* is compared before each password is what detects it; the comparison     *)
(* holds as long as the reading of the counter has failed at most once.    *)
THEOREM RejectedPinStays == Spec => []RejectedPinNotSentAgain
<1>1. Init => ChipOrder /\ Views /\ PinInv
  <2> SUFFICES ASSUME Init PROVE ChipOrder /\ Views /\ PinInv
    OBVIOUS
  <2>1. ChipOrder
    BY DEF Init, ChipOrder
  <2>2. Views
    BY CounterAssumption DEF Init, Views, Listeners, Live
  <2>3. PinInv
    BY DEF Init, PinInv, CounterTold, CounterTaken, CounterCompared, WordThere, Sendable, Detected, PinAccepted,
           SentOnce, Spent, Prepared, Runs
  <2> QED BY <2>1, <2>2, <2>3
<1>2. ChipOrder /\ IInv /\ [Next]_vars => ChipOrder'
  BY NextOrder
<1>3. Views /\ IInv /\ [Next]_vars => Views'
  BY NextViews
<1>4. /\ IInv /\ IInv' /\ ChipOrder /\ ChipOrder' /\ Views /\ (FewFailures => PinInv) /\ [Next]_vars
      => (FewFailures => PinInv)'
  <2> SUFFICES ASSUME IInv, IInv', ChipOrder, ChipOrder', Views, FewFailures => PinInv, [Next]_vars, FewFailures'
               PROVE  PinInv'
    OBVIOUS
  <2>1. failures <= failures'
    BY NextReads
  <2>2. FewFailures /\ failures' <= 1
    <3>1. failures \in Nat /\ failures' \in Nat
      BY NextReads
    <3> QED BY <2>1, <3>1 DEF FewFailures
  <2>3. HearSay
    BY NextHears
  <2> QED BY <2>2, <2>3, NextPin DEF PinStep
<1>5. (FewFailures => PinInv) => RejectedPinNotSentAgain
  BY DEF PinInv, SentOnce, FewFailures, RejectedPinNotSentAgain
<1> QED BY <1>1, <1>2, <1>3, <1>4, <1>5, InitIInv, NextIInv, PTL DEF Spec
=============================================================================
