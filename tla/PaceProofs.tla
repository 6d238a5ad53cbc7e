----------------------------- MODULE PaceProofs -----------------------------
(***************************************************************************)
(* What every workflow with an ID card rests on, for any readers and cards *)
(* and without any bound: the reader thread, the composite state and the   *)
(* steps the workflows share keep their variables in their types, and      *)
(* where the composite state may lead.                                     *)
(***************************************************************************)
EXTENDS CompositeStatePace, SequenceTheorems, TLAPS

Messages == Reply \cup Event

-----------------------------------------------------------------------------
(* Queues. *)

LEMMA DisownType ==
  /\ \A q \in Seq(Command)  : Disown(q) \in Seq(Command)
  /\ \A q \in Seq(Messages) : Disown(q) \in Seq(Messages)
<1>1. ASSUME NEW q \in Seq(Command) PROVE Disown(q) \in Seq(Command)
  <2>1. Len(q) \in Nat /\ DOMAIN q = 1 .. Len(q) /\ \A i \in 1 .. Len(q) : q[i] \in Command
    BY LenProperties, ElementOfSeq
  <2>2. ASSUME NEW i \in 1 .. Len(q) PROVE [q[i] EXCEPT !.mine = FALSE] \in Command
    BY <2>1 DEF Command
  <2>3. Disown(q) \in [1 .. Len(q) -> Command]
    BY <2>1, <2>2 DEF Disown
  <2> QED BY <2>1, <2>3
<1>2. ASSUME NEW q \in Seq(Messages) PROVE Disown(q) \in Seq(Messages)
  <2>1. Len(q) \in Nat /\ DOMAIN q = 1 .. Len(q) /\ \A i \in 1 .. Len(q) : q[i] \in Messages
    BY LenProperties, ElementOfSeq
  <2>2. ASSUME NEW i \in 1 .. Len(q) PROVE [q[i] EXCEPT !.mine = FALSE] \in Messages
    <3>1. CASE q[i] \in Reply
      BY <3>1 DEF Messages, Reply
    <3>2. CASE q[i] \in Event
      BY <3>2 DEF Messages, Event
    <3> QED BY <2>1, <3>1, <3>2 DEF Messages
  <2>3. Disown(q) \in [1 .. Len(q) -> Messages]
    BY <2>1, <2>2 DEF Disown
  <2> QED BY <2>1, <2>3
<1> QED BY <1>1, <1>2

LEMMA DetachType == \A q \in Seq(Messages) : Detach(q) \in Seq(Messages)
<1> SUFFICES ASSUME NEW q \in Seq(Messages) PROVE Detach(q) \in Seq(Messages)
  OBVIOUS
<1>1. Len(q) \in Nat /\ DOMAIN q = 1 .. Len(q) /\ \A i \in 1 .. Len(q) : q[i] \in Messages
  BY LenProperties, ElementOfSeq
<1>2. ASSUME NEW i \in 1 .. Len(q) PROVE [q[i] EXCEPT !.conn = FALSE] \in Messages
  <2>1. CASE q[i] \in Reply
    BY <2>1 DEF Messages, Reply
  <2>2. CASE q[i] \in Event
    BY <2>2 DEF Messages, Event
  <2> QED BY <1>1, <2>1, <2>2 DEF Messages
<1>3. Detach(q) \in [1 .. Len(q) -> Messages]
  BY <1>1, <1>2 DEF Detach
<1> QED BY <1>1, <1>3

(* A function on 1 .. n is a sequence. *)
LEMMA AsSequence ==
  ASSUME NEW S, NEW n \in Nat, NEW f \in [1 .. n -> S]
  PROVE  f \in Seq(S)
OBVIOUS

LEMMA Queues ==
  ASSUME NEW S, NEW q \in Seq(S)
  PROVE  /\ q # <<>> => Head(q) \in S /\ Tail(q) \in Seq(S)
         /\ \A x \in S : Append(q, x) \in Seq(S)
BY HeadTailProperties, AppendProperties

-----------------------------------------------------------------------------
(* The world and the reader thread. *)

LEMMA FirstCommand ==
  ASSUME CardTypeOK, cmds # <<>>
  PROVE  /\ Head(cmds) \in Command /\ Head(cmds).reader \in Readers
         /\ Tail(cmds) \in Seq(Command)
<1>1. Head(cmds) \in Command /\ Tail(cmds) \in Seq(Command)
  BY Queues DEF CardTypeOK
<1> QED BY <1>1 DEF Command

(* A command that is answered. *)
LEMMA FinishType ==
  ASSUME CardTypeOK, cmds # <<>>, NEW code \in Codes, Finish(code)
  PROVE  cmds' \in Seq(Command) /\ msgs' \in Seq(Messages)
<1>1. Head(cmds) \in Command /\ Tail(cmds) \in Seq(Command)
  BY FirstCommand
<1>2. Answer(Head(cmds), code) \in Messages
  BY <1>1 DEF Command, Answer, Messages, Reply
<1> QED BY <1>1, <1>2, Queues DEF CardTypeOK, Messages, Finish

LEMMA Counters == -1 \in RetryCounters /\ \A k \in 0 .. 3 : k \in RetryCounters
BY DEF RetryCounters

LEMMA SignalType ==
  ASSUME NEW type \in {"inserted", "removed", "counter"}, NEW r \in Readers,
         NEW k \in RetryCounters
  PROVE  Signal(type, r, k) \in Event
<1>1. Listening(r) \in BOOLEAN
  BY DEF Listening
<1> QED BY <1>1 DEF Signal, Event

LEMMA PollType ==
  ASSUME CardTypeOK, NEW r \in Readers, NEW d \in ReaderData, NEW o \in PollOutcomes(r, d)
  PROVE  /\ o.data \in ReaderData
         /\ o.events # <<>> =>
              /\ o.events = <<o.events[1]>>
              /\ o.events[1].type \in {"inserted", "removed"} /\ o.events[1].rc \in RetryCounters
<1>1. CASE slot[r] # NoCard /\ ~d.obj
  <2>1. PICK k \in {chipRc[slot[r]]} \cup {-1} :
          o = [data |-> [obj |-> TRUE, handle |-> "closed", rc |-> k],
               events |-> <<[type |-> "inserted", rc |-> k]>>]
    BY <1>1 DEF PollOutcomes
  <2>2. k \in RetryCounters
    <3>1. chipRc[slot[r]] \in 0 .. 3
      BY <1>1 DEF CardTypeOK
    <3> QED BY <2>1, <3>1, Counters
  <2> QED BY <2>1, <2>2 DEF ReaderData
<1>2. CASE slot[r] = NoCard /\ d.obj
  <2>1. o = [data |-> NoCardInfo, events |-> <<[type |-> "removed", rc |-> -1]>>]
    BY <1>2 DEF PollOutcomes
  <2>2. NoCardInfo \in ReaderData
    BY Counters DEF NoCardInfo, ReaderData
  <2> QED BY <2>1, <2>2, Counters
<1>3. CASE ~(slot[r] # NoCard /\ ~d.obj) /\ ~(slot[r] = NoCard /\ d.obj)
  BY <1>3 DEF PollOutcomes
<1> QED BY <1>1, <1>2, <1>3

LEMMA WorldType ==
  ASSUME CardTypeOK, World
  PROVE  CardTypeOK'
<1> USE DEF CardTypeOK, chipVars, readerVars
<1>1. ASSUME NEW r \in Readers, TakeCard(r) PROVE CardTypeOK'
  <2> USE <1>1 DEF TakeCard
  <2>1. slot' \in [Readers -> Cards \cup {NoCard}] /\ canOpen' \in [Cards -> BOOLEAN]
        /\ moves' \in Nat
    OBVIOUS
  <2>2. Broken(rd[r]) \in ReaderData
    BY DEF Broken, ReaderData
  <2>3. rd' \in [Readers -> ReaderData]
    BY <2>2
  <2> QED BY <2>1, <2>3
<1>2. ASSUME NEW r \in Readers, NEW c \in Cards, PutCard(r, c) PROVE CardTypeOK'
  BY <1>2 DEF PutCard
<1> QED BY <1>1, <1>2 DEF World

LEMMA UpdateType ==
  ASSUME CardTypeOK, NEW r \in Readers, Update(r)
  PROVE  CardTypeOK'
<1>1. PICK o \in PollOutcomes(r, rd[r]) :
        /\ o.events # <<>>
        /\ rd' = [rd EXCEPT ![r] = o.data]
        /\ failures' = IF FailedRead(o) THEN failures + 1 ELSE failures
        /\ msgs' = Append(msgs, Signal(o.events[1].type, r, o.events[1].rc))
        /\ UNCHANGED <<worldVars, chipVars, cmds, conn>>
  BY DEF Update
<1>2. /\ o.data \in ReaderData
      /\ o.events[1].type \in {"inserted", "removed"} /\ o.events[1].rc \in RetryCounters
  BY <1>1, PollType DEF CardTypeOK
<1>3. Signal(o.events[1].type, r, o.events[1].rc) \in Messages
  BY <1>2, SignalType DEF Messages
<1>4. msgs' \in Seq(Messages)
  BY <1>1, <1>3, Queues DEF CardTypeOK, Messages
<1>5. failures' \in Nat /\ rd' \in [Readers -> ReaderData]
  BY <1>1, <1>2 DEF CardTypeOK
<1> QED BY <1>1, <1>4, <1>5 DEF CardTypeOK, Messages, worldVars, chipVars

LEMMA ExecuteCreateType ==
  ASSUME CardTypeOK, ExecuteCreate
  PROVE  CardTypeOK'
<1> DEFINE c == Head(cmds)
           waiting == \E i \in DOMAIN cmds : cmds[i].op = "CREATE" /\ cmds[i].mine
           message(ok) == [Answer(c, IF ok THEN "OK" ELSE "COMMAND_FAILED") EXCEPT !.mine = waiting]
<1>0. PICK ok \in BOOLEAN : /\ rd' = (IF ok THEN [rd EXCEPT ![c.reader].handle = "open"] ELSE rd)
                           /\ msgs' = Append(msgs, message(ok))
  BY DEF ExecuteCreate
<1> DEFINE m == message(ok)
<1>1. /\ cmds # <<>> /\ rd' = (IF ok THEN [rd EXCEPT ![c.reader].handle = "open"] ELSE rd)
      /\ cmds' = Tail(cmds) /\ msgs' = Append(msgs, m)
      /\ UNCHANGED <<worldVars, chipVars, failures, conn>>
  BY <1>0 DEF ExecuteCreate, Executes
<1>2. c \in Command /\ Tail(cmds) \in Seq(Command)
  BY <1>1, Queues DEF CardTypeOK
<1>3. m \in Messages
  <2>1. waiting \in BOOLEAN
    OBVIOUS
  <2>2. Answer(c, IF ok THEN "OK" ELSE "COMMAND_FAILED") \in Reply
    BY <1>2 DEF Answer, Command, Reply, Codes
  <2> HIDE DEF waiting, c
  <2> QED BY <2>1, <2>2 DEF Reply, Messages
<1>4. rd' \in [Readers -> ReaderData]
  <2>1. c.reader \in Readers
    BY <1>2 DEF Command
  <2>2. [rd[c.reader] EXCEPT !.handle = "open"] \in ReaderData
    BY <2>1 DEF CardTypeOK, ReaderData
  <2>3. rd' = rd \/ rd' = [rd EXCEPT ![c.reader] = [rd[c.reader] EXCEPT !.handle = "open"]]
    BY <1>1
  <2> HIDE DEF message, m, c
  <2> QED BY <2>1, <2>2, <2>3 DEF CardTypeOK
<1> HIDE DEF message, m, c
<1>5. msgs' \in Seq(Messages)
  BY <1>1, <1>3, Queues DEF CardTypeOK, Messages
<1> QED BY <1>1, <1>2, <1>4, <1>5 DEF CardTypeOK, Messages, worldVars, chipVars

LEMMA ResetChipType ==
  ASSUME CardTypeOK, NEW r \in Readers, NEW d
  PROVE  ResetChip(r, d) \in [Cards -> BOOLEAN]
BY DEF CardTypeOK, ResetChip

LEMMA ExecuteDropType ==
  ASSUME CardTypeOK, ExecuteDrop
  PROVE  CardTypeOK'
<1> DEFINE r == Head(cmds).reader
<1>1. /\ cmds # <<>> /\ rd' = [rd EXCEPT ![r] = Closed(@)] /\ canOpen' = ResetChip(r, rd[r])
      /\ cmds' = Tail(cmds)
      /\ UNCHANGED <<worldVars, chipRc, blame, done, failures, msgs, conn>>
  BY DEF ExecuteDrop, Executes
<1>2. r \in Readers /\ Tail(cmds) \in Seq(Command)
  BY <1>1, FirstCommand
<1>3. rd' \in [Readers -> ReaderData]
  BY <1>1, <1>2 DEF CardTypeOK, ReaderData, Closed
<1>4. canOpen' \in [Cards -> BOOLEAN]
  BY <1>1, <1>2, ResetChipType
<1> QED BY <1>1, <1>2, <1>3, <1>4 DEF CardTypeOK, worldVars

LEMMA ExecuteUpdateRetryCounterType ==
  ASSUME CardTypeOK, ExecuteUpdateRetryCounter
  PROVE  CardTypeOK'
<1> DEFINE c == Head(cmds)
           r == c.reader
           k == chipRc[slot[r]]
<1>0. failures' = failures \/ failures' = failures + 1
  BY DEF ExecuteUpdateRetryCounter
<1>1. cmds # <<>> /\ failures' \in Nat /\ UNCHANGED <<worldVars, chipVars, conn>>
  <2>1. cmds # <<>> /\ UNCHANGED <<worldVars, chipVars, conn>>
    BY DEF ExecuteUpdateRetryCounter, Executes
  <2>2. failures \in Nat
    BY DEF CardTypeOK
  <2> QED BY <1>0, <2>1, <2>2
<1>2. c \in Command /\ r \in Readers /\ Tail(cmds) \in Seq(Command)
  BY <1>1, FirstCommand
<1>3. CASE /\ rd' = rd
           /\ Finish("COMMAND_FAILED") \/ Finish("CARD_NOT_FOUND")
  <2>1. "COMMAND_FAILED" \in Codes /\ "CARD_NOT_FOUND" \in Codes
    BY DEF Codes
  <2>2. cmds' \in Seq(Command) /\ msgs' \in Seq(Messages)
    BY <1>1, <1>3, <2>1, FinishType
  <2> QED BY <1>1, <1>3, <2>2 DEF CardTypeOK, Messages, worldVars, chipVars
<1>4. CASE /\ Reach(r) /\ rd' = [rd EXCEPT ![r].rc = k] /\ cmds' = Tail(cmds)
           /\ \/ msgs' = msgs \o <<>> \o <<Answer(c, "OK")>>
              \/ msgs' = msgs \o <<Signal("counter", r, k)>> \o <<Answer(c, "OK")>>
  <2>1. k \in RetryCounters
    <3>1. k \in 0 .. 3
      BY <1>2, <1>4 DEF CardTypeOK, Reach
    <3> QED BY <3>1, Counters
  <2>2. rd' \in [Readers -> ReaderData]
    BY <1>2, <1>4, <2>1 DEF CardTypeOK, ReaderData
  <2>3. Signal("counter", r, k) \in Messages /\ Answer(c, "OK") \in Messages
    BY <1>2, <2>1, SignalType DEF Messages, Answer, Command, Reply, Codes
  <2>4. /\ <<Signal("counter", r, k)>> \in Seq(Messages) /\ <<Answer(c, "OK")>> \in Seq(Messages)
        /\ <<>> \in Seq(Messages) /\ msgs \in Seq(Messages)
    BY <2>3 DEF CardTypeOK, Messages
  <2>5. /\ msgs \o <<>> \in Seq(Messages)
        /\ msgs \o <<Signal("counter", r, k)>> \in Seq(Messages)
    BY <2>4, ConcatProperties
  <2>6. /\ msgs \o <<>> \o <<Answer(c, "OK")>> \in Seq(Messages)
        /\ msgs \o <<Signal("counter", r, k)>> \o <<Answer(c, "OK")>> \in Seq(Messages)
    BY <2>4, <2>5, ConcatProperties
  <2>7. msgs' \in Seq(Messages)
    BY <1>4, <2>6
  <2> QED BY <1>1, <1>2, <1>4, <2>2, <2>7 DEF CardTypeOK, Messages, worldVars, chipVars
<1> QED BY <1>3, <1>4 DEF ExecuteUpdateRetryCounter

(* The chip answers within its codes and its counter stays within 0 .. 3.  *)
LEMMA ChipAnswerType ==
  ASSUME CardTypeOK, NEW k \in Cards, NEW id, NEW word
  PROVE  /\ ChipAnswer(k, id, word).code \in Codes
         /\ ChipAnswer(k, id, word).rc \in 0 .. 3
         /\ ChipAnswer(k, id, word).can \in BOOLEAN
<1>1. chipRc[k] \in 0 .. 3 /\ canOpen[k] \in BOOLEAN
  BY DEF CardTypeOK
<1>2. CASE id = "CAN"
  BY <1>1, <1>2 DEF ChipAnswer, Codes
<1>3. CASE id = "PUK"
  BY <1>1, <1>3 DEF ChipAnswer, Codes
<1>4. CASE id # "CAN" /\ id # "PUK"
  <2>1. CASE chipRc[k] = 0 \/ (chipRc[k] = 1 /\ ~canOpen[k])
    BY <1>1, <1>4, <2>1 DEF ChipAnswer, Codes
  <2>2. CASE ~(chipRc[k] = 0 \/ (chipRc[k] = 1 /\ ~canOpen[k])) /\ word = k
    <3>1. ChipAnswer(k, id, word) = [code |-> "OK", rc |-> 3, can |-> FALSE]
      BY <1>4, <2>2 DEF ChipAnswer
    <3> QED BY <3>1 DEF Codes
  <2>3. CASE ~(chipRc[k] = 0 \/ (chipRc[k] = 1 /\ ~canOpen[k])) /\ word # k
    <3>1. ChipAnswer(k, id, word) = [code |-> "INVALID_PIN", rc |-> chipRc[k] - 1, can |-> FALSE]
      BY <1>4, <2>3 DEF ChipAnswer
    <3>2. chipRc[k] - 1 \in 0 .. 3
      BY <1>1, <2>3
    <3> QED BY <3>1, <3>2 DEF Codes
  <2> QED BY <2>1, <2>2, <2>3
<1> QED BY <1>2, <1>3, <1>4

LEMMA ChipWorksType ==
  ASSUME CardTypeOK, cmds # <<>>, NEW r \in Readers, slot[r] # NoCard, NEW id, NEW word,
         ChipWorks(r, id, word)
  PROVE  CardTypeOK'
<1> DEFINE k == slot[r]
           a == ChipAnswer(k, id, word)
<1>1. k \in Cards
  BY DEF CardTypeOK
<1>2. a.code \in Codes /\ a.rc \in 0 .. 3 /\ a.can \in BOOLEAN
  BY <1>1, ChipAnswerType
<1>3. /\ chipRc' = [chipRc EXCEPT ![k] = a.rc]
      /\ \/ blame' = blame
         \/ blame' = [blame EXCEPT ![k] = @ + 1]
         \/ blame' = [blame EXCEPT ![k] = 0]
      /\ done' \in {done, "unblocked"}
      /\ failures' = failures /\ conn' = conn
  BY DEF ChipWorks
<1>4. chipRc' \in [Cards -> 0 .. 3] /\ blame' \in [Cards -> Nat]
  <2> HIDE DEF k, a
  <2>1. chipRc \in [Cards -> 0 .. 3] /\ blame \in [Cards -> Nat]
    BY DEF CardTypeOK
  <2>2. chipRc' \in [Cards -> 0 .. 3]
    BY <1>1, <1>2, <1>3, <2>1
  <2>3. blame' \in [Cards -> Nat]
    BY <1>1, <1>3, <2>1
  <2> QED BY <2>2, <2>3
<1>5. /\ canOpen' \in [Cards -> BOOLEAN] /\ slot' \in [Readers -> Cards \cup {NoCard}]
      /\ moves' \in Nat /\ rd' \in [Readers -> ReaderData]
      /\ cmds' \in Seq(Command) /\ msgs' \in Seq(Messages)
  <2>1. CASE /\ Finish(a.code) /\ canOpen' = [canOpen EXCEPT ![k] = a.can]
             /\ UNCHANGED <<worldVars, rd>>
    <3>1. cmds' \in Seq(Command) /\ msgs' \in Seq(Messages)
      BY <1>2, <2>1, FinishType
    <3> QED BY <1>2, <2>1, <3>1 DEF CardTypeOK, worldVars
  <2>2. CASE /\ moves' = moves + 1 /\ Finish("RETRY_ALLOWED")
             /\ canOpen' = [canOpen EXCEPT ![k] = FALSE]
             /\ slot' = [slot EXCEPT ![r] = NoCard]
             /\ rd' = [rd EXCEPT ![r] = Broken(@)]
    <3>1. cmds' \in Seq(Command) /\ msgs' \in Seq(Messages)
      BY <2>2, FinishType DEF Codes
    <3>2. Broken(rd[r]) \in ReaderData
      BY DEF CardTypeOK, Broken, ReaderData
    <3> QED BY <2>2, <3>1, <3>2 DEF CardTypeOK
  <2> QED BY <2>1, <2>2 DEF ChipWorks
<1> QED BY <1>3, <1>4, <1>5 DEF CardTypeOK, Messages

LEMMA FinishOnlyType ==
  ASSUME CardTypeOK, cmds # <<>>, NEW code \in Codes, Finish(code), UnchangedByCommand
  PROVE  CardTypeOK'
<1>1. cmds' \in Seq(Command) /\ msgs' \in Seq(Messages)
  BY FinishType
<1> QED BY <1>1 DEF CardTypeOK, Messages, UnchangedByCommand, worldVars, chipVars

LEMMA ExecuteEstablishPaceChannelType ==
  ASSUME CardTypeOK, ExecuteEstablishPaceChannel
  PROVE  CardTypeOK'
<1> DEFINE c == Head(cmds)
           r == c.reader
<1>1. cmds # <<>> /\ r \in Readers
  BY FirstCommand DEF ExecuteEstablishPaceChannel, Executes
<1>2. ASSUME NEW code \in {"CARD_NOT_FOUND", "RETRY_ALLOWED", "CANCELLATION_BY_USER",
                          "INPUT_TIME_OUT"},
             Finish(code), UnchangedByCommand
      PROVE  CardTypeOK'
  <2>1. code \in Codes
    BY DEF Codes
  <2> QED BY <1>1, <1>2, <2>1, FinishOnlyType
<1>3. ASSUME Reach(r), NEW word, ChipWorks(r, c.id, word) PROVE CardTypeOK'
  BY <1>1, <1>3, ChipWorksType DEF Reach
<1> QED BY <1>2, <1>3 DEF ExecuteEstablishPaceChannel

LEMMA ExecuteUnblockPinType ==
  ASSUME CardTypeOK, ExecuteUnblockPin
  PROVE  CardTypeOK'
<1> DEFINE c == Head(cmds)
           r == c.reader
<1>1. cmds # <<>> /\ r \in Readers
  BY FirstCommand DEF ExecuteUnblockPin, Executes
<1>2. ASSUME NEW code \in {"CARD_NOT_FOUND", "RETRY_ALLOWED", "PIN_NOT_BLOCKED",
                          "PUK_INOPERATIVE"},
             Finish(code), UnchangedByCommand
      PROVE  CardTypeOK'
  <2>1. code \in Codes
    BY DEF Codes
  <2> QED BY <1>1, <1>2, <2>1, FinishOnlyType
<1>3. ASSUME Reach(r), NEW word, ChipWorks(r, "PUK", word) PROVE CardTypeOK'
  BY <1>1, <1>3, ChipWorksType DEF Reach
<1> QED BY <1>2, <1>3 DEF ExecuteUnblockPin

LEMMA ExecuteDestroyPaceChannelType ==
  ASSUME CardTypeOK, ExecuteDestroyPaceChannel
  PROVE  CardTypeOK'
<1> DEFINE r == Head(cmds).reader
           code == IF Reach(r) THEN "OK"
                   ELSE IF rd[r].obj THEN "COMMAND_FAILED" ELSE "CARD_NOT_FOUND"
<1>1. cmds # <<>> /\ code \in Codes /\ Finish(code)
  BY DEF ExecuteDestroyPaceChannel, Executes, Codes
<1>2. cmds' \in Seq(Command) /\ msgs' \in Seq(Messages)
  BY <1>1, FinishType
<1>3. canOpen' \in [Cards -> BOOLEAN]
  BY DEF ExecuteDestroyPaceChannel, CardTypeOK
<1> QED BY <1>2, <1>3 DEF ExecuteDestroyPaceChannel, CardTypeOK, Messages, worldVars

LEMMA ExecuteSetEidPinType ==
  ASSUME CardTypeOK, ExecuteSetEidPin
  PROVE  CardTypeOK'
<1>1. PICK code \in {"CARD_NOT_FOUND", "COMMAND_FAILED", "OK", "INPUT_TIME_OUT",
                    "CANCELLATION_BY_USER", "NEW_PIN_MISMATCH", "NEW_PIN_INVALID_LENGTH",
                    "PIN_BLOCKED", "PROTOCOL_ERROR"} :
        Finish(code) /\ done' \in {done, "changed"}
  BY DEF ExecuteSetEidPin
<1>2. code \in Codes /\ cmds # <<>>
  BY DEF Codes, ExecuteSetEidPin, Executes
<1>3. cmds' \in Seq(Command) /\ msgs' \in Seq(Messages)
  BY <1>1, <1>2, FinishType
<1> QED BY <1>1, <1>3 DEF ExecuteSetEidPin, CardTypeOK, Messages, worldVars

LEMMA ReaderThreadType ==
  ASSUME CardTypeOK, ReaderThread
  PROVE  CardTypeOK'
BY UpdateType, ExecuteCreateType, ExecuteDropType, ExecuteUpdateRetryCounterType,
   ExecuteEstablishPaceChannelType, ExecuteUnblockPinType, ExecuteDestroyPaceChannelType,
   ExecuteSetEidPinType
   DEF ReaderThread, Execute

(* What an executed command leaves in the queues: it is gone, and but for  *)
(* the dropped worker an answer follows, for UPDATE_RC maybe after the     *)
(* news of a changed counter.                                              *)
LEMMA Answered ==
  ASSUME CardTypeOK, Execute
  PROVE  /\ cmds # <<>> /\ cmds' = Tail(cmds) /\ conn' = conn
         /\ \/ ExecuteDrop /\ msgs' = msgs
            \/ \E m \in Reply :
                 /\ m.kind = Head(cmds).op /\ m.reader = Head(cmds).reader /\ m.id = Head(cmds).id
                 /\ m.kind # "CREATE" => m.mine = Head(cmds).mine /\ m.conn = Head(cmds).conn
                 /\ \/ msgs' = Append(msgs, m)
                    \/ \E e \in Event :
                         /\ ExecuteUpdateRetryCounter /\ msgs' = Append(Append(msgs, e), m)
                         /\ e.reader = m.reader /\ e.conn = Listening(e.reader)
<1> DEFINE c == Head(cmds)
           Replied == \E m \in Reply :
                        /\ m.kind = c.op /\ m.reader = c.reader /\ m.id = c.id
                        /\ m.kind # "CREATE" => m.mine = c.mine /\ m.conn = c.conn
                        /\ \/ msgs' = Append(msgs, m)
                           \/ \E e \in Event :
                                /\ ExecuteUpdateRetryCounter /\ msgs' = Append(Append(msgs, e), m)
                                /\ e.reader = m.reader /\ e.conn = Listening(e.reader)
<1>1. cmds # <<>> /\ cmds' = Tail(cmds) /\ conn' = conn
  BY DEF Execute, Executes, Finish, ExecuteCreate, ExecuteDrop, ExecuteUpdateRetryCounter,
         ExecuteEstablishPaceChannel, ExecuteUnblockPin, ExecuteDestroyPaceChannel,
         ExecuteSetEidPin, ChipWorks, UnchangedByCommand
<1>2. c \in Command /\ c.reader \in Readers
  BY <1>1, FirstCommand
<1>3. ASSUME NEW code \in Codes
      PROVE  /\ Answer(c, code) \in Reply
             /\ Answer(c, code).kind = c.op /\ Answer(c, code).reader = c.reader
             /\ Answer(c, code).id = c.id
             /\ Answer(c, code).mine = c.mine /\ Answer(c, code).conn = c.conn
  BY <1>2 DEF Answer, Command, Reply
<1>4. ASSUME NEW code \in Codes, Finish(code) PROVE Replied
  <2>1. msgs' = Append(msgs, Answer(c, code))
    BY <1>4 DEF Finish
  <2> QED BY <1>3, <2>1
<1>5. ASSUME ExecuteCreate PROVE Replied
  <2> DEFINE waiting == \E i \in DOMAIN cmds : cmds[i].op = "CREATE" /\ cmds[i].mine
  <2>1. PICK code \in Codes : msgs' = Append(msgs, [Answer(c, code) EXCEPT !.mine = waiting])
    BY <1>5 DEF ExecuteCreate, Codes
  <2>4. c.op = "CREATE"
    BY <1>5 DEF ExecuteCreate, Executes
  <2> HIDE DEF waiting
  <2>2. waiting \in BOOLEAN
    BY DEF waiting
  <2>3. /\ [Answer(c, code) EXCEPT !.mine = waiting] \in Reply
        /\ [Answer(c, code) EXCEPT !.mine = waiting].kind = c.op
        /\ [Answer(c, code) EXCEPT !.mine = waiting].reader = c.reader
        /\ [Answer(c, code) EXCEPT !.mine = waiting].id = c.id
    BY <1>3, <2>2 DEF Reply
  <2> HIDE DEF c
  <2> QED BY <2>1, <2>3, <2>4
<1>6. ASSUME ExecuteUpdateRetryCounter PROVE Replied
  <2> DEFINE r == c.reader
             k == chipRc[slot[r]]
  <2>1. CASE Finish("COMMAND_FAILED") \/ Finish("CARD_NOT_FOUND")
    <3>1. "COMMAND_FAILED" \in Codes /\ "CARD_NOT_FOUND" \in Codes
      BY DEF Codes
    <3> QED BY <1>4, <2>1, <3>1
  <2>2. CASE /\ Reach(r)
             /\ \/ msgs' = msgs \o <<>> \o <<Answer(c, "OK")>>
                \/ msgs' = msgs \o <<Signal("counter", r, k)>> \o <<Answer(c, "OK")>>
    <3>1. k \in RetryCounters
      <4>1. k \in 0 .. 3
        BY <1>2, <2>2 DEF CardTypeOK, Reach
      <4> QED BY <4>1, Counters
    <3>2. /\ Signal("counter", r, k) \in Event /\ "OK" \in Codes
          /\ Signal("counter", r, k).reader = r /\ Signal("counter", r, k).conn = Listening(r)
      BY <1>2, <3>1, SignalType DEF Codes, Signal
    <3>3. msgs \o <<>> = msgs
      BY ConcatEmptySeq DEF CardTypeOK
    <3>4. \/ msgs' = Append(msgs, Answer(c, "OK"))
          \/ msgs' = Append(Append(msgs, Signal("counter", r, k)), Answer(c, "OK"))
      BY <2>2, <3>3, AppendIsConcat DEF CardTypeOK
    <3>5. Answer(c, "OK").reader = r
      BY <1>3, <3>2
    <3> HIDE DEF c, r, k
    <3> QED BY <1>3, <1>6, <3>2, <3>4, <3>5
  <2> QED BY <1>6, <2>1, <2>2 DEF ExecuteUpdateRetryCounter
<1>7. ASSUME ExecuteEstablishPaceChannel \/ ExecuteUnblockPin PROVE Replied
  <2>1. ASSUME NEW r, slot[r] # NoCard, r \in Readers, NEW id, NEW word, ChipWorks(r, id, word)
        PROVE  Replied
    <3>1. ChipAnswer(slot[r], id, word).code \in Codes
      BY <2>1, ChipAnswerType DEF CardTypeOK
    <3> QED BY <1>4, <2>1, <3>1 DEF ChipWorks, Codes
  <2> HIDE DEF Replied
  <2> QED BY <1>2, <1>4, <1>7, <2>1
      DEF ExecuteEstablishPaceChannel, ExecuteUnblockPin, Reach, Codes
<1>8. ASSUME ExecuteDestroyPaceChannel \/ ExecuteSetEidPin PROVE Replied
  <2>1. \E code \in Codes : Finish(code)
    BY <1>8 DEF ExecuteDestroyPaceChannel, ExecuteSetEidPin, Codes
  <2> HIDE DEF Replied
  <2> QED BY <1>4, <2>1
<1>9. ExecuteDrop => msgs' = msgs
  BY DEF ExecuteDrop
<1>10. Replied \/ ExecuteDrop
  <2> HIDE DEF Replied
  <2> QED BY <1>5, <1>6, <1>7, <1>8 DEF Execute
<1> QED BY <1>1, <1>9, <1>10

-----------------------------------------------------------------------------
(* What the main thread does to the reader thread's side. *)

LEMMA UnchangedReaderType ==
  ASSUME CardTypeOK, UnchangedReader
  PROVE  CardTypeOK'
BY DEF CardTypeOK, UnchangedReader, cardVars

LEMMA FirstMessage ==
  ASSUME CardTypeOK, msgs # <<>>
  PROVE  /\ Head(msgs) \in Messages /\ Head(msgs).reader \in Readers
         /\ Head(msgs).kind \notin {"inserted", "removed", "counter"} =>
              Head(msgs) \in Reply /\ Head(msgs).code \in Codes /\ Head(msgs).id \in PaceIds
         /\ Head(msgs).kind \in {"inserted", "removed", "counter"} =>
              Head(msgs) \in Event /\ Head(msgs).rc \in RetryCounters
         /\ Tail(msgs) \in Seq(Messages)
<1>1. Head(msgs) \in Messages /\ Tail(msgs) \in Seq(Messages)
  BY Queues DEF CardTypeOK, Messages
<1>2. CASE Head(msgs) \in Reply
  BY <1>1, <1>2 DEF Reply, CommandOps
<1>3. CASE Head(msgs) \in Event
  BY <1>1, <1>3 DEF Event
<1> QED BY <1>1, <1>2, <1>3 DEF Messages

LEMMA PostType ==
  ASSUME CardTypeOK, conn # NoConn, NEW op \in CommandOps, NEW id \in PaceIds,
         NEW word \in Passwords \cup {NoPassword}, Post(op, id, word)
  PROVE  CardTypeOK'
<1> DEFINE c == [op |-> op, reader |-> conn.reader, id |-> id, pw |-> word, mine |-> TRUE,
                 conn |-> TRUE]
<1>1. cmds' = Append(cmds, c) /\ UNCHANGED <<worldVars, chipVars, rd, failures, msgs, conn>>
  BY DEF Post
<1>2. c \in Command
  BY DEF CardTypeOK, Connection, Command
<1>3. cmds' \in Seq(Command)
  BY <1>1, <1>2, Queues DEF CardTypeOK
<1> QED BY <1>1, <1>3 DEF CardTypeOK, worldVars, chipVars

(* The poll that ends with the old connection adds at most one signal.      *)
LEMMA ResetSignals ==
  ASSUME CardTypeOK, readerName \in Readers, NEW queue, ResetCardConnection(queue)
  PROVE  \E p \in Seq(Event) :
           Len(p) <= 1 /\ msgs' = Detach(queue) \o p /\ \A i \in DOMAIN p : ~p[i].conn
<1> DEFINE closed == IF conn = NoConn THEN rd ELSE [rd EXCEPT ![conn.reader] = Closed(@)]
           signals(o) == [i \in DOMAIN o.events |->
                            [Signal(o.events[i].type, readerName, o.events[i].rc)
                               EXCEPT !.conn = FALSE]]
<1>1. closed \in [Readers -> ReaderData]
  <2>1. rd \in [Readers -> ReaderData] /\ \A d \in ReaderData : Closed(d) \in ReaderData
    BY DEF CardTypeOK, ReaderData, Closed
  <2>2. conn # NoConn => conn.reader \in Readers
    BY DEF CardTypeOK, Connection
  <2> QED BY <2>1, <2>2
<1>2. PICK o \in PollOutcomes(readerName, closed[readerName]) : msgs' = Detach(queue) \o signals(o)
  BY PaceAssumption DEF ResetCardConnection
<1> HIDE DEF closed
<1>3. o.events # <<>> =>
        /\ o.events = <<o.events[1]>>
        /\ o.events[1].type \in {"inserted", "removed"} /\ o.events[1].rc \in RetryCounters
  BY <1>1, <1>2, PollType
<1>4. PICK n \in 0 .. 1 : DOMAIN o.events = 1 .. n /\ (n = 1 => o.events # <<>>)
  <2>1. CASE o.events = <<>>
    <3>1. DOMAIN o.events = 1 .. 0
      BY <2>1
    <3> QED BY <3>1
  <2>2. CASE o.events # <<>>
    <3>1. DOMAIN o.events = 1 .. 1
      BY <1>3, <2>2
    <3> QED BY <2>2, <3>1
  <2> QED BY <2>1, <2>2
<1>5. ASSUME NEW i \in 1 .. n
      PROVE  /\ [Signal(o.events[i].type, readerName, o.events[i].rc) EXCEPT !.conn = FALSE] \in Event
             /\ ~[Signal(o.events[i].type, readerName, o.events[i].rc) EXCEPT !.conn = FALSE].conn
  <2>1. i = 1 /\ o.events # <<>>
    BY <1>4, <1>5
  <2>2. Signal(o.events[i].type, readerName, o.events[i].rc) \in Event
    BY <1>3, <2>1, SignalType
  <2> QED BY <2>2 DEF Event
<1>6. signals(o) \in [1 .. n -> Event] /\ \A i \in DOMAIN signals(o) : ~signals(o)[i].conn
  BY <1>4, <1>5
<1>7. n \in Nat /\ n <= 1
  BY <1>4
<1> HIDE DEF signals
<1>8. signals(o) \in Seq(Event)
  BY <1>6, <1>7, AsSequence
<1>9. Len(signals(o)) = n
  BY <1>6, <1>7, <1>8, LenProperties
<1> QED BY <1>2, <1>6, <1>7, <1>8, <1>9

LEMMA ResetCardConnectionType ==
  ASSUME CardTypeOK, readerName \in Readers \cup {NoReader}, NEW queue \in Seq(Messages),
         ResetCardConnection(queue)
  PROVE  CardTypeOK'
<1> DEFINE closed == IF conn = NoConn THEN rd ELSE [rd EXCEPT ![conn.reader] = Closed(@)]
<1>1. closed \in [Readers -> ReaderData]
  <2>1. rd \in [Readers -> ReaderData] /\ \A d \in ReaderData : Closed(d) \in ReaderData
    BY DEF CardTypeOK, ReaderData, Closed
  <2>2. conn # NoConn => conn.reader \in Readers
    BY DEF CardTypeOK, Connection
  <2> QED BY <2>1, <2>2
<1>2. canOpen' \in [Cards -> BOOLEAN]
  <2>1. CASE conn = NoConn
    BY <2>1 DEF ResetCardConnection, CardTypeOK
  <2>2. CASE conn # NoConn
    <3>1. conn.reader \in Readers
      BY <2>2 DEF CardTypeOK, Connection
    <3> QED BY <2>2, <3>1, ResetChipType DEF ResetCardConnection
  <2> QED BY <2>1, <2>2
<1>3. Detach(queue) \in Seq(Messages)
  BY DetachType
<1> HIDE DEF closed
<1>4. rd' \in [Readers -> ReaderData] /\ failures' \in Nat /\ msgs' \in Seq(Messages)
  <2>1. CASE readerName = NoReader
    <3>1. rd' = closed /\ msgs' = Detach(queue) /\ failures' = failures
      BY <2>1 DEF ResetCardConnection, closed
    <3> QED BY <1>1, <1>3, <3>1 DEF CardTypeOK
  <2>2. CASE readerName # NoReader
    <3>1. PICK o \in PollOutcomes(readerName, closed[readerName]) :
            /\ rd' = [closed EXCEPT ![readerName] = o.data]
            /\ failures' = IF FailedRead(o) THEN failures + 1 ELSE failures
      BY <2>2 DEF ResetCardConnection, closed
    <3>2. readerName \in Readers /\ closed[readerName] \in ReaderData
      BY <1>1, <2>2
    <3>3. o.data \in ReaderData
      BY <3>1, <3>2, PollType
    <3>4. PICK p \in Seq(Event) : msgs' = Detach(queue) \o p
      BY <3>2, ResetSignals
    <3>5. p \in Seq(Messages)
      BY <3>4, SeqMonotonic DEF Messages
    <3>6. msgs' \in Seq(Messages)
      BY <1>3, <3>4, <3>5, ConcatProperties
    <3> QED BY <1>1, <3>1, <3>2, <3>3, <3>6 DEF CardTypeOK
  <2> QED BY <2>1, <2>2
<1>5. conn' \in Connection \cup {NoConn} /\ UNCHANGED <<worldVars, chipRc, blame, done, cmds>>
  BY DEF ResetCardConnection
<1> QED BY <1>2, <1>4, <1>5 DEF CardTypeOK, Messages, worldVars

-----------------------------------------------------------------------------
(* The state machine and its context. *)

ModeTypeOK == busy \in BOOLEAN /\ killed \in BOOLEAN /\ cancelPending \in BOOLEAN

DataTypeOK ==
  /\ pw \in [Secrets -> Passwords \cup {NoPassword}]
  /\ idType \in PaceIds
  /\ readerName \in Readers \cup {NoReader}
  /\ expReader \in Readers \cup {NoReader}
  /\ expRc \in RetryCounters
  /\ lastPace \in Codes
  /\ status \in {"NoError", "Cancelled", "Killed", "Error", "CardRemoved", "NoPermission"}
  /\ vanished \in 0 .. 2

(* Everything but the state itself, whose range is the workflow's.         *)
PaceTypeOK == CardTypeOK /\ ContextTypeOK

LEMMA TypeParts == PaceTypeOK <=> CardTypeOK /\ ModeTypeOK /\ DataTypeOK
BY Zenon DEF PaceTypeOK, ContextTypeOK, ModeTypeOK, DataTypeOK

LEMMA TypePartsNext == PaceTypeOK' <=> CardTypeOK' /\ ModeTypeOK' /\ DataTypeOK'
BY Zenon DEF PaceTypeOK, ContextTypeOK, ModeTypeOK, DataTypeOK

LEMMA StepControl ==
  ASSUME ModeTypeOK, UnchangedControl, (\E s : Goto(s)) \/ Wait
  PROVE  ModeTypeOK'
<1>1. busy' \in {TRUE, FALSE}
  BY DEF Goto, Wait
<1>2. killed' = killed /\ cancelPending' = cancelPending
  BY DEF UnchangedControl
<1> QED BY <1>1, <1>2, Zenon DEF ModeTypeOK

LEMMA UnchangedData ==
  ASSUME DataTypeOK, UNCHANGED contextVars
  PROVE  DataTypeOK'
BY DEF DataTypeOK, contextVars

LEMMA StatusType ==
  /\ \A code : StatusOf(code) \in {"NoError", "Cancelled", "Error"}
  /\ \A e \in {"NoError", "Cancelled", "Killed", "Error", "CardRemoved", "NoPermission"} :
       DataTypeOK /\ UpdateStatus(e) => status' \in {"NoError", "Cancelled", "Killed", "Error", "CardRemoved", "NoPermission"}
BY DEF StatusOf, DataTypeOK, UpdateStatus

LEMMA ResetType == ResetPacePasswords => pw' \in [Secrets -> Passwords \cup {NoPassword}]
BY DEF ResetPacePasswords, NoPasswords

(* A card is connected in the reader that was selected. *)
ReaderSelected == st = "ConnectCard" => readerName \in Readers

LEMMA RunMaintainType ==
  ASSUME PaceTypeOK, RunMaintainCardConnection
  PROVE  PaceTypeOK'
<1>1. CardTypeOK /\ ModeTypeOK /\ DataTypeOK
  BY TypeParts
<1>2. UnchangedControl
  BY DEF RunMaintainCardConnection
<1>3. CASE MaintainAborts
  <2>1. CardTypeOK'
    BY <1>1, <1>3, UnchangedReaderType DEF MaintainAborts
  <2>2. ModeTypeOK'
    BY <1>1, <1>2, <1>3, StepControl DEF MaintainAborts
  <2>3. status' \in {"NoError", "Cancelled", "Killed", "Error", "CardRemoved", "NoPermission"}
    BY <1>1, <1>3, StatusType DEF MaintainAborts
  <2>4. DataTypeOK'
    BY <1>1, <1>3, <2>3 DEF MaintainAborts, DataTypeOK
  <2> QED BY <2>1, <2>2, <2>4, TypePartsNext
<1>4. CASE MaintainAfterWrongPassword
  <2>1. CardTypeOK'
    BY <1>1, <1>4, UnchangedReaderType DEF MaintainAfterWrongPassword
  <2>2. ModeTypeOK'
    BY <1>1, <1>2, <1>4, StepControl DEF MaintainAfterWrongPassword
  <2>3. DataTypeOK'
    BY <1>1, <1>4, ResetType DEF MaintainAfterWrongPassword, DataTypeOK
  <2> QED BY <2>1, <2>2, <2>3, TypePartsNext
<1>5. CASE MaintainAfterCardGone
  <2>1. CardTypeOK'
    <3>1. msgs \in Seq(Messages) /\ readerName \in Readers \cup {NoReader}
      BY <1>1 DEF CardTypeOK, DataTypeOK, Messages
    <3> QED BY <1>1, <1>5, <3>1, ResetCardConnectionType DEF MaintainAfterCardGone
  <2>2. ModeTypeOK'
    BY <1>1, <1>2, <1>5, StepControl DEF MaintainAfterCardGone
  <2>3. DataTypeOK'
    BY <1>1, <1>5 DEF MaintainAfterCardGone, DataTypeOK, Codes
  <2> QED BY <2>1, <2>2, <2>3, TypePartsNext
<1>6. CASE MaintainProceeds
  <2>1. CardTypeOK'
    BY <1>1, <1>6, UnchangedReaderType DEF MaintainProceeds
  <2>2. ModeTypeOK'
    BY <1>1, <1>2, <1>6, StepControl DEF MaintainProceeds
  <2>3. DataTypeOK'
    BY <1>1, <1>6 DEF MaintainProceeds, DataTypeOK, Codes
  <2> QED BY <2>1, <2>2, <2>3, TypePartsNext
<1> QED BY <1>3, <1>4, <1>5, <1>6 DEF RunMaintainCardConnection

LEMMA RunClearPacePasswordsOnErrorType ==
  ASSUME PaceTypeOK, RunClearPacePasswordsOnError
  PROVE  PaceTypeOK'
<1>1. CardTypeOK /\ ModeTypeOK /\ DataTypeOK
  BY TypeParts
<1>2. CardTypeOK'
  BY <1>1, UnchangedReaderType DEF RunClearPacePasswordsOnError
<1>3. ModeTypeOK'
  BY <1>1, StepControl DEF RunClearPacePasswordsOnError
<1>4. DataTypeOK'
  BY <1>1, ResetType DEF RunClearPacePasswordsOnError, DataTypeOK
<1> QED BY <1>2, <1>3, <1>4, TypePartsNext

LEMMA RunSelectReaderType ==
  ASSUME PaceTypeOK, RunSelectReader
  PROVE  PaceTypeOK'
<1>1. CardTypeOK /\ ModeTypeOK /\ DataTypeOK
  BY TypeParts
<1>2. CardTypeOK'
  BY <1>1, UnchangedReaderType DEF RunSelectReader
<1>3. ModeTypeOK'
  BY <1>1, StepControl DEF RunSelectReader, SelectReaderNow
<1>4. DataTypeOK'
  BY <1>1 DEF RunSelectReader, SelectReaderNow, DataTypeOK
<1> QED BY <1>2, <1>3, <1>4, TypePartsNext

(* StateConnectCard::onCardInserted for a reader that is known. *)
LEMMA ConnectIfCardType ==
  ASSUME CardTypeOK, NEW queue \in Seq(Messages), readerName \in Readers, ConnectIfCard(queue)
  PROVE  msgs' \in Seq(Messages)
<1>1. CreateCall \in Messages
  BY DEF CreateCall, Messages, Reply, PaceIds, Codes
<1> QED BY <1>1, Queues DEF ConnectIfCard

LEMMA RunConnectCardType ==
  ASSUME PaceTypeOK, ReaderSelected, RunConnectCard
  PROVE  PaceTypeOK'
<1>1. CardTypeOK /\ ModeTypeOK /\ DataTypeOK
  BY TypeParts
<1>2. CardTypeOK'
  <2>1. msgs \in Seq(Messages) /\ readerName \in Readers
    BY <1>1 DEF RunConnectCard, Runs, CardTypeOK, Messages, ReaderSelected
  <2>2. msgs' \in Seq(Messages)
    BY <1>1, <2>1, ConnectIfCardType DEF RunConnectCard
  <2> QED BY <1>1, <2>2 DEF RunConnectCard, CardTypeOK, Messages, worldVars, chipVars
<1>3. ModeTypeOK'
  BY <1>1, StepControl DEF RunConnectCard
<1>4. DataTypeOK'
  BY <1>1, UnchangedData DEF RunConnectCard
<1> QED BY <1>2, <1>3, <1>4, TypePartsNext

LEMMA FinishConnectCardType ==
  ASSUME PaceTypeOK, FinishConnectCard
  PROVE  PaceTypeOK'
<1>1. CardTypeOK /\ ModeTypeOK /\ DataTypeOK
  BY TypeParts
<1>2. CardTypeOK'
  <2>1. msgs' \in Seq(Messages)
    <3>1. msgs \in Seq(Messages)
      BY <1>1 DEF CardTypeOK, Messages
    <3> QED BY <3>1, DisownType DEF FinishConnectCard
  <2>2. conn' \in Connection
    BY <1>1 DEF FinishConnectCard, CardTypeOK, Connection
  <2> QED BY <1>1, <2>1, <2>2 DEF FinishConnectCard, CardTypeOK, Messages, worldVars, chipVars
<1>3. ModeTypeOK'
  BY <1>1, StepControl DEF FinishConnectCard
<1>4. DataTypeOK'
  BY <1>1, UnchangedData DEF FinishConnectCard
<1> QED BY <1>2, <1>3, <1>4, TypePartsNext

LEMMA RunUpdateType ==
  ASSUME PaceTypeOK, NEW s, NEW onAbort, RunUpdate(s, onAbort)
  PROVE  PaceTypeOK'
<1>1. CardTypeOK /\ ModeTypeOK /\ DataTypeOK
  BY TypeParts
<1>2. CardTypeOK'
  <2>1. CASE UnchangedReader
    BY <1>1, <2>1, UnchangedReaderType
  <2>2. CASE conn # NoConn /\ PostUpdateRetryCounter
    <3>1. "UPDATE_RC" \in CommandOps /\ "UNKNOWN" \in PaceIds
      BY DEF CommandOps, PaceIds
    <3> QED BY <1>1, <2>2, <3>1, PostType DEF PostUpdateRetryCounter
  <2> QED BY <2>1, <2>2 DEF RunUpdate
<1>3. ModeTypeOK'
  BY <1>1, StepControl DEF RunUpdate
<1>4. DataTypeOK'
  BY <1>1, UnchangedData DEF RunUpdate
<1> QED BY <1>2, <1>3, <1>4, TypePartsNext

LEMMA RunVerifyRetryCounterType ==
  ASSUME PaceTypeOK, RunVerifyRetryCounter
  PROVE  PaceTypeOK'
<1>1. CardTypeOK /\ ModeTypeOK /\ DataTypeOK
  BY TypeParts
<1>2. CardTypeOK'
  BY <1>1, UnchangedReaderType DEF RunVerifyRetryCounter
<1>3. ModeTypeOK'
  BY <1>1, StepControl DEF RunVerifyRetryCounter
<1>4. DataTypeOK'
  <2>1. CASE conn = NoConn
    BY <1>1, <2>1 DEF RunVerifyRetryCounter, DataTypeOK
  <2>2. CASE conn # NoConn
    <3>1. conn.rc \in RetryCounters
      BY <1>1, <2>2 DEF CardTypeOK, Connection
    <3>2. pw' \in [Secrets -> Passwords \cup {NoPassword}]
      BY <1>1, <2>2, ResetType DEF RunVerifyRetryCounter, DataTypeOK
    <3> QED BY <1>1, <2>2, <3>1, <3>2 DEF RunVerifyRetryCounter, DataTypeOK
  <2> QED BY <2>1, <2>2
<1> QED BY <1>2, <1>3, <1>4, TypePartsNext

LEMMA RunPreparePaceType ==
  ASSUME PaceTypeOK, RunPreparePace
  PROVE  PaceTypeOK'
<1>1. CardTypeOK /\ ModeTypeOK /\ DataTypeOK
  BY TypeParts
<1>2. CardTypeOK'
  BY <1>1, UnchangedReaderType DEF RunPreparePace
<1>3. ModeTypeOK'
  BY <1>1, StepControl DEF RunPreparePace, Demand
<1>4. DataTypeOK'
  <2>1. idType' \in PaceIds
    BY <1>1 DEF RunPreparePace, Demand, Demanded, DataTypeOK, PaceIds
  <2> QED BY <1>1, <2>1 DEF RunPreparePace, DataTypeOK
<1> QED BY <1>2, <1>3, <1>4, TypePartsNext

LEMMA EnterPacePasswordType ==
  ASSUME PaceTypeOK, EnterPacePassword
  PROVE  PaceTypeOK'
<1>1. CardTypeOK /\ ModeTypeOK /\ DataTypeOK
  BY TypeParts
<1>2. CardTypeOK'
  <2>1. blame' \in [Cards -> Nat]
    BY <1>1 DEF EnterPacePassword, CardTypeOK
  <2> QED BY <1>1, <2>1 DEF EnterPacePassword, CardTypeOK, worldVars, readerVars
<1>3. ModeTypeOK'
  BY <1>1, StepControl DEF EnterPacePassword
<1>4. DataTypeOK'
  BY <1>1 DEF EnterPacePassword, DataTypeOK
<1> QED BY <1>2, <1>3, <1>4, TypePartsNext

LEMMA RunEstablishPaceChannelType ==
  ASSUME PaceTypeOK, RunEstablishPaceChannel
  PROVE  PaceTypeOK'
<1>1. CardTypeOK /\ ModeTypeOK /\ DataTypeOK
  BY TypeParts
<1>2. CardTypeOK'
  <2>1. CASE UnchangedReader
    BY <1>1, <2>1, UnchangedReaderType
  <2>2. CASE conn # NoConn /\ EstablishWithPassword
    <3>1. idType \in PaceIds /\ Secret \in Passwords \cup {NoPassword}
      BY <1>1 DEF DataTypeOK, Secret, PaceIds, Secrets
    <3>2. "UNBLOCK" \in CommandOps /\ "PACE" \in CommandOps
      BY DEF CommandOps
    <3> QED BY <1>1, <2>2, <3>1, <3>2, PostType DEF EstablishWithPassword
  <2> QED BY <2>1, <2>2 DEF RunEstablishPaceChannel, EstablishWithoutPassword
<1>3. ModeTypeOK'
  BY <1>1, StepControl DEF RunEstablishPaceChannel, EstablishWithoutPassword, EstablishWithPassword
<1>4. DataTypeOK'
  <2>1. pw' \in [Secrets -> Passwords \cup {NoPassword}]
    BY <1>1, ResetType
       DEF RunEstablishPaceChannel, EstablishWithoutPassword, EstablishWithPassword, DataTypeOK
  <2>2. idType' \in PaceIds /\ lastPace' \in Codes
    BY <1>1
       DEF RunEstablishPaceChannel, EstablishWithoutPassword, EstablishWithPassword, DataTypeOK, PaceIds, Codes
  <2> QED BY <1>1, <2>1, <2>2 DEF RunEstablishPaceChannel, DataTypeOK
<1> QED BY <1>2, <1>3, <1>4, TypePartsNext

LEMMA RunUnfortunateCardPositionType ==
  ASSUME PaceTypeOK, RunUnfortunateCardPosition
  PROVE  PaceTypeOK'
<1>1. CardTypeOK /\ ModeTypeOK /\ DataTypeOK
  BY TypeParts
<1>2. CardTypeOK'
  BY <1>1, UnchangedReaderType DEF RunUnfortunateCardPosition
<1>3. ModeTypeOK'
  BY <1>1, StepControl DEF RunUnfortunateCardPosition
<1>4. DataTypeOK'
  BY <1>1 DEF RunUnfortunateCardPosition, DataTypeOK
<1> QED BY <1>2, <1>3, <1>4, TypePartsNext

LEMMA RunClearPacePasswordsBeforeDestroyType ==
  ASSUME PaceTypeOK, RunClearPacePasswordsBeforeDestroy
  PROVE  PaceTypeOK'
<1>1. CardTypeOK /\ ModeTypeOK /\ DataTypeOK
  BY TypeParts
<1>2. CardTypeOK'
  BY <1>1, UnchangedReaderType DEF RunClearPacePasswordsBeforeDestroy
<1>3. ModeTypeOK'
  BY <1>1, StepControl DEF RunClearPacePasswordsBeforeDestroy
<1>4. DataTypeOK'
  BY <1>1, ResetType DEF RunClearPacePasswordsBeforeDestroy, DataTypeOK
<1> QED BY <1>2, <1>3, <1>4, TypePartsNext

LEMMA RunDestroyType ==
  ASSUME PaceTypeOK, NEW s, RunDestroy(s)
  PROVE  PaceTypeOK'
<1>1. CardTypeOK /\ ModeTypeOK /\ DataTypeOK
  BY TypeParts
<1>2. CardTypeOK'
  <2>1. "DESTROY" \in CommandOps /\ "UNKNOWN" \in PaceIds
    BY DEF CommandOps, PaceIds
  <2> QED BY <1>1, <2>1, PostType DEF RunDestroy
<1>3. ModeTypeOK'
  BY <1>1, StepControl DEF RunDestroy
<1>4. DataTypeOK'
  BY <1>1, UnchangedData DEF RunDestroy
<1> QED BY <1>2, <1>3, <1>4, TypePartsNext

-----------------------------------------------------------------------------
(* Events and replies. *)

LEMMA DeliverCallType ==
  ASSUME PaceTypeOK, DeliverCall
  PROVE  PaceTypeOK'
<1>1. CardTypeOK /\ ModeTypeOK /\ DataTypeOK
  BY TypeParts
<1>2. CardTypeOK'
  <2>1. Head(msgs).reader \in Readers /\ Head(msgs).mine \in BOOLEAN /\ Tail(msgs) \in Seq(Messages)
    <3>1. Head(msgs) \in Messages /\ Head(msgs).reader \in Readers /\ Tail(msgs) \in Seq(Messages)
      BY <1>1, FirstMessage DEF DeliverCall
    <3>2. Head(msgs).mine \in BOOLEAN
      BY <3>1 DEF Messages, Reply, Event
    <3> QED BY <3>1, <3>2
  <2>2. ReaderCommand("CREATE", Head(msgs).reader, Head(msgs).mine) \in Command
    BY <2>1 DEF ReaderCommand, Command, CommandOps, PaceIds
  <2>3. cmds' \in Seq(Command)
    BY <1>1, <2>2, Queues DEF DeliverCall, CardTypeOK
  <2> QED BY <1>1, <2>1, <2>3 DEF DeliverCall, CardTypeOK, Messages, worldVars, chipVars
<1>3. ModeTypeOK'
  BY <1>1, Zenon DEF DeliverCall, ModeTypeOK, paceVars, controlVars
<1>4. DataTypeOK'
  BY <1>1, UnchangedData DEF DeliverCall, paceVars
<1> QED BY <1>2, <1>3, <1>4, TypePartsNext

LEMMA DropUnclaimedType ==
  ASSUME CardTypeOK, msgs # <<>>
  PROVE  DropUnclaimed(cmds, Head(msgs)) \in Seq(Command)
<1>1. Head(msgs).reader \in Readers
  BY FirstMessage
<1>2. ReaderCommand("DROP", Head(msgs).reader, FALSE) \in Command
  BY <1>1 DEF ReaderCommand, Command, CommandOps, PaceIds
<1> QED BY <1>2, Queues DEF CardTypeOK, DropUnclaimed

LEMMA DeliverCreateType ==
  ASSUME PaceTypeOK, DeliverCreate
  PROVE  PaceTypeOK'
<1>1. CardTypeOK /\ ModeTypeOK /\ DataTypeOK
  BY TypeParts
<1>2. CardTypeOK'
  <2>1. /\ msgs # <<>> /\ Head(msgs).reader \in Readers /\ Tail(msgs) \in Seq(Messages)
        /\ cmds \in Seq(Command)
    BY <1>1, FirstMessage DEF DeliverCreate, CardTypeOK
  <2>2. /\ DropUnclaimed(cmds, Head(msgs)) \in Seq(Command)
        /\ Disown(cmds) \in Seq(Command) /\ Disown(Tail(msgs)) \in Seq(Messages)
    BY <1>1, <2>1, DropUnclaimedType, DisownType
  <2>3. cmds' \in Seq(Command) /\ msgs' \in Seq(Messages)
    BY <2>1, <2>2 DEF DeliverCreate
  <2>4. conn' \in Connection \cup {NoConn}
    <3>1. rd[Head(msgs).reader].rc \in RetryCounters
      BY <1>1, <2>1 DEF CardTypeOK, ReaderData
    <3>2. [reader |-> Head(msgs).reader, rc |-> rd[Head(msgs).reader].rc, can |-> FALSE,
           pin |-> FALSE, listening |-> FALSE] \in Connection
      BY <2>1, <3>1 DEF Connection
    <3>3. conn \in Connection \cup {NoConn}
      BY <1>1 DEF CardTypeOK
    <3> QED BY <3>2, <3>3 DEF DeliverCreate
  <2> QED BY <1>1, <2>3, <2>4 DEF DeliverCreate, CardTypeOK, Messages, worldVars, chipVars
<1>3. ModeTypeOK'
  <2>1. CASE UNCHANGED <<st, busy>>
    BY <1>1, <2>1, Zenon DEF DeliverCreate, ModeTypeOK, UnchangedControl
  <2>2. CASE Goto("MaintainCardConnection")
    BY <1>1, <2>2, StepControl DEF DeliverCreate
  <2> QED BY <2>1, <2>2 DEF DeliverCreate
<1>4. DataTypeOK'
  BY <1>1, UnchangedData DEF DeliverCreate
<1> QED BY <1>2, <1>3, <1>4, TypePartsNext

LEMMA DeliverEventType ==
  ASSUME PaceTypeOK, ReaderSelected, DeliverEvent
  PROVE  PaceTypeOK'
<1>1. CardTypeOK /\ ModeTypeOK /\ DataTypeOK
  BY TypeParts
<1>2. CardTypeOK'
  <2>1. /\ msgs # <<>> /\ Head(msgs).rc \in RetryCounters /\ Tail(msgs) \in Seq(Messages)
    BY <1>1, FirstMessage DEF DeliverEvent
  <2>2. msgs' \in Seq(Messages)
    <3>1. CASE st = "ConnectCard" /\ Head(msgs).kind = "inserted"
      <4>1. readerName \in Readers
        BY <3>1 DEF ReaderSelected
      <4>2. ConnectIfCard(Tail(msgs))
        BY <3>1 DEF DeliverEvent
      <4> QED BY <1>1, <2>1, <4>1, <4>2, ConnectIfCardType
    <3>2. CASE ~(st = "ConnectCard" /\ Head(msgs).kind = "inserted")
      BY <2>1, <3>2 DEF DeliverEvent
    <3> QED BY <3>1, <3>2
  <2>3. conn' \in Connection \cup {NoConn}
    BY <1>1, <2>1 DEF DeliverEvent, CardTypeOK, Connection
  <2> QED BY <1>1, <2>2, <2>3 DEF DeliverEvent, CardTypeOK, Messages, worldVars, chipVars
<1>3. ModeTypeOK'
  <2>1. CASE UNCHANGED <<st, busy>>
    BY <1>1, <2>1, Zenon DEF DeliverEvent, ModeTypeOK, UnchangedControl
  <2>2. CASE SelectReaderNow
    BY <1>1, <2>2, StepControl DEF DeliverEvent, SelectReaderNow
  <2> QED BY <2>1, <2>2 DEF DeliverEvent
<1>4. DataTypeOK'
  BY <1>1 DEF DeliverEvent, SelectReaderNow, DataTypeOK
<1> QED BY <1>2, <1>3, <1>4, TypePartsNext

LEMMA DeliverUpdateType ==
  ASSUME PaceTypeOK, NEW s, NEW onContinue, NEW onAbort,
         DeliverUpdate(s, onContinue, onAbort)
  PROVE  PaceTypeOK'
<1>1. CardTypeOK /\ ModeTypeOK /\ DataTypeOK
  BY TypeParts
<1>2. CardTypeOK'
  <2>1. Tail(msgs) \in Seq(Messages) /\ readerName \in Readers \cup {NoReader}
    BY <1>1, FirstMessage DEF DeliverUpdate, Delivers, DataTypeOK
  <2>2. CASE /\ msgs' = Tail(msgs)
             /\ UNCHANGED <<worldVars, chipVars, rd, failures, cmds, conn>>
    BY <1>1, <2>1, <2>2 DEF CardTypeOK, Messages, worldVars, chipVars
  <2>3. CASE ResetCardConnection(Tail(msgs))
    BY <1>1, <2>1, <2>3, ResetCardConnectionType
  <2> QED BY <2>2, <2>3 DEF DeliverUpdate
<1>3. ModeTypeOK'
  BY <1>1, StepControl DEF DeliverUpdate
<1>4. DataTypeOK'
  BY <1>1, UnchangedData DEF DeliverUpdate
<1> QED BY <1>2, <1>3, <1>4, TypePartsNext

LEMMA WithPaceResultType ==
  ASSUME CardTypeOK, NEW m
  PROVE  WithPaceResult(conn, m) \in Connection \cup {NoConn}
<1>1. CASE conn = NoConn \/ ~m.conn \/ m.kind # "PACE"
  BY <1>1 DEF WithPaceResult, CardTypeOK
<1>2. CASE ~(conn = NoConn \/ ~m.conn \/ m.kind # "PACE")
  <2>1. conn \in Connection /\ (m.code = "OK") \in BOOLEAN /\ (conn.can /\ m.code = "OK") \in BOOLEAN
    BY <1>2 DEF CardTypeOK
  <2>2. [conn EXCEPT !.can = (m.code = "OK")] \in Connection
    BY <2>1 DEF Connection
  <2>3. [conn EXCEPT !.pin = (m.code = "OK"), !.can = @ /\ m.code = "OK"] \in Connection
    BY <2>1 DEF Connection
  <2> QED BY <1>2, <2>2, <2>3 DEF WithPaceResult
<1> QED BY <1>1, <1>2

LEMMA DeliverPaceType ==
  ASSUME PaceTypeOK, DeliverPace
  PROVE  PaceTypeOK'
<1> DEFINE m == Head(msgs)
<1>1. CardTypeOK /\ ModeTypeOK /\ DataTypeOK
  BY TypeParts
<1>2. m.code \in Codes /\ Tail(msgs) \in Seq(Messages)
  BY <1>1, FirstMessage DEF DeliverPace, DeliversPace, PaceReply
<1>3. UnchangedControl
  BY DEF DeliverPace
<1>4. CASE PaceDone
  <2>1. CardTypeOK'
    <3>1. conn' \in Connection \cup {NoConn}
      <4>1. conn' = WithPaceResult(conn, m)
        BY <1>4 DEF PaceDone
      <4> QED BY <1>1, <4>1, WithPaceResultType
    <3> QED BY <1>1, <1>2, <1>4, <3>1 DEF PaceDone, CardTypeOK, Messages, worldVars, chipVars
  <2>2. ModeTypeOK'
    BY <1>1, <1>3, <1>4, StepControl DEF PaceDone
  <2>3. DataTypeOK'
    <3>1. expRc' \in RetryCounters
      BY <1>1, <1>4, Counters DEF PaceDone, DataTypeOK
    <3>2. pw' \in [Secrets -> Passwords \cup {NoPassword}]
      BY <1>1, <1>4 DEF PaceDone, DataTypeOK, NoPasswords
    <3>3. lastPace' \in Codes /\ vanished' \in 0 .. 2
      BY <1>4 DEF PaceDone, Codes
    <3> QED BY <1>1, <1>4, <3>1, <3>2, <3>3 DEF PaceDone, DeliverPace, DataTypeOK
  <2> QED BY <2>1, <2>2, <2>3, TypePartsNext
<1>5. CASE PaceCardGone
  <2>1. CardTypeOK'
    <3>1. readerName \in Readers \cup {NoReader}
      BY <1>1 DEF DataTypeOK
    <3> QED BY <1>1, <1>2, <1>5, <3>1, ResetCardConnectionType DEF PaceCardGone
  <2>2. ModeTypeOK'
    BY <1>1, <1>3, <1>5, StepControl DEF PaceCardGone
  <2>3. DataTypeOK'
    <3>1. vanished' \in 0 .. 2 /\ lastPace' \in Codes
      BY <1>1, <1>2, <1>5 DEF PaceCardGone, DataTypeOK
    <3> QED BY <1>1, <1>5, <3>1 DEF PaceCardGone, DeliverPace, DataTypeOK
  <2> QED BY <2>1, <2>2, <2>3, TypePartsNext
<1>6. CASE PaceFailed
  <2>1. CardTypeOK'
    <3>1. conn' \in Connection \cup {NoConn}
      <4>1. conn' = WithPaceResult(conn, m)
        BY <1>6 DEF PaceFailed
      <4> QED BY <1>1, <4>1, WithPaceResultType
    <3> QED BY <1>1, <1>2, <1>6, <3>1 DEF PaceFailed, CardTypeOK, Messages, worldVars, chipVars
  <2>2. ModeTypeOK'
    BY <1>1, <1>3, <1>6, StepControl DEF PaceFailed
  <2>3. DataTypeOK'
    <3>1. lastPace' \in Codes
      BY <1>2, <1>6 DEF PaceFailed, Attempt, Codes
    <3>2. status' \in {"NoError", "Cancelled", "Killed", "Error", "CardRemoved", "NoPermission"}
      BY <1>1, <1>6, StatusType DEF PaceFailed, DataTypeOK
    <3>3. vanished' \in 0 .. 2
      BY <1>6 DEF PaceFailed
    <3> QED BY <1>1, <1>6, <3>1, <3>2, <3>3 DEF PaceFailed, DeliverPace, DataTypeOK
  <2> QED BY <2>1, <2>2, <2>3, TypePartsNext
<1> QED BY <1>4, <1>5, <1>6 DEF DeliverPace

LEMMA DeliverDestroyType ==
  ASSUME PaceTypeOK, NEW s, NEW next, DeliverDestroy(s, next)
  PROVE  PaceTypeOK'
<1>1. CardTypeOK /\ ModeTypeOK /\ DataTypeOK
  BY TypeParts
<1>2. CardTypeOK'
  <2>1. Tail(msgs) \in Seq(Messages)
    BY <1>1, FirstMessage DEF DeliverDestroy, Delivers
  <2> QED BY <1>1, <2>1 DEF DeliverDestroy, CardTypeOK, Messages, worldVars, chipVars
<1>3. ModeTypeOK'
  BY <1>1, StepControl DEF DeliverDestroy
<1>4. DataTypeOK'
  BY <1>1, UnchangedData DEF DeliverDestroy
<1> QED BY <1>2, <1>3, <1>4, TypePartsNext

LEMMA DeliverStaleType ==
  ASSUME PaceTypeOK, DeliverStale
  PROVE  PaceTypeOK'
<1>1. CardTypeOK /\ ModeTypeOK /\ DataTypeOK
  BY TypeParts
<1>2. CardTypeOK'
  <2>1. Tail(msgs) \in Seq(Messages)
    BY <1>1, FirstMessage DEF DeliverStale
  <2>2. conn' \in Connection \cup {NoConn}
    <3>1. conn' = WithPaceResult(conn, Head(msgs))
      BY DEF DeliverStale
    <3> QED BY <1>1, <3>1, WithPaceResultType
  <2> QED BY <1>1, <2>1, <2>2 DEF DeliverStale, CardTypeOK, Messages, worldVars, chipVars
<1>3. ModeTypeOK'
  BY <1>1, Zenon DEF DeliverStale, ModeTypeOK, paceVars, controlVars
<1>4. DataTypeOK'
  BY <1>1, UnchangedData DEF DeliverStale, paceVars
<1> QED BY <1>2, <1>3, <1>4, TypePartsNext

-----------------------------------------------------------------------------
(* The steps the workflows share. *)

LEMMA LeadsType ==
  ASSUME PaceTypeOK, NEW from, NEW to, Leads(from, to)
  PROVE  PaceTypeOK'
<1>1. CardTypeOK /\ ModeTypeOK /\ DataTypeOK
  BY TypeParts
<1>2. CardTypeOK'
  BY <1>1, UnchangedReaderType DEF Leads
<1>3. ModeTypeOK'
  BY <1>1, StepControl DEF Leads
<1>4. DataTypeOK'
  BY <1>1, UnchangedData DEF Leads
<1> QED BY <1>2, <1>3, <1>4, TypePartsNext

LEMMA CleanUpReaderManagerType ==
  ASSUME PaceTypeOK, NEW next, CleanUpReaderManager(next)
  PROVE  PaceTypeOK'
<1>1. CardTypeOK /\ ModeTypeOK /\ DataTypeOK
  BY TypeParts
<1>2. CardTypeOK'
  <2>1. msgs' \in Seq(Messages)
    BY <1>1, DetachType DEF CleanUpReaderManager, CardTypeOK, Messages
  <2>2. rd' \in [Readers -> ReaderData]
    BY Counters DEF CleanUpReaderManager, NoCardInfo, ReaderData
  <2>3. canOpen' \in [Cards -> BOOLEAN]
    <3>1. \A c \in Cards : (canOpen[c] /\ \A r \in Readers : slot[r] = c => rd[r].handle # "open")
                             \in BOOLEAN
      OBVIOUS
    <3> QED BY <3>1 DEF CleanUpReaderManager
  <2> QED BY <1>1, <2>1, <2>2, <2>3 DEF CleanUpReaderManager, CardTypeOK, Messages, worldVars
<1>3. ModeTypeOK'
  BY <1>1, StepControl DEF CleanUpReaderManager
<1>4. DataTypeOK'
  BY <1>1, UnchangedData DEF CleanUpReaderManager
<1> QED BY <1>2, <1>3, <1>4, TypePartsNext

LEMMA RetryCardSelectionType ==
  ASSUME PaceTypeOK, RetryCardSelection
  PROVE  PaceTypeOK'
<1>1. CardTypeOK /\ ModeTypeOK /\ DataTypeOK
  BY TypeParts
<1>2. CardTypeOK'
  <2>1. cmds' \in Seq(Command) /\ msgs' \in Seq(Messages)
    BY <1>1, DisownType DEF RetryCardSelection, CardTypeOK, Messages
  <2> QED BY <1>1, <2>1 DEF RetryCardSelection, CardTypeOK, Messages, worldVars, chipVars
<1>3. ModeTypeOK'
  BY <1>1, StepControl DEF RetryCardSelection
<1>4. DataTypeOK'
  BY <1>1, UnchangedData DEF RetryCardSelection
<1> QED BY <1>2, <1>3, <1>4, TypePartsNext

(* A waiting state that is cancelled, by the user or by the quit request.  *)
LEMMA CancelType ==
  ASSUME PaceTypeOK, NEW target, OnUserCancelled(target), killed' = killed,
         cancelPending' \in {cancelPending, FALSE}
  PROVE  PaceTypeOK'
<1>1. CardTypeOK /\ ModeTypeOK /\ DataTypeOK
  BY TypeParts
<1>2. CardTypeOK'
  <2>1. cmds' \in Seq(Command) /\ msgs' \in Seq(Messages)
    BY <1>1, DisownType DEF OnUserCancelled, CardTypeOK, Messages
  <2> QED BY <1>1, <2>1 DEF OnUserCancelled, CardTypeOK, Messages, worldVars, chipVars
<1>3. ModeTypeOK'
  <2>1. busy' = FALSE
    BY DEF OnUserCancelled, Goto
  <2> QED BY <1>1, <2>1, Zenon DEF ModeTypeOK
<1>4. DataTypeOK'
  <2>1. lastPace' \in Codes
    BY <1>1 DEF OnUserCancelled, DataTypeOK, Codes
  <2>2. status' \in {"NoError", "Cancelled", "Killed", "Error", "CardRemoved", "NoPermission"}
    BY <1>1 DEF OnUserCancelled, UpdateStatus, DataTypeOK
  <2> QED BY <1>1, <2>1, <2>2 DEF OnUserCancelled, DataTypeOK
<1> QED BY <1>2, <1>3, <1>4, TypePartsNext

LEMMA KillType ==
  ASSUME PaceTypeOK, Kill
  PROVE  PaceTypeOK'
<1>1. CardTypeOK /\ ModeTypeOK /\ DataTypeOK
  BY TypeParts
<1>2. CardTypeOK'
  BY <1>1, UnchangedReaderType DEF Kill
<1>3. ModeTypeOK'
  BY <1>1, Zenon DEF Kill, ModeTypeOK
<1>4. DataTypeOK'
  BY <1>1 DEF Kill, DataTypeOK
<1> QED BY <1>2, <1>3, <1>4, TypePartsNext

LEMMA RunFinalStateType ==
  ASSUME PaceTypeOK, RunFinalState
  PROVE  PaceTypeOK'
<1>1. CardTypeOK /\ ModeTypeOK /\ DataTypeOK
  BY TypeParts
<1>2. CardTypeOK'
  BY <1>1, UnchangedReaderType DEF RunFinalState
<1>3. ModeTypeOK'
  <2>1. busy' = FALSE
    BY DEF RunFinalState, Goto
  <2>2. killed' = killed /\ cancelPending' = FALSE
    BY DEF RunFinalState
  <2> QED BY <1>1, <2>1, <2>2, Zenon DEF ModeTypeOK
<1>4. DataTypeOK'
  BY <1>1, UnchangedData DEF RunFinalState
<1> QED BY <1>2, <1>3, <1>4, TypePartsNext

(* The reader thread and the user's hands. *)
LEMMA HardwareType ==
  ASSUME PaceTypeOK, ReaderThread \/ World, UNCHANGED paceVars
  PROVE  PaceTypeOK'
<1>1. CardTypeOK /\ ModeTypeOK /\ DataTypeOK
  BY TypeParts
<1>2. CardTypeOK'
  BY <1>1, ReaderThreadType, WorldType
<1>3. ModeTypeOK'
  BY <1>1, Zenon DEF ModeTypeOK, paceVars, controlVars
<1>4. DataTypeOK'
  BY <1>1, UnchangedData DEF paceVars
<1> QED BY <1>2, <1>3, <1>4, TypePartsNext

LEMMA UnchangedType ==
  ASSUME PaceTypeOK, UNCHANGED <<cardVars, paceVars>>
  PROVE  PaceTypeOK'
<1>1. CardTypeOK /\ ModeTypeOK /\ DataTypeOK
  BY TypeParts
<1>2. CardTypeOK'
  BY <1>1, UnchangedReaderType DEF UnchangedReader
<1>3. ModeTypeOK'
  BY <1>1, Zenon DEF ModeTypeOK, paceVars, controlVars
<1>4. DataTypeOK'
  BY <1>1, UnchangedData DEF paceVars
<1> QED BY <1>2, <1>3, <1>4, TypePartsNext

LEMMA InitPaceType == CardInit /\ ContextInit => PaceTypeOK
<1> SUFFICES ASSUME CardInit, ContextInit PROVE PaceTypeOK
  OBVIOUS
<1>1. CardTypeOK
  <2>1. rd \in [Readers -> ReaderData]
    BY Counters DEF CardInit, NoCardInfo, ReaderData
  <2>2. cmds \in Seq(Command) /\ msgs \in Seq(Reply \cup Event)
    BY DEF CardInit
  <2> QED BY <2>1, <2>2 DEF CardInit, CardTypeOK
<1>2. ModeTypeOK
  BY Zenon DEF ContextInit, ModeTypeOK
<1>3. DataTypeOK
  BY Counters DEF ContextInit, DataTypeOK, PaceIds, Codes
<1> QED BY <1>1, <1>2, <1>3, TypeParts

(* Whatever the composite state does, every variable keeps its type.       *)
LEMMA PaceType ==
  ASSUME PaceTypeOK, ReaderSelected, RunPace \/ DeliverToPace
  PROVE  PaceTypeOK'
<1>1. CASE RunPace
  BY <1>1, RunMaintainType, RunClearPacePasswordsOnErrorType, RunSelectReaderType,
     RunConnectCardType, FinishConnectCardType, RunUpdateType, RunVerifyRetryCounterType,
     RunPreparePaceType, RunEstablishPaceChannelType, RunUnfortunateCardPositionType,
     RunClearPacePasswordsBeforeDestroyType, RunDestroyType
     DEF RunPace, RunUpdateRetryCounter, RunDestroyPaceAfterPuk
<1>2. CASE DeliverToPace
  BY <1>2, DeliverCallType, DeliverCreateType, DeliverEventType, DeliverUpdateType,
     DeliverPaceType, DeliverDestroyType, DeliverStaleType
     DEF DeliverToPace, DeliverUpdateRetryCounter, DeliverDestroyPaceAfterPuk
<1> QED BY <1>1, <1>2

-----------------------------------------------------------------------------
(* Where the composite state leads. *)

(* A step either stays where it is or is one between the composite state's *)
(* own states and its signals.                                             *)
LEMMA PaceStays ==
  ASSUME RunPace \/ DeliverToPace
  PROVE  \/ st' = st /\ status' = status
         \/ st \in PaceStates /\ st' \in PaceStates \cup PaceSignals
<1> USE DEF PaceStates, PaceSignals, Runs, Waits, Goto, Wait, contextVars, controlVars, paceVars, Delivers
<1>1. CASE RunPace
  BY <1>1
     DEF RunPace, RunMaintainCardConnection, MaintainAborts, MaintainAfterWrongPassword,
         MaintainAfterCardGone, MaintainProceeds, RunClearPacePasswordsOnError, RunSelectReader,
         SelectReaderNow, RunConnectCard, FinishConnectCard, RunUpdateRetryCounter, RunUpdate,
         RunVerifyRetryCounter, RunPreparePace, Demand, RunEstablishPaceChannel,
         EstablishWithoutPassword, EstablishWithPassword, RunUnfortunateCardPosition,
         RunClearPacePasswordsBeforeDestroy, RunDestroyPaceAfterPuk, RunDestroy
<1>2. CASE DeliverPace
  BY <1>2 DEF DeliverPace, DeliversPace, PaceDone, PaceCardGone, PaceFailed
<1>3. CASE DeliverToPace /\ ~DeliverPace
  BY <1>3
     DEF DeliverToPace, DeliverCall, DeliverCreate, DeliverEvent, SelectReaderNow,
         DeliverUpdateRetryCounter, DeliverUpdate, DeliverDestroyPaceAfterPuk, DeliverDestroy,
         DeliverStale
<1> QED BY <1>1, <1>2, <1>3

(* StateConnectCard is only entered with the name of a reader.             *)
LEMMA PaceSelects ==
  ASSUME ReaderSelected, RunPace \/ DeliverToPace
  PROVE  ReaderSelected'
<1> USE DEF ReaderSelected, Runs, Waits, Goto, Wait, contextVars, controlVars, paceVars, Delivers
<1>1. CASE RunPace
  BY <1>1
     DEF RunPace, RunMaintainCardConnection, MaintainAborts, MaintainAfterWrongPassword,
         MaintainAfterCardGone, MaintainProceeds, RunClearPacePasswordsOnError, RunSelectReader,
         SelectReaderNow, RunConnectCard, FinishConnectCard, RunUpdateRetryCounter, RunUpdate,
         RunVerifyRetryCounter, RunPreparePace, Demand, RunEstablishPaceChannel,
         EstablishWithoutPassword, EstablishWithPassword, RunUnfortunateCardPosition,
         RunClearPacePasswordsBeforeDestroy, RunDestroyPaceAfterPuk, RunDestroy
<1>2. CASE DeliverPace
  BY <1>2 DEF DeliverPace, DeliversPace, PaceDone, PaceCardGone, PaceFailed
<1>3. CASE DeliverToPace /\ ~DeliverPace
  BY <1>3
     DEF DeliverToPace, DeliverCall, DeliverCreate, DeliverEvent, SelectReaderNow,
         DeliverUpdateRetryCounter, DeliverUpdate, DeliverDestroyPaceAfterPuk, DeliverDestroy,
         DeliverStale
<1> QED BY <1>1, <1>2, <1>3

-----------------------------------------------------------------------------
(* The queue of commands: which steps may add one of the kinds in S. *)

NoneAdded(S) ==
  \A i \in DOMAIN cmds' : cmds'[i].op \in S => \E j \in DOMAIN cmds : cmds[j].op = cmds'[i].op

LEMMA KeptQueue ==
  ASSUME NEW S, cmds' = cmds
  PROVE  NoneAdded(S)
BY DEF NoneAdded

LEMMA ServedQueue ==
  ASSUME NEW S, CardTypeOK, cmds # <<>>, cmds' = Tail(cmds)
  PROVE  NoneAdded(S)
<1>1. /\ Len(cmds) \in Nat /\ DOMAIN cmds = 1 .. Len(cmds)
      /\ DOMAIN Tail(cmds) = 1 .. (Len(cmds) - 1)
      /\ \A i \in 1 .. (Len(cmds) - 1) : Tail(cmds)[i] = cmds[i + 1]
  BY HeadTailProperties, LenProperties, EmptySeq DEF CardTypeOK
<1>2. ASSUME NEW i \in DOMAIN cmds' PROVE i + 1 \in DOMAIN cmds /\ cmds'[i] = cmds[i + 1]
  BY <1>1
<1> QED BY <1>2 DEF NoneAdded

LEMMA DisownedQueue ==
  ASSUME NEW S, CardTypeOK, cmds' = Disown(cmds)
  PROVE  NoneAdded(S)
<1>1. ASSUME NEW i \in DOMAIN cmds' PROVE i \in DOMAIN cmds /\ cmds'[i].op = cmds[i].op
  <2>1. i \in DOMAIN cmds /\ cmds'[i] = [cmds[i] EXCEPT !.mine = FALSE]
    BY <1>1 DEF Disown
  <2>2. cmds[i] \in Command
    BY <2>1, LenProperties, ElementOfSeq DEF CardTypeOK
  <2> QED BY <2>1, <2>2 DEF Command
<1> QED BY <1>1 DEF NoneAdded

LEMMA HarmlessCommand ==
  ASSUME NEW S, CardTypeOK, NEW c \in Command, c.op \notin S, cmds' = Append(cmds, c)
  PROVE  NoneAdded(S)
<1>1. /\ Len(cmds) \in Nat /\ DOMAIN cmds = 1 .. Len(cmds)
      /\ DOMAIN cmds' = 1 .. (Len(cmds) + 1) /\ cmds'[Len(cmds) + 1] = c
      /\ \A i \in 1 .. Len(cmds) : cmds'[i] = cmds[i]
  BY AppendProperties, LenProperties DEF CardTypeOK
<1>2. ASSUME NEW i \in DOMAIN cmds', cmds'[i].op \in S
      PROVE  i \in DOMAIN cmds /\ cmds'[i] = cmds[i]
  <2>1. i # Len(cmds) + 1
    BY <1>1, <1>2
  <2> QED BY <1>1, <1>2, <2>1
<1> QED BY <1>2 DEF NoneAdded

LEMMA HarmlessPost ==
  ASSUME NEW S, CardTypeOK, conn # NoConn, NEW op \in CommandOps \ S,
         Post(op, "UNKNOWN", NoPassword)
  PROVE  NoneAdded(S)
<1> DEFINE c == [op |-> op, reader |-> conn.reader, id |-> "UNKNOWN", pw |-> NoPassword,
                 mine |-> TRUE, conn |-> TRUE]
<1>1. c \in Command
  BY DEF CardTypeOK, Connection, Command, PaceIds
<1>2. c.op \notin S /\ cmds' = Append(cmds, c)
  BY DEF Post
<1> HIDE DEF c
<1> QED BY <1>1, <1>2, HarmlessCommand

LEMMA ReaderCommandHarmless ==
  ASSUME NEW S, CardTypeOK, NEW op \in {"CREATE", "DROP"} \ S, NEW r \in Readers,
         NEW b \in BOOLEAN, cmds' = Append(cmds, ReaderCommand(op, r, b))
  PROVE  NoneAdded(S)
<1>1. ReaderCommand(op, r, b) \in Command /\ ReaderCommand(op, r, b).op \notin S
  BY DEF ReaderCommand, Command, CommandOps, PaceIds
<1> QED BY <1>1, HarmlessCommand

(* What the composite state sends of its own accord.                       *)
OwnOps == {"CREATE", "DROP", "UPDATE_RC", "DESTROY"}

(* Outside StateEstablishPaceChannel the composite state sends nothing     *)
(* else.                                                                   *)
LEMMA RunPaceSilent ==
  ASSUME NEW S, S \cap OwnOps = {}, CardTypeOK, RunPace, st # "EstablishPaceChannel"
  PROVE  NoneAdded(S)
<1>1. {"UPDATE_RC", "DESTROY"} \subseteq CommandOps \ S
  BY DEF OwnOps, CommandOps
<1>2. CASE RunUpdateRetryCounter
  BY <1>1, <1>2, KeptQueue, HarmlessPost
     DEF RunUpdateRetryCounter, RunUpdate, PostUpdateRetryCounter, UnchangedReader, cardVars
<1>3. CASE RunDestroyPaceAfterPuk
  BY <1>1, <1>3, HarmlessPost DEF RunDestroyPaceAfterPuk, RunDestroy
<1>4. CASE ~RunUpdateRetryCounter /\ ~RunDestroyPaceAfterPuk
  <2>1. cmds' = cmds
    BY <1>4
       DEF RunPace, RunMaintainCardConnection, MaintainAborts, MaintainAfterWrongPassword,
           MaintainAfterCardGone, MaintainProceeds, ResetCardConnection,
           RunClearPacePasswordsOnError, RunSelectReader, RunConnectCard, FinishConnectCard,
           RunVerifyRetryCounter, RunPreparePace, RunEstablishPaceChannel, Runs,
           RunUnfortunateCardPosition, RunClearPacePasswordsBeforeDestroy, UnchangedReader,
           cardVars
  <2> QED BY <2>1, KeptQueue
<1> QED BY <1>2, <1>3, <1>4

LEMMA DeliverPaceSilent ==
  ASSUME NEW S, S \cap OwnOps = {}, CardTypeOK, DeliverToPace
  PROVE  NoneAdded(S)
<1>1. {"CREATE", "DROP"} \subseteq {"CREATE", "DROP"} \ S
  BY DEF OwnOps
<1>2. CASE DeliverCall
  <2>1. Head(msgs).reader \in Readers /\ Head(msgs).mine \in BOOLEAN
    <3>1. Head(msgs) \in Messages /\ Head(msgs).reader \in Readers
      BY <1>2, FirstMessage DEF DeliverCall
    <3> QED BY <3>1 DEF Messages, Reply, Event
  <2> QED BY <1>1, <1>2, <2>1, ReaderCommandHarmless DEF DeliverCall
<1>3. CASE DeliverCreate
  <2>1. Head(msgs).reader \in Readers
    BY <1>3, FirstMessage DEF DeliverCreate
  <2>2. \/ cmds' = cmds \/ cmds' = Disown(cmds)
        \/ cmds' = Append(cmds, ReaderCommand("DROP", Head(msgs).reader, FALSE))
    BY <1>3 DEF DeliverCreate, DropUnclaimed
  <2> QED BY <1>1, <2>1, <2>2, KeptQueue, DisownedQueue, ReaderCommandHarmless
<1>4. CASE ~DeliverCall /\ ~DeliverCreate
  <2>1. cmds' = cmds
    BY <1>4
       DEF DeliverToPace, DeliverEvent, DeliverUpdateRetryCounter, DeliverUpdate, DeliverPace,
           PaceDone, PaceCardGone, PaceFailed, DeliverDestroyPaceAfterPuk, DeliverDestroy,
           DeliverStale, ResetCardConnection
  <2> QED BY <2>1, KeptQueue
<1> QED BY <1>2, <1>3, <1>4

LEMMA ExecuteSilent ==
  ASSUME NEW S, CardTypeOK, Execute
  PROVE  NoneAdded(S)
<1>1. cmds # <<>> /\ cmds' = Tail(cmds)
  BY DEF Execute, Executes, Finish, ExecuteCreate, ExecuteDrop, ExecuteUpdateRetryCounter,
         ExecuteEstablishPaceChannel, ExecuteUnblockPin, ExecuteDestroyPaceChannel,
         ExecuteSetEidPin, ChipWorks
<1> QED BY <1>1, ServedQueue

-----------------------------------------------------------------------------
(* Handles and connections. *)

(* Closing a connection leaves every handle closed that it does not leave  *)
(* alone.                                                                  *)
LEMMA ResetHandles ==
  ASSUME CardTypeOK, readerName \in Readers \cup {NoReader}, NEW queue, ResetCardConnection(queue)
  PROVE  \A r \in Readers :
           rd'[r].handle # "closed" => rd'[r] = rd[r] /\ ~(conn # NoConn /\ conn.reader = r)
<1> DEFINE closed == IF conn = NoConn THEN rd ELSE [rd EXCEPT ![conn.reader] = Closed(@)]
<1>1. closed \in [Readers -> ReaderData]
  <2>1. rd \in [Readers -> ReaderData] /\ \A d \in ReaderData : Closed(d) \in ReaderData
    BY DEF CardTypeOK, ReaderData, Closed
  <2>2. conn # NoConn => conn.reader \in Readers
    BY DEF CardTypeOK, Connection
  <2> QED BY <2>1, <2>2
<1>2. ASSUME NEW r \in Readers, closed[r].handle # "closed"
      PROVE  closed[r] = rd[r] /\ ~(conn # NoConn /\ conn.reader = r)
  BY <1>2 DEF CardTypeOK, ReaderData, Closed
<1> HIDE DEF closed
<1>3. ASSUME NEW r \in Readers, rd'[r].handle # "closed"
      PROVE  closed[r].handle # "closed" /\ rd'[r] = closed[r]
  <2>1. CASE readerName = NoReader
    <3>1. rd' = closed
      BY <2>1 DEF ResetCardConnection, closed
    <3> QED BY <1>3, <3>1
  <2>2. CASE readerName # NoReader
    <3>1. PICK o \in PollOutcomes(readerName, closed[readerName]) :
            rd' = [closed EXCEPT ![readerName] = o.data]
      BY <2>2 DEF ResetCardConnection, closed
    <3>2. o.data.handle # "closed" => o.data = closed[readerName]
      BY DEF PollOutcomes, NoCardInfo
    <3> QED BY <1>1, <1>3, <3>1, <3>2
  <2> QED BY <2>1, <2>2
<1> QED BY <1>2, <1>3

(* Neither does looking into a slot.                                       *)
LEMMA UpdateHandles ==
  ASSUME CardTypeOK, NEW s \in Readers, Update(s)
  PROVE  \A r \in Readers : rd'[r].handle # "closed" => rd'[r] = rd[r]
<1>1. PICK o \in PollOutcomes(s, rd[s]) : rd' = [rd EXCEPT ![s] = o.data]
  BY DEF Update
<1>2. o.data.handle # "closed" => o.data = rd[s]
  BY DEF PollOutcomes, NoCardInfo
<1> QED BY <1>1, <1>2 DEF CardTypeOK

(* A card is only looked for while there is no connection.                 *)
SelectsFree ==
  st \in {"SelectReader", "ConnectCard"} =>
    conn = NoConn \/ (st = "ConnectCard" /\ ~conn.listening)

LEMMA PaceSelectsFree ==
  ASSUME SelectsFree, RunPace \/ DeliverToPace
  PROVE  SelectsFree'
<1> USE DEF SelectsFree, Runs, Waits, Goto, Wait, UnchangedReader, cardVars
<1>1. CASE RunPace
  BY <1>1
     DEF RunPace, RunMaintainCardConnection, MaintainAborts, MaintainAfterWrongPassword,
         MaintainAfterCardGone, MaintainProceeds, ResetCardConnection, RunClearPacePasswordsOnError,
         RunSelectReader, SelectReaderNow, RunConnectCard, FinishConnectCard,
         RunUpdateRetryCounter, RunUpdate, RunVerifyRetryCounter, RunPreparePace, Demand,
         RunEstablishPaceChannel, EstablishWithoutPassword, EstablishWithPassword,
         RunUnfortunateCardPosition, RunClearPacePasswordsBeforeDestroy, RunDestroyPaceAfterPuk,
         RunDestroy
<1>2. CASE DeliverToPace
  <2> USE DEF AtRest, Delivers, controlVars, paceVars
  <2>1. CASE DeliverCall \/ DeliverStale
    BY <2>1 DEF DeliverCall, DeliverStale, WithPaceResult
  <2>2. CASE DeliverCreate
    BY <2>2 DEF DeliverCreate
  <2>3. CASE DeliverEvent
    BY <2>3 DEF DeliverEvent, SelectReaderNow
  <2>4. CASE DeliverPace
    BY <2>4 DEF DeliverPace, DeliversPace, PaceDone, PaceCardGone, PaceFailed
  <2>5. CASE DeliverUpdateRetryCounter \/ DeliverDestroyPaceAfterPuk
    BY <2>5
       DEF DeliverUpdateRetryCounter, DeliverUpdate, DeliverDestroyPaceAfterPuk, DeliverDestroy
  <2> QED BY <1>2, <2>1, <2>2, <2>3, <2>4, <2>5 DEF DeliverToPace
<1> QED BY <1>1, <1>2

-----------------------------------------------------------------------------
(* What is under way: the commands of the kinds S that the reader thread   *)
(* has still to execute, and the replies of these kinds that the main      *)
(* thread has still to take.                                               *)

Asked(S, q) == {i \in DOMAIN q : q[i].op \in S}
Heard(S, q) == {i \in DOMAIN q : q[i] \in Reply /\ q[i].kind \in S}

(* At most one, as a command or as its reply.                              *)
Alone(S, cq, mq) ==
  /\ \A i, j \in Asked(S, cq) : i = j
  /\ \A i, j \in Heard(S, mq) : i = j
  /\ Asked(S, cq) = {} \/ Heard(S, mq) = {}

(* The queue "new" has nothing under way that "old" has not, in its order. *)
SameCommand(c, d) == c.op = d.op /\ c.reader = d.reader /\ c.id = d.id /\ c.pw = d.pw
SameReply(m, n) == m.kind = n.kind /\ m.reader = n.reader /\ m.id = n.id /\ m.code = n.code

Fewer(S, new, old) ==
  \E k \in Nat : \A i \in Asked(S, new) :
    i \in Nat /\ i + k \in Asked(S, old) /\ SameCommand(new[i], old[i + k])
FewerReplies(S, new, old) ==
  \E k \in Nat : \A i \in Heard(S, new) :
    i \in Nat /\ i + k \in Heard(S, old) /\ SameReply(new[i], old[i + k])

LEMMA FewerPart ==
  ASSUME NEW T, NEW S \in SUBSET T, NEW new, NEW old
  PROVE  /\ Fewer(T, new, old) => Fewer(S, new, old)
         /\ FewerReplies(T, new, old) => FewerReplies(S, new, old)
BY DEF Fewer, FewerReplies, Asked, Heard, SameCommand, SameReply

LEMMA FewerNone ==
  ASSUME NEW S, NEW new, NEW old
  PROVE  /\ Fewer(S, new, old) /\ Asked(S, old) = {} => Asked(S, new) = {}
         /\ FewerReplies(S, new, old) /\ Heard(S, old) = {} => Heard(S, new) = {}
BY DEF Fewer, FewerReplies

LEMMA FewerCommands ==
  ASSUME NEW S, NEW q \in Seq(Command)
  PROVE  /\ Fewer(S, q, q)
         /\ Fewer(S, Disown(q), q)
         /\ q # <<>> => Fewer(S, Tail(q), q)
         /\ \A c : c.op \notin S => Fewer(S, Append(q, c), q)
<1>1. Len(q) \in Nat /\ DOMAIN q = 1 .. Len(q) /\ \A i \in 1 .. Len(q) : q[i] \in Command
  BY LenProperties, ElementOfSeq
<1>2. ASSUME NEW new,
             \A i \in Asked(S, new) : i \in Asked(S, q) /\ SameCommand(new[i], q[i])
      PROVE  Fewer(S, new, q)
  <2>1. \A i \in Asked(S, q) : i \in Nat /\ i + 0 = i
    BY <1>1 DEF Asked
  <2>2. \A i \in Asked(S, new) :
          i \in Nat /\ i + 0 \in Asked(S, q) /\ SameCommand(new[i], q[i + 0])
    BY <1>2, <2>1
  <2>3. 0 \in Nat
    OBVIOUS
  <2> QED BY <2>2, <2>3 DEF Fewer
<1>3. Fewer(S, q, q)
  BY <1>2 DEF SameCommand
<1>4. Fewer(S, Disown(q), q)
  <2>1. ASSUME NEW i \in Asked(S, Disown(q))
        PROVE  i \in Asked(S, q) /\ SameCommand(Disown(q)[i], q[i])
    <3>1. i \in DOMAIN q /\ Disown(q)[i] = [q[i] EXCEPT !.mine = FALSE] /\ q[i] \in Command
      BY <1>1, <2>1 DEF Asked, Disown
    <3>2. SameCommand(Disown(q)[i], q[i])
      BY <3>1 DEF Command, SameCommand
    <3> QED BY <2>1, <3>1, <3>2 DEF Asked, SameCommand
  <2> QED BY <1>2, <2>1
<1>5. ASSUME q # <<>> PROVE Fewer(S, Tail(q), q)
  <2>1. \A i \in DOMAIN Tail(q) : i \in Nat /\ i + 1 \in DOMAIN q /\ Tail(q)[i] = q[i + 1]
    BY <1>1, <1>5, HeadTailProperties, LenProperties
  <2> QED BY <2>1 DEF Fewer, Asked, SameCommand
<1>6. ASSUME NEW c, c.op \notin S PROVE Fewer(S, Append(q, c), q)
  <2>1. ASSUME NEW i \in Asked(S, Append(q, c)) PROVE i \in Asked(S, q) /\ Append(q, c)[i] = q[i]
    <3>1. i \in DOMAIN Append(q, c) /\ Append(q, c)[i].op \in S
      BY <2>1 DEF Asked
    <3>2. i # Len(q) + 1
      BY <1>1, <1>6, <3>1
    <3>3. i \in DOMAIN q /\ Append(q, c)[i] = q[i]
      BY <1>1, <3>1, <3>2
    <3> QED BY <3>1, <3>3 DEF Asked
  <2> QED BY <1>2, <2>1 DEF SameCommand
<1> QED BY <1>3, <1>4, <1>5, <1>6

LEMMA FewerRepliesKept ==
  ASSUME NEW S, NEW q \in Seq(Messages)
  PROVE  /\ FewerReplies(S, q, q)
         /\ FewerReplies(S, Disown(q), q) /\ FewerReplies(S, Detach(q), q)
         /\ q # <<>> => FewerReplies(S, Tail(q), q)
         /\ \A m : m \notin Reply \/ m.kind \notin S => FewerReplies(S, Append(q, m), q)
         /\ \A p \in Seq(Event) : FewerReplies(S, q \o p, q)
<1>1. Len(q) \in Nat /\ DOMAIN q = 1 .. Len(q) /\ \A i \in 1 .. Len(q) : q[i] \in Messages
  BY LenProperties, ElementOfSeq
<1>2. ASSUME NEW new, \A i \in Heard(S, new) : i \in Heard(S, q) /\ SameReply(new[i], q[i])
      PROVE  FewerReplies(S, new, q)
  <2>1. \A i \in Heard(S, q) : i \in Nat /\ i + 0 = i
    BY <1>1 DEF Heard
  <2>2. \A i \in Heard(S, new) :
          i \in Nat /\ i + 0 \in Heard(S, q) /\ SameReply(new[i], q[i + 0])
    BY <1>2, <2>1
  <2> QED BY <2>2 DEF FewerReplies
<1>3. \A e \in Event : e \notin Reply
  BY DEF Event, Reply, CommandOps
<1>4. FewerReplies(S, q, q)
  BY <1>2 DEF SameReply
<1>5. FewerReplies(S, Disown(q), q) /\ FewerReplies(S, Detach(q), q)
  <2>1. ASSUME NEW i \in DOMAIN q
        PROVE  /\ q[i] \in Reply \/ q[i] \in Event
               /\ Disown(q)[i] = [q[i] EXCEPT !.mine = FALSE]
               /\ Detach(q)[i] = [q[i] EXCEPT !.conn = FALSE]
    BY <1>1, <2>1 DEF Messages, Disown, Detach
  <2>2. ASSUME NEW i \in DOMAIN q, q[i] \in Event PROVE Disown(q)[i] \in Event /\ Detach(q)[i] \in Event
    <3>1. [q[i] EXCEPT !.mine = FALSE] \in Event /\ [q[i] EXCEPT !.conn = FALSE] \in Event
      BY <2>2 DEF Event
    <3> QED BY <2>1, <2>2, <3>1
  <2>3. ASSUME NEW i \in DOMAIN q, q[i] \in Reply
        PROVE  SameReply(Disown(q)[i], q[i]) /\ SameReply(Detach(q)[i], q[i])
    BY <2>1, <2>3 DEF Reply, SameReply
  <2>4. DOMAIN Disown(q) = DOMAIN q /\ DOMAIN Detach(q) = DOMAIN q
    BY DEF Disown, Detach
  <2>5. ASSUME NEW i \in Heard(S, Disown(q)) PROVE i \in Heard(S, q) /\ SameReply(Disown(q)[i], q[i])
    <3>1. i \in DOMAIN q /\ q[i] \in Reply
      BY <1>3, <2>1, <2>2, <2>4, <2>5 DEF Heard
    <3> QED BY <2>3, <2>5, <3>1 DEF Heard, SameReply
  <2>6. ASSUME NEW i \in Heard(S, Detach(q)) PROVE i \in Heard(S, q) /\ SameReply(Detach(q)[i], q[i])
    <3>1. i \in DOMAIN q /\ q[i] \in Reply
      BY <1>3, <2>1, <2>2, <2>4, <2>6 DEF Heard
    <3> QED BY <2>3, <2>6, <3>1 DEF Heard, SameReply
  <2> QED BY <1>2, <2>5, <2>6
<1>6. ASSUME q # <<>> PROVE FewerReplies(S, Tail(q), q)
  <2>1. \A i \in DOMAIN Tail(q) : i \in Nat /\ i + 1 \in DOMAIN q /\ Tail(q)[i] = q[i + 1]
    BY <1>1, <1>6, HeadTailProperties, LenProperties
  <2> QED BY <2>1 DEF FewerReplies, Heard, SameReply
<1>7. ASSUME NEW m, m \notin Reply \/ m.kind \notin S PROVE FewerReplies(S, Append(q, m), q)
  <2>1. ASSUME NEW i \in Heard(S, Append(q, m)) PROVE i \in Heard(S, q) /\ Append(q, m)[i] = q[i]
    <3>1. i \in DOMAIN Append(q, m) /\ Append(q, m)[i] \in Reply /\ Append(q, m)[i].kind \in S
      BY <2>1 DEF Heard
    <3>2. i # Len(q) + 1
      BY <1>1, <1>7, <3>1
    <3>3. i \in DOMAIN q /\ Append(q, m)[i] = q[i]
      BY <1>1, <3>1, <3>2
    <3> QED BY <3>1, <3>3 DEF Heard
  <2> QED BY <1>2, <2>1 DEF SameReply
<1>8. ASSUME NEW p \in Seq(Event) PROVE FewerReplies(S, q \o p, q)
  <2>1. /\ Len(p) \in Nat /\ DOMAIN p = 1 .. Len(p)
        /\ \A i \in 1 .. Len(p) : p[i] \in Event
        /\ DOMAIN (q \o p) = 1 .. (Len(q) + Len(p))
        /\ \A i \in 1 .. (Len(q) + Len(p)) :
             (q \o p)[i] = IF i <= Len(q) THEN q[i] ELSE p[i - Len(q)]
    BY LenProperties, ElementOfSeq, ConcatProperties
  <2>2. ASSUME NEW i \in Heard(S, q \o p) PROVE i \in Heard(S, q) /\ (q \o p)[i] = q[i]
    <3>1. i \in DOMAIN (q \o p) /\ (q \o p)[i] \in Reply /\ (q \o p)[i].kind \in S
      BY <2>2 DEF Heard
    <3>2. CASE i <= Len(q)
      BY <1>1, <2>1, <3>1, <3>2 DEF Heard
    <3>3. CASE ~(i <= Len(q))
      <4>1. (q \o p)[i] \in Event
        BY <1>1, <2>1, <3>1, <3>3
      <4> QED BY <1>3, <3>1, <4>1
    <3> QED BY <3>2, <3>3
  <2> QED BY <1>2, <2>2 DEF SameReply
<1> QED BY <1>4, <1>5, <1>6, <1>7, <1>8

LEMMA FewerStill ==
  ASSUME NEW S, NEW q1, NEW q2, NEW q3, FewerReplies(S, q1, q2), FewerReplies(S, q2, q3)
  PROVE  FewerReplies(S, q1, q3)
<1>1. PICK k \in Nat : \A i \in Heard(S, q1) :
        i \in Nat /\ i + k \in Heard(S, q2) /\ SameReply(q1[i], q2[i + k])
  BY DEF FewerReplies
<1>2. PICK n \in Nat : \A i \in Heard(S, q2) :
        i \in Nat /\ i + n \in Heard(S, q3) /\ SameReply(q2[i], q3[i + n])
  BY DEF FewerReplies
<1>3. k + n \in Nat /\ \A i \in Nat : (i + k) + n = i + (k + n)
  OBVIOUS
<1>4. \A i \in Heard(S, q1) :
        i \in Nat /\ i + (k + n) \in Heard(S, q3) /\ SameReply(q1[i], q3[i + (k + n)])
  BY <1>1, <1>2, <1>3 DEF SameReply
<1> QED BY <1>3, <1>4 DEF FewerReplies

(* What is alone is gone once it is taken.                                 *)
LEMMA TakenAlone ==
  ASSUME NEW S
  PROVE  /\ \A q \in Seq(Command) :
              q # <<>> /\ Head(q).op \in S /\ (\A i, j \in Asked(S, q) : i = j)
                => 1 \in Asked(S, q) /\ q[1] = Head(q) /\ Asked(S, Tail(q)) = {}
         /\ \A q \in Seq(Messages) :
              q # <<>> /\ Head(q) \in Reply /\ Head(q).kind \in S /\ (\A i, j \in Heard(S, q) : i = j)
                => 1 \in Heard(S, q) /\ q[1] = Head(q) /\ Heard(S, Tail(q)) = {}
<1>1. ASSUME NEW T, NEW q \in Seq(T), q # <<>>
      PROVE  /\ 1 \in DOMAIN q /\ q[1] = Head(q)
             /\ \A i \in DOMAIN Tail(q) : i + 1 \in DOMAIN q /\ Tail(q)[i] = q[i + 1] /\ i + 1 # 1
  BY <1>1, HeadTailProperties, LenProperties
<1>2. ASSUME NEW q \in Seq(Command), q # <<>>, Head(q).op \in S,
             \A i, j \in Asked(S, q) : i = j
      PROVE  1 \in Asked(S, q) /\ q[1] = Head(q) /\ Asked(S, Tail(q)) = {}
  <2>1. 1 \in Asked(S, q) /\ q[1] = Head(q)
    BY <1>1, <1>2 DEF Asked
  <2>2. ASSUME NEW i \in Asked(S, Tail(q)) PROVE FALSE
    <3>1. i + 1 \in Asked(S, q) /\ i + 1 # 1
      BY <1>1, <1>2, <2>2 DEF Asked
    <3> QED BY <1>2, <2>1, <3>1
  <2> QED BY <2>1, <2>2
<1>3. ASSUME NEW q \in Seq(Messages), q # <<>>, Head(q) \in Reply, Head(q).kind \in S,
             \A i, j \in Heard(S, q) : i = j
      PROVE  1 \in Heard(S, q) /\ q[1] = Head(q) /\ Heard(S, Tail(q)) = {}
  <2>1. 1 \in Heard(S, q) /\ q[1] = Head(q)
    BY <1>1, <1>3 DEF Heard
  <2>2. ASSUME NEW i \in Heard(S, Tail(q)) PROVE FALSE
    <3>1. i + 1 \in Heard(S, q) /\ i + 1 # 1
      BY <1>1, <1>3, <2>2 DEF Heard
    <3> QED BY <1>3, <2>1, <3>1
  <2> QED BY <2>1, <2>2
<1> QED BY <1>2, <1>3

(* What is asked or answered comes behind what is under way already.       *)
LEMMA AddedCommand ==
  ASSUME NEW S, NEW q \in Seq(Command), NEW c
  PROVE  \A i \in Asked(S, Append(q, c)) :
           /\ i \in Nat
           /\ \/ i = Len(q) + 1 /\ Append(q, c)[i] = c
              \/ i \in Asked(S, q) /\ i < Len(q) + 1 /\ Append(q, c)[i] = q[i]
<1>1. /\ Len(q) \in Nat /\ DOMAIN q = 1 .. Len(q)
      /\ DOMAIN Append(q, c) = 1 .. (Len(q) + 1) /\ Append(q, c)[Len(q) + 1] = c
      /\ \A i \in 1 .. Len(q) : Append(q, c)[i] = q[i]
  BY AppendProperties, LenProperties
<1> QED BY <1>1 DEF Asked

LEMMA AddedReply ==
  ASSUME NEW S, NEW q \in Seq(Messages), NEW m
  PROVE  \A i \in Heard(S, Append(q, m)) :
           /\ i \in Nat
           /\ \/ i = Len(q) + 1 /\ Append(q, m)[i] = m
              \/ i \in Heard(S, q) /\ i < Len(q) + 1 /\ Append(q, m)[i] = q[i]
<1>1. /\ Len(q) \in Nat /\ DOMAIN q = 1 .. Len(q)
      /\ DOMAIN Append(q, m) = 1 .. (Len(q) + 1) /\ Append(q, m)[Len(q) + 1] = m
      /\ \A i \in 1 .. Len(q) : Append(q, m)[i] = q[i]
  BY AppendProperties, LenProperties
<1> QED BY <1>1 DEF Heard

LEMMA TakenMessage ==
  ASSUME NEW S, CardTypeOK, msgs # <<>>
  PROVE  /\ FewerReplies(S, Tail(msgs), msgs)
         /\ FewerReplies(S, Disown(Tail(msgs)), msgs)
         /\ \A m : m \notin Reply \/ m.kind \notin S => FewerReplies(S, Append(Tail(msgs), m), msgs)
<1>1. msgs \in Seq(Messages) /\ Tail(msgs) \in Seq(Messages)
  BY Queues DEF CardTypeOK, Messages
<1>2. FewerReplies(S, Tail(msgs), msgs)
  BY <1>1, FewerRepliesKept
<1>3. FewerReplies(S, Disown(Tail(msgs)), Tail(msgs))
  BY <1>1, FewerRepliesKept
<1>4. \A m : m \notin Reply \/ m.kind \notin S => FewerReplies(S, Append(Tail(msgs), m), Tail(msgs))
  BY <1>1, FewerRepliesKept
<1> QED BY <1>2, <1>3, <1>4, FewerStill

LEMMA ResetReplies ==
  ASSUME NEW S, CardTypeOK, readerName \in Readers \cup {NoReader}, NEW queue \in Seq(Messages),
         ResetCardConnection(queue)
  PROVE  FewerReplies(S, msgs', queue)
<1>1. Detach(queue) \in Seq(Messages) /\ FewerReplies(S, Detach(queue), queue)
  BY DetachType, FewerRepliesKept
<1>2. CASE readerName = NoReader
  BY <1>1, <1>2 DEF ResetCardConnection
<1>3. CASE readerName # NoReader
  <2>1. PICK p \in Seq(Event) : msgs' = Detach(queue) \o p
    BY <1>3, ResetSignals
  <2>2. FewerReplies(S, msgs', Detach(queue))
    BY <1>1, <2>1, FewerRepliesKept
  <2> QED BY <1>1, <2>2, FewerStill
<1> QED BY <1>2, <1>3
=============================================================================
