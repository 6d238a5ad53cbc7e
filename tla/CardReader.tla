----------------------------- MODULE CardReader -----------------------------
(***************************************************************************)
(* The reader thread of the client and the ID cards behind it: the slots,  *)
(* the Reader objects that poll them (Reader, PcscReader), the Card        *)
(* objects with their PC/SC handle (PcscCard), the CardConnectionWorker    *)
(* bound to a reader, the commands the main thread queues to it and the    *)
(* signals that travel back (CardConnection).                              *)
(*                                                                         *)
(* The chip itself is external: it keeps a PIN retry counter, refuses a    *)
(* PIN at counter 1 unless a CAN channel is open, and counts a wrong PIN.  *)
(* The secrets of card c are named by c: entering the password "c" is      *)
(* entering the PIN (or CAN, or PUK) that belongs to c.                    *)
(***************************************************************************)
EXTENDS Integers, Sequences, FiniteSets

CONSTANTS
  Readers,          \* names of the attached readers
  BasicReaders,     \* those without a PIN pad: the client sends the password
  Cards,            \* the ID cards a user may present
  Typo,             \* a password that belongs to no card
  NoCard,           \* an empty slot
  NoPassword,       \* the empty QString
  NoConn,           \* the null CardConnection
  MaxMoves,         \* bound: how often cards are put down or taken away
  MaxReadFailures   \* bound: readings of a counter that fail with the card there

ASSUME ReaderAssumption ==
  /\ BasicReaders \subseteq Readers
  /\ NoCard \notin Cards
  /\ Typo \notin Cards
  /\ NoPassword \notin Cards \cup {Typo}
  /\ MaxMoves \in Nat /\ MaxReadFailures \in Nat

VARIABLES
  slot,      \* [Readers -> card in the slot]            (the world)
  chipRc,    \* [Cards -> PIN retry counter of the chip] (the world)
  canOpen,   \* [Cards -> a PACE CAN channel is open]    (the world)
  moves,     \* card movements so far
  failures,  \* failed counter reads so far
  rd,        \* [Readers -> what the Reader object knows]
  cmds,      \* events posted to the reader thread
  msgs,      \* events posted to the main thread
  conn,      \* the CardConnection of the main thread
  blame,     \* history: [Cards -> rejections of the PIN last entered, sent over the
             \* connection's own handle, since the chip last reset its counter]
  done       \* history: what the workflow has achieved on a chip

worldVars  == <<slot, moves>>
chipVars   == <<chipRc, canOpen, blame, done>>
readerVars == <<rd, failures, cmds, msgs>>
cardVars   == <<slot, chipRc, canOpen, moves, failures, rd, cmds, msgs, conn, blame,
                done>>

Passwords  == Cards \cup {Typo}
NewPin     == Typo               \* any new PIN will do
RetryCounters == -1 .. 3         \* -1: not determined

(* What a Reader object holds: a Card object (mPcscCard), the state of its *)
(* handle and the cached CardInfo counter.                                 *)
ReaderData == [obj: BOOLEAN, handle: {"closed", "open", "dead"}, rc: RetryCounters]

NoCardInfo == [obj |-> FALSE, handle |-> "closed", rc |-> -1]

CommandOps == {"CREATE", "DROP", "UPDATE_RC", "PACE", "UNBLOCK", "DESTROY", "SET_PIN",
               "EAC1", "EAC2", "TRANSMIT"}
PaceIds    == {"CAN", "PIN", "PUK", "UNKNOWN"}

Codes == { "OK", "OK_PUK", "CARD_NOT_FOUND", "RETRY_ALLOWED", "COMMAND_FAILED",
           "PROTOCOL_ERROR", "CANCELLATION_BY_USER", "INPUT_TIME_OUT",
           "INVALID_CAN", "INVALID_PIN", "INVALID_PIN_2", "INVALID_PIN_3",
           "INVALID_PUK", "PUK_INOPERATIVE", "PIN_NOT_BLOCKED", "PIN_BLOCKED",
           "NEW_PIN_MISMATCH", "NEW_PIN_INVALID_LENGTH", "UNEXPECTED_TRANSMIT_STATUS" }

Command == [op: CommandOps, reader: Readers, id: PaceIds,
            pw: Passwords \cup {NoPassword}, mine: BOOLEAN, conn: BOOLEAN]
Reply   == [kind: CommandOps \cup {"CALL"}, reader: Readers, id: PaceIds, code: Codes,
            mine: BOOLEAN, conn: BOOLEAN]
Event   == [kind: {"inserted", "removed", "counter"}, reader: Readers,
            rc: RetryCounters, mine: BOOLEAN, conn: BOOLEAN]
Connection == [reader: Readers, rc: RetryCounters, can: BOOLEAN, pin: BOOLEAN,
               listening: BOOLEAN]

ASSUME ConnectionAssumption == NoConn \notin Connection

CardTypeOK ==
  /\ slot \in [Readers -> Cards \cup {NoCard}]
  /\ chipRc \in [Cards -> 0 .. 3]
  /\ canOpen \in [Cards -> BOOLEAN]
  /\ moves \in Nat /\ failures \in Nat
  /\ rd \in [Readers -> ReaderData]
  /\ cmds \in Seq(Command)
  /\ msgs \in Seq(Reply \cup Event)
  /\ conn \in Connection \cup {NoConn}
  /\ blame \in [Cards -> Nat]
  /\ done \in {"nothing", "unblocked", "changed"}

CardInit ==
  /\ slot = [r \in Readers |-> NoCard]
  /\ chipRc \in [Cards -> 0 .. 3]
  /\ canOpen = [c \in Cards |-> FALSE]
  /\ moves = 0 /\ failures = 0
  /\ rd = [r \in Readers |-> NoCardInfo]
  /\ cmds = <<>> /\ msgs = <<>>
  /\ conn = NoConn
  /\ blame = [c \in Cards |-> 0]
  /\ done = "nothing"

-----------------------------------------------------------------------------
(* Signals and their receivers. *)

(* The signal of reader r reaches the CardConnection only once it is       *)
(* connected; connections are made at emission time.                       *)
Listening(r) == conn # NoConn /\ conn.listening /\ conn.reader = r

Signal(type, r, k) ==
  [kind |-> type, reader |-> r, rc |-> k, mine |-> FALSE, conn |-> Listening(r)]

(* Leaving a state clears its connections: no reply is for it any more.    *)
Disown(q) == [i \in DOMAIN q |-> [q[i] EXCEPT !.mine = FALSE]]

(* A deleted CardConnection receives nothing that is still posted to it.   *)
Detach(q) == [i \in DOMAIN q |-> [q[i] EXCEPT !.conn = FALSE]]

-----------------------------------------------------------------------------
(* The world: the user moves cards. *)

PutCard(r, c) ==
  /\ slot[r] = NoCard /\ \A s \in Readers : slot[s] # c
  /\ moves < MaxMoves
  /\ slot' = [slot EXCEPT ![r] = c]
  /\ moves' = moves + 1
  /\ UNCHANGED <<chipVars, readerVars, conn>>

(* A handle opened on a card that has left the slot is of no use any more. *)
Broken(d) == IF d.handle = "open" THEN [d EXCEPT !.handle = "dead"] ELSE d

TakeCard(r) ==
  /\ slot[r] # NoCard
  /\ moves < MaxMoves
  /\ moves' = moves + 1
  /\ canOpen' = [canOpen EXCEPT ![slot[r]] = FALSE]
  /\ slot' = [slot EXCEPT ![r] = NoCard]
  /\ rd' = [rd EXCEPT ![r] = Broken(@)]
  /\ UNCHANGED <<chipRc, blame, done, failures, cmds, msgs, conn>>

-----------------------------------------------------------------------------
(* Reader::update: what one poll of the slot of r makes of the data d. A   *)
(* card that appears is read over a temporary connection, closed again; a  *)
(* failing counter read leaves the counter undetermined. A card exchanged  *)
(* between two polls is not noticed. The temporary worker is deleted after *)
(* the poll: what that may do to a waiting wish is left to ExecuteCreate.  *)
PollOutcomes(r, d) ==
  IF slot[r] # NoCard /\ ~d.obj
  THEN { [data |-> [obj |-> TRUE, handle |-> "closed", rc |-> k],
          events |-> <<[type |-> "inserted", rc |-> k]>>] :
         k \in {chipRc[slot[r]]} \cup (IF failures < MaxReadFailures THEN {-1} ELSE {}) }
  ELSE IF slot[r] = NoCard /\ d.obj
  THEN { [data |-> NoCardInfo, events |-> <<[type |-> "removed", rc |-> -1]>>] }
  ELSE { [data |-> d, events |-> <<>>] }

FailedRead(o) == o.events # <<>> /\ o.data.obj /\ o.data.rc = -1

(* The timer of the reader thread. *)
Update(r) ==
  \E o \in PollOutcomes(r, rd[r]) :
    /\ o.events # <<>>
    /\ rd' = [rd EXCEPT ![r] = o.data]
    /\ failures' = IF FailedRead(o) THEN failures + 1 ELSE failures
    /\ msgs' = Append(msgs, Signal(o.events[1].type, r, o.events[1].rc))
    /\ UNCHANGED <<worldVars, chipVars, cmds, conn>>

-----------------------------------------------------------------------------
(* The commands, executed one after the other in the reader thread. *)

Reach(r) == rd[r].obj /\ rd[r].handle = "open" /\ slot[r] # NoCard

(* A worker for reader r that no CardConnection has taken: its handle is   *)
(* about to be claimed or to be closed.                                    *)
Unclaimed(r) ==
  \/ \E i \in DOMAIN msgs : msgs[i].kind = "CREATE" /\ msgs[i].code = "OK" /\ msgs[i].reader = r
  \/ \E i \in DOMAIN cmds : cmds[i].op = "DROP" /\ cmds[i].reader = r

(* The card in reader r is reached, and over the handle that was opened    *)
(* for the connection.                                                     *)
OwnCard(r) == Reach(r) /\ ~Unclaimed(r)

Answer(c, code) ==
  [kind |-> c.op, reader |-> c.reader, id |-> c.id, code |-> code,
   mine |-> c.mine, conn |-> c.conn]

Executes(op) == cmds # <<>> /\ Head(cmds).op = op

Finish(code) ==
  /\ cmds' = Tail(cmds)
  /\ msgs' = Append(msgs, Answer(Head(cmds), code))

(* Reader::createCardConnectionWorker. The signal with the new worker is a *)
(* broadcast: every CreateCardConnectionCommand that waits takes it. The   *)
(* card may refuse, or still be held by the temporary worker of the poll.  *)
ExecuteCreate ==
  /\ Executes("CREATE")
  /\ LET c  == Head(cmds)
         r  == c.reader
         possible == rd[r].obj /\ rd[r].handle = "closed" /\ slot[r] # NoCard
         waiting == \E i \in DOMAIN cmds : cmds[i].op = "CREATE" /\ cmds[i].mine
     IN \E ok \in {possible, FALSE} :
        /\ rd' = IF ok THEN [rd EXCEPT ![r].handle = "open"] ELSE rd
        /\ cmds' = Tail(cmds)
        /\ msgs' = Append(msgs, [Answer(c, IF ok THEN "OK" ELSE "COMMAND_FAILED")
                                   EXCEPT !.mine = waiting])
  /\ UNCHANGED <<worldVars, chipVars, failures, conn>>

(* ~CardConnectionWorker: the card of the reader is disconnected and reset. *)
Closed(d) == [d EXCEPT !.handle = "closed"]

ResetChip(r, d) ==
  IF slot[r] # NoCard /\ d.handle = "open"
  THEN [canOpen EXCEPT ![slot[r]] = FALSE] ELSE canOpen

ExecuteDrop ==
  /\ Executes("DROP")
  /\ LET r == Head(cmds).reader
     IN /\ rd' = [rd EXCEPT ![r] = Closed(@)]
        /\ canOpen' = ResetChip(r, rd[r])
  /\ cmds' = Tail(cmds)
  /\ UNCHANGED <<worldVars, chipRc, blame, done, failures, msgs, conn>>

(* CardConnectionWorker::updateRetryCounter and Reader::updateRetryCounter: *)
(* the change is signalled only if a counter was known before.              *)
ExecuteUpdateRetryCounter ==
  /\ Executes("UPDATE_RC")
  /\ LET c == Head(cmds)
         r == c.reader
         k == chipRc[slot[r]]
         changed == rd[r].rc # -1 /\ rd[r].rc # k
     IN \/ /\ ~Reach(r)
           /\ Finish(IF rd[r].obj THEN "COMMAND_FAILED" ELSE "CARD_NOT_FOUND")
           /\ UNCHANGED <<rd, failures>>
        \/ /\ Reach(r) /\ failures < MaxReadFailures
           /\ Finish("COMMAND_FAILED")
           /\ rd' = rd /\ failures' = failures + 1
        \/ /\ Reach(r)
           /\ rd' = [rd EXCEPT ![r].rc = k]
           /\ cmds' = Tail(cmds) /\ UNCHANGED failures
           /\ msgs' = msgs \o (IF changed THEN <<Signal("counter", r, k)>> ELSE <<>>)
                           \o <<Answer(c, "OK")>>
  /\ UNCHANGED <<worldVars, chipVars, conn>>

(* What the chip k does with a password: the code the key agreement ends   *)
(* with, its counter and its CAN channel afterwards.                       *)
ChipAnswer(k, id, word) ==
  CASE id = "CAN" ->
         IF word = k THEN [code |-> "OK", rc |-> chipRc[k], can |-> TRUE]
                     ELSE [code |-> "INVALID_CAN", rc |-> chipRc[k], can |-> FALSE]
    [] id = "PUK" ->
         IF word = k THEN [code |-> "OK", rc |-> 3, can |-> FALSE]
                     ELSE [code |-> "INVALID_PUK", rc |-> chipRc[k], can |-> FALSE]
    [] OTHER ->
         IF chipRc[k] = 0 \/ (chipRc[k] = 1 /\ ~canOpen[k])
         THEN [code |-> "PROTOCOL_ERROR", rc |-> chipRc[k], can |-> canOpen[k]]
         ELSE IF word = k THEN [code |-> "OK", rc |-> 3, can |-> FALSE]
                          ELSE [code |-> "INVALID_PIN", rc |-> chipRc[k] - 1, can |-> FALSE]

(* The chip has worked on the password; its last answer may still get lost *)
(* because the card is taken away in the middle of the command.            *)
ChipWorks(r, id, word) ==
  LET k == slot[r]
      a == ChipAnswer(k, id, word)
  IN /\ chipRc' = [chipRc EXCEPT ![k] = a.rc]
     /\ blame' = IF a.code = "INVALID_PIN" /\ r \in BasicReaders /\ ~Unclaimed(r)
                 THEN [blame EXCEPT ![k] = @ + 1]
                 ELSE IF a.code = "OK" /\ id # "CAN" THEN [blame EXCEPT ![k] = 0] ELSE blame
     /\ done' = IF id = "PUK" /\ a.code = "OK" THEN "unblocked" ELSE done
     /\ UNCHANGED <<failures, conn>>
     /\ \/ /\ Finish(a.code)
           /\ canOpen' = [canOpen EXCEPT ![k] = a.can]
           /\ UNCHANGED <<worldVars, rd>>
        \/ /\ moves < MaxMoves
           /\ moves' = moves + 1
           /\ Finish("RETRY_ALLOWED")
           /\ canOpen' = [canOpen EXCEPT ![k] = FALSE]
           /\ slot' = [slot EXCEPT ![r] = NoCard]
           /\ rd' = [rd EXCEPT ![r] = Broken(@)]

Words(c) == IF c.reader \in BasicReaders THEN {c.pw} ELSE Passwords

UnchangedByCommand == UNCHANGED <<worldVars, chipVars, rd, failures, conn>>

(* CardConnectionWorker::establishPaceChannel for CAN and PIN: nothing     *)
(* happens without a card, the missing answer of a vanished one allows a   *)
(* retry, and a reader with a PIN pad lets the user give up.               *)
ExecuteEstablishPaceChannel ==
  /\ Executes("PACE")
  /\ LET c == Head(cmds)
         r == c.reader
     IN \/ ~rd[r].obj /\ Finish("CARD_NOT_FOUND") /\ UnchangedByCommand
        \/ rd[r].obj /\ ~Reach(r) /\ Finish("RETRY_ALLOWED") /\ UnchangedByCommand
        \/ /\ Reach(r) /\ r \notin BasicReaders
           /\ \E code \in {"CANCELLATION_BY_USER", "INPUT_TIME_OUT"} : Finish(code)
           /\ UnchangedByCommand
        \/ Reach(r) /\ \E word \in Words(c) : ChipWorks(r, c.id, word)

(* UnblockPinCommand::internalExecute *)
ExecuteUnblockPin ==
  /\ Executes("UNBLOCK")
  /\ LET c == Head(cmds)
         r == c.reader
     IN \/ ~rd[r].obj /\ Finish("CARD_NOT_FOUND") /\ UnchangedByCommand
        \/ rd[r].obj /\ rd[r].rc > 0 /\ Finish("PIN_NOT_BLOCKED") /\ UnchangedByCommand
        \/ rd[r].obj /\ rd[r].rc <= 0 /\ ~Reach(r) /\ Finish("RETRY_ALLOWED") /\ UnchangedByCommand
        \/ /\ Reach(r) /\ rd[r].rc <= 0
           /\ \E word \in Words(c) : ChipWorks(r, "PUK", word)
        \/ /\ Reach(r) /\ rd[r].rc <= 0 /\ slot[r] \in Words(c)
           /\ Finish("PUK_INOPERATIVE") /\ UnchangedByCommand

(* CardConnectionWorker::destroyPaceChannel *)
ExecuteDestroyPaceChannel ==
  /\ Executes("DESTROY")
  /\ LET r == Head(cmds).reader
     IN /\ Finish(IF Reach(r) THEN "OK"
                  ELSE IF rd[r].obj THEN "COMMAND_FAILED" ELSE "CARD_NOT_FOUND")
        /\ canOpen' = IF Reach(r) THEN [canOpen EXCEPT ![slot[r]] = FALSE] ELSE canOpen
  /\ UNCHANGED <<worldVars, chipRc, blame, done, rd, failures, conn>>

(* CardConnectionWorker::setEidPin; a PIN pad adds its own outcomes        *)
(* (ResponseApdu::getCardReturnCode).                                      *)
ExecuteSetEidPin ==
  /\ Executes("SET_PIN")
  /\ LET r == Head(cmds).reader
         changes == r \notin BasicReaders \/ Head(cmds).pw # NoPassword
     IN \E code \in IF ~rd[r].obj THEN {"CARD_NOT_FOUND"}
                    ELSE IF ~Reach(r) THEN {"COMMAND_FAILED"}
                    ELSE IF r \in BasicReaders THEN {"OK", "COMMAND_FAILED"}
                    ELSE {"OK", "INPUT_TIME_OUT", "CANCELLATION_BY_USER", "NEW_PIN_MISMATCH",
                          "NEW_PIN_INVALID_LENGTH", "PIN_BLOCKED", "PROTOCOL_ERROR"} :
          /\ Finish(code)
          /\ done' = IF code = "OK" /\ changes THEN "changed" ELSE done
  /\ UNCHANGED <<worldVars, chipRc, canOpen, blame, rd, failures, conn>>

Execute ==
  \/ ExecuteCreate
  \/ ExecuteDrop
  \/ ExecuteUpdateRetryCounter
  \/ ExecuteEstablishPaceChannel
  \/ ExecuteUnblockPin
  \/ ExecuteDestroyPaceChannel
  \/ ExecuteSetEidPin

ReaderThread == Execute \/ \E r \in Readers : Update(r)

World == \E r \in Readers : TakeCard(r) \/ \E c \in Cards : PutCard(r, c)
=============================================================================
