--------------------------- MODULE FpgaLink_proofs ---------------------------
(***************************************************************************)
(* What holds of the link to the FPGA whoever asks for what: no transfer   *)
(* is started on top of another, no failed one passes for done, and what   *)
(* the driver caches is genuine.  For all registers, values, commands and  *)
(* time limits, and for a line that is disturbed any number of times.      *)
(* The second part follows the pulse and the drift of the GPS to the FPGA  *)
(* over an undisturbed line: for any number of drift registers, any pace   *)
(* of the pulses they can keep up with, and whatever is asked in between   *)
(* by those who leave these registers alone.                               *)
(***************************************************************************)
EXTENDS FpgaLink, SequenceTheorems, TLAPS

-----------------------------------------------------------------------------
\* The inductive invariant: the types of FpgaTypeOK, split into those of the
\* link and those of the loop, what todo holds, and three facts about the
\* transfer in flight.

Transfers == [cmd : Commands, heard : BOOLEAN, reply : Commands \cup {NoReply}]

LinkTypes ==
    /\ Write_Data \in Commands
    /\ arg \in Commands
    /\ transfer \in Transfers \cup {NONE}
    /\ spi_lock \in BOOLEAN /\ nss \in BOOLEAN /\ retry_flag \in BOOLEAN
    /\ cached \in [Cached -> Data]
    /\ at \in {"free", "selected", "written", "waiting"}
    /\ fpga \in [Writable -> Data]
    /\ trouble \in 0 .. MaxTrouble

\* The lock is held exactly while a transfer is in flight.
LockOK == spi_lock <=> transfer # NONE

\* An answer the FPGA did not give names no register, and one that it gave about
\* a register the driver caches holds a value of that register.
ReplyOK ==
    transfer # NONE =>
      /\ ~transfer.heard => transfer.reply = NoReply
      /\ transfer.reply[1] = Read_Flag /\ transfer.reply[2] \in Cached
           => transfer.reply[3] \in Values[transfer.reply[2]]

LinkInv == LinkTypes /\ LockOK /\ ReplyOK /\ CacheIsGenuine

Requests ==
    ({"send", "late"} \X Commands) \cup ({"get"} \X Addr)
      \cup ({"judge", "good", "driftsent"} \X {NoCommand})

LoopTypes ==
    /\ todo \in Seq(Requests)
    /\ slot \in 1 .. Len(Slots)
    /\ retry_times \in 0 .. 1
    /\ received \in Commands \X (0 .. 2)
    /\ clocktype \in ClockTypes /\ lastSet \in {"none", "clock", "sync"}
    /\ addr \in 0 .. Len(PowerOn) /\ timeout \in 0 .. TIMEOUT
    /\ status \in {"good", "error", "init"}
    /\ Send_Sec_Plus_Flag \in BOOLEAN /\ Reset_Pulse_Flag \in BOOLEAN
    /\ Send_Dirft_Flag \in BOOLEAN /\ held \in BOOLEAN
    /\ drift \in Measured /\ reg \in 1 .. Len(DriftRegs)
    /\ pulseAge \in 0 .. PULSE_GAP

IInv == LinkInv /\ LoopTypes

LEMMA TypesOfInv == IInv => FpgaTypeOK
BY DEF IInv, LinkInv, LinkTypes, LoopTypes, FpgaTypeOK, Transfers

-----------------------------------------------------------------------------
\* Commands the loop makes up, and what it puts into todo.

LEMMA CommandTypes ==
    /\ NoCommand \in Commands
    /\ \A a \in Addr : R(a) \in Commands
    /\ \A a \in Addr, d \in Data : W(a, d) \in Commands
    /\ {CLOCK, SYNC, PULSE, "0x82", "0xb9"} \subseteq Addr
    /\ {"0x00", "0x80"} \subseteq Data
BY LinkAssumption, OrdersAssumption
   DEF NoCommand, Commands, R, W, Read_Flag, Write_Flag

\* Short sequences of requests are sequences of requests.
LEMMA ShortTodo ==
    ASSUME NEW r \in Requests, NEW s \in Requests
    PROVE  <<r>> \in Seq(Requests) /\ <<r, s>> \in Seq(Requests) /\ <<>> \in Seq(Requests)
OBVIOUS

-----------------------------------------------------------------------------
\* The steps of the link keep its part.

LEMMA SendKeeps ==
    ASSUME LinkInv, NEW cmd \in Commands, Send(cmd) \/ SendLate(cmd)
    PROVE  LinkInv'
<1>1. /\ Write_Data' = cmd
      /\ nss' \in {FALSE, nss}
      /\ at' \in {"selected", "written"}
      /\ UNCHANGED <<transfer, spi_lock, retry_flag, cached, arg, fpga, trouble>>
  BY DEF Send, SendLate
<1>2. LinkTypes'
  BY <1>1 DEF LinkInv, LinkTypes
<1>3. (LockOK /\ ReplyOK /\ CacheIsGenuine)'
  BY <1>1 DEF LinkInv, LockOK, ReplyOK, CacheIsGenuine
<1> QED
  BY <1>2, <1>3 DEF LinkInv

LEMMA GetKeeps ==
    ASSUME LinkInv, NEW a \in Addr, Get(a)
    PROVE  LinkInv'
<1>1. <<Read_Flag, a, "0x00">> \in Commands
  BY CommandTypes DEF R
<1>2. /\ arg' \in Commands
      /\ at' = "waiting"
      /\ UNCHANGED <<Write_Data, transfer, spi_lock, nss, retry_flag, cached, fpga, trouble>>
  BY <1>1 DEF Get
<1>3. LinkTypes'
  BY <1>2 DEF LinkInv, LinkTypes
<1>4. (LockOK /\ ReplyOK /\ CacheIsGenuine)'
  BY <1>2 DEF LinkInv, LockOK, ReplyOK, CacheIsGenuine
<1> QED
  BY <1>3, <1>4 DEF LinkInv

LEMMA RetryKeeps ==
    ASSUME LinkInv, Retry_SPI4
    PROVE  LinkInv'
BY DEF LinkInv, LinkTypes, LockOK, ReplyOK, CacheIsGenuine, Retry_SPI4

LEMMA OverwriteKeeps ==
    ASSUME LinkInv, NEW cmd \in Commands, Overwrite(cmd)
    PROVE  LinkInv'
BY DEF LinkInv, LinkTypes, LockOK, ReplyOK, CacheIsGenuine, Overwrite

LEMMA StillKeeps ==
    ASSUME LinkInv, UNCHANGED linkVars
    PROVE  LinkInv'
BY DEF LinkInv, LinkTypes, LockOK, ReplyOK, CacheIsGenuine, linkVars

\* What the FPGA answers is a command, and genuine.
LEMMA AnswersGenuine ==
    ASSUME LinkTypes, NEW cmd \in Commands, NEW reply \in Answers(cmd)
    PROVE  /\ reply \in Commands
           /\ reply[1] = Read_Flag /\ reply[2] \in Cached => reply[3] \in Values[reply[2]]
<1>1. PICK op \in {Read_Flag, Write_Flag}, a \in Addr, d \in Data : cmd = <<op, a, d>>
  BY DEF Commands
<1>2. CASE op = Write_Flag
  <2>1. Answers(cmd) = {cmd}
    BY <1>1, <1>2 DEF Answers
  <2>2. reply = cmd
    BY <2>1
  <2> QED
    BY <1>1, <1>2, <2>2 DEF Read_Flag, Write_Flag
<1>3. CASE a \notin Registers
  <2>1. Answers(cmd) = {cmd}
    BY <1>1, <1>3 DEF Answers
  <2>2. reply = cmd
    BY <2>1
  <2> QED
    BY <1>1, <1>3, <2>2, LinkAssumption
<1>4. CASE op # Write_Flag /\ a \in Writable
  <2>1. a \in Registers
    BY <1>4, LinkAssumption
  <2>2. reply = <<Read_Flag, a, fpga[a]>>
    <3>1. Answers(cmd) = {<<Read_Flag, a, v>> : v \in {fpga[a]}}
      BY <1>1, <1>4, <2>1 DEF Answers
    <3> QED
      BY <3>1
  <2>3. fpga[a] \in Data
    BY <1>4 DEF LinkTypes
  <2> QED
    BY <1>4, <2>2, <2>3, LinkAssumption DEF Commands
<1>5. CASE op # Write_Flag /\ a \in Registers /\ a \notin Writable
  <2>1. PICK v \in Values[a] : reply = <<Read_Flag, a, v>>
    <3>1. Answers(cmd) = {<<Read_Flag, a, v>> : v \in Values[a]}
      BY <1>1, <1>5 DEF Answers
    <3> QED
      BY <3>1
  <2>2. v \in Data
    BY <1>5, LinkAssumption
  <2> QED
    BY <2>1, <2>2 DEF Commands
<1> QED
  BY <1>2, <1>3, <1>4, <1>5

\* The registers stay registers, whatever is written.
LEMMA ObeyedTyped ==
    ASSUME LinkTypes, NEW cmd \in Commands
    PROVE  Obeyed(cmd) \in [Writable -> Data]
<1>1. PICK op \in {Read_Flag, Write_Flag}, a \in Addr, d \in Data : cmd = <<op, a, d>>
  BY DEF Commands
<1> QED
  BY <1>1 DEF Obeyed, LinkTypes

LEMMA TransferKeeps ==
    ASSUME LinkTypes, NEW cmd \in Commands, NEW selected \in BOOLEAN, Transfer(cmd, selected)
    PROVE  /\ transfer' \in Transfers
           /\ ReplyOK'
           /\ fpga' \in [Writable -> Data]
           /\ trouble' \in 0 .. MaxTrouble
<1> USE ObeyedTyped
<1>n. /\ NoReply[2] \notin Cached
      /\ MaxTrouble \in Nat
  BY LinkAssumption DEF NoReply
<1>1. CASE /\ \E reply \in IF selected THEN Answers(cmd) ELSE {NoReply} :
                 transfer' = [cmd |-> cmd, heard |-> selected, reply |-> reply]
           /\ fpga' = IF selected THEN Obeyed(cmd) ELSE fpga
           /\ trouble' = trouble
  <2>1. PICK reply \in IF selected THEN Answers(cmd) ELSE {NoReply} :
             transfer' = [cmd |-> cmd, heard |-> selected, reply |-> reply]
    BY <1>1
  <2>2. CASE selected
    <3>1. reply \in Answers(cmd)
      BY <2>1, <2>2
    <3> QED
      BY <1>1, <2>1, <2>2, <3>1, AnswersGenuine DEF LinkTypes, Transfers, ReplyOK
  <2>3. CASE ~selected
    <3>1. reply = NoReply
      BY <2>1, <2>3
    <3> QED
      BY <1>1, <1>n, <2>1, <2>3, <3>1 DEF LinkTypes, Transfers, ReplyOK
  <2> QED
    BY <2>2, <2>3
<1>2. CASE /\ trouble < MaxTrouble /\ selected
           /\ trouble' = trouble + 1
           /\ \E heard \in BOOLEAN :
                /\ transfer' = [cmd |-> cmd, heard |-> heard, reply |-> NoReply]
                /\ fpga' = IF heard THEN Obeyed(cmd) ELSE fpga
  BY <1>2, <1>n DEF LinkTypes, Transfers, ReplyOK
<1> QED
  BY <1>1, <1>2 DEF Transfer

\* A transfer is started only while none is in flight, and takes the lock.
LEMMA StartKeeps ==
    ASSUME LinkInv, Start
    PROVE  LinkInv'
<1> DEFINE cmd == IF at = "waiting" THEN arg ELSE Write_Data
           level == IF at \in {"waiting", "written"} THEN FALSE ELSE nss
<1>1. /\ cmd \in Commands /\ level \in BOOLEAN
      /\ LinkTypes
  BY DEF LinkInv, LinkTypes
<1>2. /\ Write_Data' = cmd
      /\ nss' = level
      /\ Transfer(cmd, ~nss')
      /\ spi_lock' = TRUE
      /\ at' = "free"
      /\ arg' = NoCommand
      /\ UNCHANGED <<retry_flag, cached>>
  BY DEF Start
<1>3. /\ transfer' \in Transfers
      /\ ReplyOK'
      /\ fpga' \in [Writable -> Data]
      /\ trouble' \in 0 .. MaxTrouble
  <2>1. (~nss') \in BOOLEAN
    OBVIOUS
  <2> QED
    BY <1>1, <1>2, <2>1, TransferKeeps
<1>4. LinkTypes'
  BY <1>1, <1>2, <1>3, CommandTypes DEF LinkTypes
<1>5. LockOK'
  BY <1>2, <1>3, LinkAssumption DEF LockOK, Transfers
<1> QED
  BY <1>2, <1>3, <1>4, <1>5 DEF LinkInv, CacheIsGenuine

\* The completion interrupt keeps only genuine answers, and gives the lock back.
LEMMA CompletionKeeps ==
    ASSUME LinkInv, SPI4_TxRxCpltCallback
    PROVE  LinkInv'
<1>1. /\ transfer # NONE
      /\ nss' = TRUE
      /\ retry_flag' = ~Fits
      /\ cached' = IF Fits THEN Accepted ELSE cached
      /\ spi_lock' = FALSE
      /\ transfer' = NONE
      /\ UNCHANGED <<Write_Data, at, arg, fpga, trouble>>
  BY DEF SPI4_TxRxCpltCallback
<1>2. cached' \in [Cached -> Data] /\ CacheIsGenuine'
  <2>1. CASE cached' = cached
    BY <2>1 DEF LinkInv, LinkTypes, CacheIsGenuine
  <2>2. CASE cached' # cached
    <3>1. /\ transfer.reply[1] = Read_Flag /\ transfer.reply[2] \in Cached
          /\ cached' = [cached EXCEPT ![transfer.reply[2]] = transfer.reply[3]]
      BY <1>1, <2>2 DEF Accepted
    <3>2. transfer.reply[3] \in Values[transfer.reply[2]]
      BY <1>1, <3>1 DEF LinkInv, ReplyOK
    <3>3. Values[transfer.reply[2]] \subseteq Data
      BY <3>1, LinkAssumption
    <3> QED
      BY <3>1, <3>2, <3>3 DEF LinkInv, LinkTypes, CacheIsGenuine
  <2> QED
    BY <2>1, <2>2
<1> QED
  BY <1>1, <1>2 DEF LinkInv, LinkTypes, LockOK, ReplyOK, Fits

-----------------------------------------------------------------------------
\* The requests the handlers put into todo are requests.

LEMMA RequestTypes ==
    /\ \A cmd \in Commands : <<"send", cmd>> \in Requests /\ <<"late", cmd>> \in Requests
    /\ \A a \in Addr : <<"get", a>> \in Requests
    /\ \A kind \in {"judge", "good", "driftsent"} : <<kind, NoCommand>> \in Requests
BY DEF Requests

\* The first request of todo names a command or a register, and the rest of todo
\* is made of requests.
LEMMA HeadTypes ==
    ASSUME todo \in Seq(Requests), todo # <<>>
    PROVE  /\ Head(todo)[1] \in {"send", "late"} => Head(todo)[2] \in Commands
           /\ Head(todo)[1] = "get" => Head(todo)[2] \in Addr
           /\ Tail(todo) \in Seq(Requests)
<1>1. Head(todo) \in Requests /\ Tail(todo) \in Seq(Requests)
  OBVIOUS
<1>2. ASSUME NEW r \in Requests
      PROVE  /\ r[1] \in {"send", "late"} => r[2] \in Commands
             /\ r[1] = "get" => r[2] \in Addr
  BY DEF Requests
<1> QED
  BY <1>1, <1>2

LEMMA ClockRequestTypes ==
    ASSUME NEW v \in ClockTypes
    PROVE  ClockRequests(v) \in Seq(Requests)
<1>1. W(CLOCK, v) \in Commands /\ W(SYNC, "0x00") \in Commands
  BY CommandTypes, OrdersAssumption
<1> QED
  BY <1>1, RequestTypes, ShortTodo DEF ClockRequests

LEMMA OrderRequestTypes ==
    ASSUME NEW order \in Orders
    PROVE  OrderRequests(order) \in Seq(Requests)
<1>1. \/ order[1] = "fpga" /\ order[2] \in Commands
      \/ order[1] = "clock" /\ order[2] \in ClockTypes
      \/ order[1] = "sync" /\ order[2] \in Data
  BY OrdersAssumption
<1>2. CASE order[1] = "fpga" /\ order[2] \in Commands
  <2>1. OrderRequests(order) = <<<<"send", order[2]>>>>
    BY <1>2 DEF OrderRequests
  <2> QED
    BY <1>2, <2>1, RequestTypes, ShortTodo
<1>3. CASE order[1] = "clock" /\ order[2] \in ClockTypes
  BY <1>3, ClockRequestTypes DEF OrderRequests
<1>4. CASE order[1] = "sync" /\ order[2] \in Data
  <2>1. OrderRequests(order) = <<<<"send", W(SYNC, order[2])>>>>
    BY <1>4 DEF OrderRequests
  <2>2. W(SYNC, order[2]) \in Commands
    BY <1>4, CommandTypes
  <2> QED
    BY <2>1, <2>2, RequestTypes, ShortTodo
<1> QED
  BY <1>1, <1>2, <1>3, <1>4

LEMMA DriftRequestTypes ==
    ASSUME LoopTypes
    PROVE  DriftRequests \in Seq(Requests)
<1>1. DriftRegs[reg] \in Addr
  BY OrdersAssumption, LinkAssumption DEF LoopTypes
<1>2. W(DriftRegs[reg], drift) \in Commands
  BY <1>1, CommandTypes, OrdersAssumption DEF LoopTypes
<1> QED
  BY <1>2, RequestTypes, ShortTodo DEF DriftRequests

LEMMA PowerOnRequestTypes ==
    ASSUME LoopTypes, NEW a \in Addr
    PROVE  PowerOnRequests(a) \in Seq(Requests)
<1>1. ClockRequests(clocktype) \in Seq(Requests)
  BY ClockRequestTypes DEF LoopTypes
<1>2. <<<<"send", R(a)>>>> \in Seq(Requests)
  BY CommandTypes, RequestTypes, ShortTodo
<1> QED
  BY <1>1, <1>2 DEF PowerOnRequests

-----------------------------------------------------------------------------
\* The steps of the loop, one lemma each.

LEMMA InitEstablishes == FpgaInit => IInv
<1> SUFFICES ASSUME FpgaInit PROVE IInv
  OBVIOUS
<1>1. LinkTypes
  <2>1. /\ NoCommand \in Commands /\ Reset \in [Writable -> Data]
        /\ 0 \in 0 .. MaxTrouble /\ [a \in Cached |-> "0x00"] \in [Cached -> Data]
    BY CommandTypes, LinkAssumption
  <2> QED
    BY <2>1 DEF FpgaInit, LinkInit, LinkTypes
<1>2. LockOK /\ ReplyOK /\ CacheIsGenuine
  BY DEF FpgaInit, LinkInit, LockOK, ReplyOK, CacheIsGenuine
<1>3. LoopTypes
  <2>1. /\ <<NoCommand, 0>> \in Commands \X (0 .. 2) /\ <<>> \in Seq(Requests)
        /\ 1 \in 1 .. Len(Slots)
    BY CommandTypes DEF Slots
  <2>2. /\ 1 \in 1 .. Len(DriftRegs) /\ Reset[DriftRegs[1]] \in Measured
        /\ 0 \in 0 .. TIMEOUT /\ 0 \in 0 .. PULSE_GAP /\ 0 \in 0 .. Len(PowerOn)
    BY OrdersAssumption
  <2>3. /\ todo \in Seq(Requests) /\ slot \in 1 .. Len(Slots) /\ retry_times \in 0 .. 1
        /\ received \in Commands \X (0 .. 2)
        /\ addr \in 0 .. Len(PowerOn) /\ timeout \in 0 .. TIMEOUT
    BY <2>1, <2>2 DEF FpgaInit
  <2>4. /\ drift \in Measured /\ reg \in 1 .. Len(DriftRegs) /\ pulseAge \in 0 .. PULSE_GAP
        /\ clocktype \in ClockTypes /\ lastSet \in {"none", "clock", "sync"}
        /\ status \in {"good", "error", "init"}
    BY <2>2 DEF FpgaInit
  <2>5. /\ Send_Sec_Plus_Flag \in BOOLEAN /\ Reset_Pulse_Flag \in BOOLEAN
        /\ Send_Dirft_Flag \in BOOLEAN /\ held \in BOOLEAN
    BY DEF FpgaInit
  <2> QED
    BY <2>3, <2>4, <2>5 DEF LoopTypes
<1> QED
  BY <1>1, <1>2, <1>3 DEF IInv, LinkInv

LEMMA RequestKeeps ==
    ASSUME IInv, Request
    PROVE  IInv'
<1>1. /\ todo # <<>> /\ todo' = Tail(todo)
      /\ UNCHANGED <<slot, retry_times, received, clocktype, powerVars, status, gpsVars, lastSet>>
  BY DEF Request, Do, Next1, NextRequest
<1>2. /\ Head(todo)[1] \in {"send", "late"} => Head(todo)[2] \in Commands
      /\ Head(todo)[1] = "get" => Head(todo)[2] \in Addr
      /\ todo' \in Seq(Requests)
  BY <1>1, HeadTypes DEF IInv, LoopTypes
<1>3. LinkInv'
  <2>1. CASE Do("send") /\ Send(Head(todo)[2])
    BY <1>2, <2>1, SendKeeps DEF Do, IInv
  <2>2. CASE Do("late") /\ SendLate(Head(todo)[2])
    BY <1>2, <2>2, SendKeeps DEF Do, IInv
  <2>3. CASE Do("get") /\ Get(Head(todo)[2])
    BY <1>2, <2>3, GetKeeps DEF Do, IInv
  <2> QED
    BY <2>1, <2>2, <2>3 DEF Request
<1>4. LoopTypes'
  BY <1>1, <1>2 DEF IInv, LoopTypes, powerVars, gpsVars
<1> QED
  BY <1>3, <1>4 DEF IInv

\* Judge, PowerOnDone and DriftSent: what a handler does after its requests.
LEMMA AfterwardsKeep ==
    ASSUME IInv, Judge \/ PowerOnDone \/ DriftSent
    PROVE  IInv'
<1>1. /\ todo # <<>> /\ todo' = Tail(todo)
      /\ UNCHANGED <<linkVars, slot, retry_times, received, clocktype, powerVars,
                     Send_Sec_Plus_Flag, Reset_Pulse_Flag, drift, pulseAge, held, lastSet>>
      /\ status' \in {status, "good", "error"}
      /\ Send_Dirft_Flag' = Send_Dirft_Flag \/ Send_Dirft_Flag' = FALSE
      /\ reg' \in {reg, 1}
  BY DEF Judge, PowerOnDone, DriftSent, Do, Next1, NextRequest, RegAfterLast, gpsVars
<1>2. todo' \in Seq(Requests)
  BY <1>1, HeadTypes DEF IInv, LoopTypes
<1>3. LinkInv'
  BY <1>1, StillKeeps DEF IInv
<1>4. /\ reg' \in 1 .. Len(DriftRegs) /\ status' \in {"good", "error", "init"}
      /\ Send_Dirft_Flag' \in BOOLEAN
  <2>1. reg \in 1 .. Len(DriftRegs) /\ 1 \in 1 .. Len(DriftRegs) /\ status \in {"good", "error", "init"}
    BY OrdersAssumption DEF IInv, LoopTypes
  <2>2. Send_Dirft_Flag \in BOOLEAN
    BY DEF IInv, LoopTypes
  <2>3. Send_Dirft_Flag' = Send_Dirft_Flag \/ Send_Dirft_Flag' = FALSE
    BY <1>1
  <2>4. Send_Dirft_Flag' \in BOOLEAN
    BY <2>2, <2>3
  <2> QED
    BY <1>1, <2>1, <2>4
<1>5. LoopTypes'
  BY <1>1, <1>2, <1>4 DEF IInv, LoopTypes, powerVars
<1> QED
  BY <1>3, <1>5 DEF IInv

LEMMA CommandKeeps ==
    ASSUME IInv, Command
    PROVE  IInv'
<1>1. PICK order \in Orders :
         /\ todo' = OrderRequests(order)
         /\ clocktype' = IF order[1] = "clock" THEN order[2] ELSE clocktype
         /\ lastSet' = IF order[1] = "fpga" THEN lastSet ELSE order[1]
  BY DEF Command
<1>2. UNCHANGED <<linkVars, slot, retry_times, received, powerVars, status, gpsVars>>
  BY DEF Command
<1>3. todo' \in Seq(Requests)
  BY <1>1, OrderRequestTypes
<1>4. clocktype' \in ClockTypes /\ lastSet' \in {"none", "clock", "sync"}
  <2>1. \/ order[1] = "fpga"
        \/ order[1] = "clock" /\ order[2] \in ClockTypes
        \/ order[1] = "sync"
    BY OrdersAssumption
  <2> QED
    BY <1>1, <2>1 DEF IInv, LoopTypes
<1>5. LinkInv'
  BY <1>2, StillKeeps DEF IInv
<1>6. LoopTypes'
  BY <1>2, <1>3, <1>4 DEF IInv, LoopTypes, powerVars, gpsVars
<1> QED
  BY <1>5, <1>6 DEF IInv

\* The bytes of the bridge replace bytes of Write_Data, each by one of the same
\* place in a command: what results is a command.
LEMMA MixedCommand ==
    ASSUME NEW x \in Commands, NEW y \in Commands,
           NEW a \in {x[1], y[1]}, NEW b \in {x[2], y[2]}, NEW c \in {x[3], y[3]}
    PROVE  <<a, b, c>> \in Commands
BY DEF Commands

LEMMA SplitKeeps ==
    ASSUME LinkInv, NEW cmd \in Commands, Split(cmd)
    PROVE  LinkInv'
<1>1. /\ Write_Data' = cmd
      /\ trouble' \in 0 .. MaxTrouble
      /\ UNCHANGED <<transfer, spi_lock, nss, retry_flag, cached, at, arg, fpga>>
  BY LinkAssumption DEF Split, LinkInv, LinkTypes
<1>2. LinkTypes'
  BY <1>1 DEF LinkInv, LinkTypes
<1>3. (LockOK /\ ReplyOK /\ CacheIsGenuine)'
  BY <1>1 DEF LinkInv, LockOK, ReplyOK, CacheIsGenuine
<1> QED
  BY <1>2, <1>3 DEF LinkInv

LEMMA BridgeBytesKeep ==
    ASSUME IInv, BridgeBytes
    PROVE  IInv'
<1>1. PICK cmd \in BridgeCommands, n \in 1 .. 3 :
         LET filled == received[2] + n
             byte(i) == IF i \in received[2] + 1 .. filled THEN cmd[i] ELSE Write_Data[i]
             bytes == <<byte(1), byte(2), byte(3)>>
         IN  \/ received' = <<NoCommand, 0>> /\ Send(bytes)
             \/ filled < 3 /\ received' = <<cmd, filled>> /\ Split(bytes)
  BY DEF BridgeBytes, Test_Send_To_Fpga
<1> DEFINE filled == received[2] + n
           byte(i) == IF i \in received[2] + 1 .. filled THEN cmd[i] ELSE Write_Data[i]
           bytes == <<byte(1), byte(2), byte(3)>>
<1>2. /\ cmd \in Commands /\ Write_Data \in Commands /\ NoCommand \in Commands
      /\ received[2] \in 0 .. 2
  BY OrdersAssumption, CommandTypes DEF IInv, LinkInv, LinkTypes, LoopTypes
<1>3. bytes \in Commands
  BY <1>2, MixedCommand
<1>4. \/ received' = <<NoCommand, 0>> /\ Send(bytes)
      \/ filled < 3 /\ received' = <<cmd, filled>> /\ Split(bytes)
  BY <1>1
<1>5. LinkInv'
  <2> HIDE DEF bytes
  <2> QED
    BY <1>3, <1>4, SendKeeps, SplitKeeps DEF IInv
<1>6. received' \in Commands \X (0 .. 2)
  BY <1>2, <1>4
<1>7. /\ retry_times' = 0
      /\ UNCHANGED <<slot, todo, clocktype, powerVars, status, gpsVars, lastSet>>
  BY DEF BridgeBytes
<1>8. LoopTypes'
  BY <1>6, <1>7 DEF IInv, LoopTypes, powerVars, gpsVars
<1> QED
  BY <1>5, <1>8 DEF IInv

LEMMA BridgeRetryKeeps ==
    ASSUME IInv, BridgeRetry
    PROVE  IInv'
<1>1. /\ Retry_SPI4 \/ UNCHANGED linkVars
      /\ retry_times' = 1
      /\ UNCHANGED <<slot, todo, received, clocktype, powerVars, status, gpsVars, lastSet>>
  BY DEF BridgeRetry
<1>2. LinkInv'
  BY <1>1, RetryKeeps, StillKeeps DEF IInv
<1>3. LoopTypes'
  BY <1>1 DEF IInv, LoopTypes, powerVars, gpsVars
<1> QED
  BY <1>2, <1>3 DEF IInv

LEMMA SlotStep ==
    ASSUME LoopTypes, NEW name, InSlot(name)
    PROVE  slot' \in 1 .. Len(Slots)
<1>1. Len(Slots) = 4
  BY DEF Slots
<1>2. slot \in 1 .. 4 /\ slot' = (slot % 4) + 1
  BY <1>1 DEF InSlot, LoopTypes
<1> QED
  BY <1>1, <1>2

LEMMA GpsSlotKeeps ==
    ASSUME IInv, Send_GPS_info
    PROVE  IInv'
<1>1. /\ slot' \in 1 .. Len(Slots)
      /\ UNCHANGED <<linkVars, retry_times, received, clocktype, powerVars, status,
                     drift, Send_Dirft_Flag, reg, pulseAge, held, lastSet>>
  BY SlotStep DEF Send_GPS_info, InSlot, IInv
<1>2. todo' \in Seq(Requests)
  <2>1. \/ todo' = todo
        \/ todo' = <<<<"late", W(PULSE, "0x80")>>>>
        \/ todo' = <<<<"late", W(PULSE, "0x00")>>>>
    BY DEF Send_GPS_info
  <2>2. W(PULSE, "0x80") \in Commands /\ W(PULSE, "0x00") \in Commands
    BY CommandTypes
  <2> QED
    BY <2>1, <2>2, RequestTypes, ShortTodo DEF IInv, LoopTypes
<1>3. Send_Sec_Plus_Flag' \in BOOLEAN /\ Reset_Pulse_Flag' \in BOOLEAN
  <2>1. Send_Sec_Plus_Flag \in BOOLEAN /\ Reset_Pulse_Flag \in BOOLEAN
    BY DEF IInv, LoopTypes
  <2>2. /\ Send_Sec_Plus_Flag' = Send_Sec_Plus_Flag \/ Send_Sec_Plus_Flag' = FALSE
        /\ \/ Reset_Pulse_Flag' = Reset_Pulse_Flag
           \/ Reset_Pulse_Flag' = TRUE \/ Reset_Pulse_Flag' = FALSE
    BY DEF Send_GPS_info
  <2> QED
    BY <2>1, <2>2
<1>4. LinkInv'
  BY <1>1, StillKeeps DEF IInv
<1>5. LoopTypes'
  BY <1>1, <1>2, <1>3 DEF IInv, LoopTypes, powerVars
<1> QED
  BY <1>4, <1>5 DEF IInv

LEMMA DriftSlotKeeps ==
    ASSUME IInv, Send_Dirft
    PROVE  IInv'
<1>1. /\ slot' \in 1 .. Len(Slots)
      /\ UNCHANGED <<linkVars, retry_times, received, clocktype, powerVars, status, lastSet,
                     Send_Sec_Plus_Flag, Reset_Pulse_Flag, drift, Send_Dirft_Flag, pulseAge>>
  BY SlotStep DEF Send_Dirft, InSlot, IInv
<1>2. todo' \in Seq(Requests)
  <2>1. todo' = todo \/ todo' = DriftRequests
    BY DEF Send_Dirft
  <2> QED
    BY <2>1, DriftRequestTypes DEF IInv, LoopTypes
<1>3. reg' \in 1 .. Len(DriftRegs)
  <2>1. reg \in 1 .. Len(DriftRegs) /\ Len(DriftRegs) \in Nat
    BY OrdersAssumption DEF IInv, LoopTypes
  <2>2. reg' = reg \/ (reg < Len(DriftRegs) /\ reg' = reg + 1)
    BY DEF Send_Dirft
  <2> QED
    BY <2>1, <2>2
<1>4. held' \in BOOLEAN
  <2>1. held' = held \/ held' = (held \/ Send_Dirft_Flag)
    BY DEF Send_Dirft
  <2> QED
    BY <2>1 DEF IInv, LoopTypes
<1>5. LinkInv'
  BY <1>1, StillKeeps DEF IInv
<1>6. LoopTypes'
  BY <1>1, <1>2, <1>3, <1>4 DEF IInv, LoopTypes, powerVars
<1> QED
  BY <1>5, <1>6 DEF IInv

LEMMA PowerOnSlotKeeps ==
    ASSUME IInv, Power_On_Read_Reg_Once
    PROVE  IInv'
<1>1. /\ slot' \in 1 .. Len(Slots)
      /\ UNCHANGED <<retry_times, received, clocktype, lastSet, gpsVars>>
  BY SlotStep DEF Power_On_Read_Reg_Once, InSlot, IInv
<1>2. addr \in 0 .. Len(PowerOn) /\ Len(PowerOn) \in Nat /\ timeout \in 0 .. TIMEOUT /\ TIMEOUT \in Nat
  BY OrdersAssumption DEF IInv, LoopTypes
<1>3. PICK cmd \in Commands : Overwrite(cmd)
  <2>1. addr < Len(PowerOn) => PowerOn[addr + 1] \in Addr
    BY <1>2, OrdersAssumption
  <2>2. (IF addr < Len(PowerOn) THEN R(PowerOn[addr + 1]) ELSE R("0xb9")) \in Commands
    BY <2>1, CommandTypes
  <2> QED
    BY <2>2 DEF Power_On_Read_Reg_Once
<1>4. LinkInv'
  BY <1>3, OverwriteKeeps DEF IInv
<1>5. /\ todo' \in Seq(Requests)
      /\ addr' \in 0 .. Len(PowerOn) /\ timeout' \in 0 .. TIMEOUT
      /\ status' \in {status, "init"}
  <2>1. CASE UNCHANGED <<todo, powerVars, status>>
    BY <1>2, <2>1 DEF IInv, LoopTypes, powerVars
  <2>2. CASE /\ timeout < TIMEOUT
             /\ timeout' = timeout + 1
             /\ status' = "init"
             /\ UNCHANGED <<todo, addr>>
    BY <1>2, <2>2 DEF IInv, LoopTypes
  <2>3. CASE /\ addr # Len(PowerOn)
             /\ addr' = addr + 1
             /\ todo' = PowerOnRequests(PowerOn[addr'])
                          \o IF addr' = Len(PowerOn) THEN <<<<"good", NoCommand>>>> ELSE <<>>
             /\ UNCHANGED <<timeout, status>>
    <3>1. addr' \in 1 .. Len(PowerOn)
      BY <1>2, <2>3
    <3>2. PowerOn[addr'] \in Addr
      BY <3>1, OrdersAssumption
    <3>3. PowerOnRequests(PowerOn[addr']) \in Seq(Requests)
      BY <3>2, PowerOnRequestTypes DEF IInv
    <3>4. (IF addr' = Len(PowerOn) THEN <<<<"good", NoCommand>>>> ELSE <<>>) \in Seq(Requests)
      BY RequestTypes, ShortTodo
    <3>5. todo' \in Seq(Requests)
      BY <2>3, <3>3, <3>4, ConcatProperties
    <3> QED
      BY <1>2, <2>3, <3>1, <3>5
  <2> QED
    BY <2>1, <2>2, <2>3 DEF Power_On_Read_Reg_Once
<1>6. LoopTypes'
  BY <1>1, <1>5 DEF IInv, LoopTypes, gpsVars
<1> QED
  BY <1>4, <1>6 DEF IInv

LEMMA PollKeeps ==
    ASSUME IInv, Poll
    PROVE  IInv'
<1>1. /\ slot' \in 1 .. Len(Slots)
      /\ UNCHANGED <<linkVars, retry_times, received, clocktype, powerVars, status, lastSet,
                     Send_Sec_Plus_Flag, Reset_Pulse_Flag, drift, Send_Dirft_Flag, reg, held>>
  BY SlotStep DEF Poll, InSlot, IInv
<1>2. todo' \in Seq(Requests)
  <2>1. todo' = todo \/ todo' = <<<<"get", "0x82">>, <<"judge", NoCommand>>>>
    BY DEF Poll
  <2> QED
    BY <2>1, CommandTypes, RequestTypes, ShortTodo DEF IInv, LoopTypes
<1>3. pulseAge' \in 0 .. PULSE_GAP
  BY OrdersAssumption DEF Poll, IInv, LoopTypes
<1>4. LinkInv'
  BY <1>1, StillKeeps DEF IInv
<1>5. LoopTypes'
  BY <1>1, <1>2, <1>3 DEF IInv, LoopTypes, powerVars
<1> QED
  BY <1>4, <1>5 DEF IInv

LEMMA StartTransferKeeps ==
    ASSUME IInv, StartTransfer
    PROVE  IInv'
<1>1. LinkInv'
  BY StartKeeps DEF StartTransfer, IInv
<1>2. LoopTypes'
  BY DEF StartTransfer, LoopStays, IInv, LoopTypes, loopVars, powerVars, gpsVars
<1> QED
  BY <1>1, <1>2 DEF IInv

LEMMA TransferEndsKeeps ==
    ASSUME IInv, TransferEnds
    PROVE  IInv'
<1>1. LinkInv'
  BY CompletionKeeps DEF TransferEnds, IInv
<1>2. /\ status' \in {status, "good", "error"}
      /\ UNCHANGED <<gpsVars, loopVars, clocktype, powerVars, lastSet>>
  BY DEF TransferEnds, LoopStays
<1>3. LoopTypes'
  BY <1>2 DEF IInv, LoopTypes, loopVars, powerVars, gpsVars
<1> QED
  BY <1>1, <1>3 DEF IInv

LEMMA PulseKeeps ==
    ASSUME IInv, GPS_PPS_Interrupt
    PROVE  IInv'
<1>1. /\ pulseAge' \in 0 .. PULSE_GAP /\ drift' \in Measured
      /\ UNCHANGED <<linkVars, status, Reset_Pulse_Flag, reg, loopVars, clocktype, powerVars, lastSet>>
  BY OrdersAssumption DEF GPS_PPS_Interrupt, LoopStays
<1>2. /\ Send_Sec_Plus_Flag' \in BOOLEAN /\ Send_Dirft_Flag' \in BOOLEAN
      /\ held' \in BOOLEAN
  BY DEF GPS_PPS_Interrupt
<1>3. LinkInv'
  BY <1>1, StillKeeps DEF IInv
<1>4. LoopTypes'
  BY <1>1, <1>2 DEF IInv, LoopTypes, loopVars, powerVars
<1> QED
  BY <1>3, <1>4 DEF IInv

LEMMA StutterKeeps ==
    ASSUME IInv, UNCHANGED fpgaVars
    PROVE  IInv'
<1>1. LinkInv'
  BY StillKeeps DEF fpgaVars, IInv
<1>2. LoopTypes'
  BY DEF fpgaVars, IInv, LoopTypes, loopVars, powerVars, gpsVars
<1> QED
  BY <1>1, <1>2 DEF IInv

-----------------------------------------------------------------------------
\* Every step keeps the inductive invariant.
LEMMA StepKeeps == IInv /\ [FpgaNext]_fpgaVars => IInv'
<1> SUFFICES ASSUME IInv, [FpgaNext]_fpgaVars PROVE IInv'
  OBVIOUS
<1>1. CASE Pass
  BY <1>1, CommandKeeps, BridgeBytesKeep, BridgeRetryKeeps, GpsSlotKeeps, DriftSlotKeeps,
     PowerOnSlotKeeps, PollKeeps DEF Pass, Tick
<1>2. CASE Continue
  BY <1>2, RequestKeeps, AfterwardsKeep DEF Continue
<1>3. CASE StartTransfer \/ TransferEnds \/ GPS_PPS_Interrupt
  BY <1>3, StartTransferKeeps, TransferEndsKeeps, PulseKeeps
<1>4. CASE UNCHANGED fpgaVars
  BY <1>4, StutterKeeps
<1> QED
  BY <1>1, <1>2, <1>3, <1>4 DEF FpgaNext

\* The link, the loop and what they cache are as the invariant says in every state
\* that the interrupts and the loop can reach.
THEOREM Invariance == FpgaSpec => []IInv
BY InitEstablishes, StepKeeps, PTL DEF FpgaSpec

\* The driver's variables, the requests pending and the senders keep their types:
\* no byte of the bridge and no answer of the FPGA makes Write_Data anything but a
\* command.
THEOREM TypeCorrect == FpgaSpec => []FpgaTypeOK
BY Invariance, TypesOfInv, PTL

\* What SPI4_TxRxCpltCallback keeps is genuine, however requests overlap.
THEOREM CacheCorrect == FpgaSpec => []CacheIsGenuine
<1>1. IInv => CacheIsGenuine
  BY DEF IInv, LinkInv
<1> QED
  BY <1>1, Invariance, PTL

\* The transfer in flight changes only where one is started and where one ends.
LEMMA TransferSteps ==
    ASSUME [FpgaNext]_fpgaVars
    PROVE  transfer' = transfer \/ Start \/ SPI4_TxRxCpltCallback
<1>1. CASE Command \/ Tick
  BY <1>1 DEF Command, Tick, Send_GPS_info, Send_Dirft, Power_On_Read_Reg_Once, Poll, Overwrite,
     linkVars
<1>2. CASE BridgeBytes
  BY <1>2 DEF BridgeBytes, Test_Send_To_Fpga, Send, Split
<1>3. CASE BridgeRetry
  BY <1>3 DEF BridgeRetry, Retry_SPI4, linkVars
<1>4. CASE Continue
  BY <1>4 DEF Continue, Request, Send, SendLate, Get, Judge, PowerOnDone, DriftSent, linkVars
<1>5. CASE StartTransfer \/ TransferEnds
  BY <1>5 DEF StartTransfer, TransferEnds
<1>6. CASE GPS_PPS_Interrupt
  BY <1>6 DEF GPS_PPS_Interrupt, linkVars
<1>7. CASE UNCHANGED fpgaVars
  BY <1>7 DEF fpgaVars, linkVars
<1> QED
  BY <1>1, <1>2, <1>3, <1>4, <1>5, <1>6, <1>7 DEF FpgaNext, Pass

\* The lock between the loop and the SPI4 interrupt keeps the handle and Read_Data
\* to one transfer: none is ever started on top of another.
THEOREM BusCorrect == FpgaSpec => BusExclusive
<1>1. IInv /\ [FpgaNext]_fpgaVars
        => [transfer # NONE => transfer' \in {transfer, NONE}]_fpgaVars
  <2> SUFFICES ASSUME IInv, [FpgaNext]_fpgaVars, transfer # NONE
               PROVE  transfer' \in {transfer, NONE}
    OBVIOUS
  <2>1. ~Start
    BY DEF IInv, LinkInv, LockOK, Start, MayStart
  <2> QED
    BY <2>1, TransferSteps DEF SPI4_TxRxCpltCallback
<1> QED
  BY <1>1, Invariance, PTL DEF FpgaSpec, BusExclusive

\* A transfer the FPGA did not obey always asks for a retry, whatever became of
\* Write_Data while it was in flight.
THEOREM LossCorrect == FpgaSpec => NoSilentLoss
<1>1. IInv /\ [FpgaNext]_fpgaVars
        => [transfer # NONE /\ transfer' = NONE /\ ~retry_flag' => transfer.heard]_fpgaVars
  <2> SUFFICES ASSUME IInv, [FpgaNext]_fpgaVars,
                      transfer # NONE, transfer' = NONE, ~retry_flag', ~transfer.heard
               PROVE  FALSE
    OBVIOUS
  <2>1. ~Start
    BY DEF IInv, LinkInv, LockOK, Start, MayStart
  <2>2. Fits
    BY <2>1, TransferSteps DEF SPI4_TxRxCpltCallback
  <2>3. transfer.reply = NoReply
    BY DEF IInv, LinkInv, ReplyOK
  <2>4. Write_Data[2] \in Addr
    BY DEF IInv, LinkInv, LinkTypes, Commands
  <2> QED
    BY <2>2, <2>3, <2>4, LinkAssumption DEF Fits, NoReply
<1> QED
  BY <1>1, Invariance, PTL DEF FpgaSpec, NoSilentLoss

-----------------------------------------------------------------------------
\* The second invariant: what of the pulse and the drift has reached the FPGA,
\* as long as the line was not disturbed and nobody but Send_GPS_info and
\* Send_Dirft writes their registers.

Guarded == {PULSE} \cup {DriftRegs[i] : i \in DOMAIN DriftRegs}
Writes(cmd) == cmd[1] = Write_Flag /\ cmd[2] \in Guarded

\* What the driver does not check: no client and no bridge command writes them.
NobodyElseWrites ==
    /\ \A order \in Orders : order[1] = "fpga" => ~Writes(order[2])
    /\ \A cmd \in BridgeCommands : ~Writes(cmd)

\* Requests that leave the pulse and the drift alone.
Calm == {r \in Requests : r[1] \in {"get", "judge", "good"} \/ (r[1] = "send" /\ ~Writes(r[2]))}

Level == IF Reset_Pulse_Flag THEN "0x80" ELSE "0x00"
Last == <<"driftsent", NoCommand>>

\* The sending of the drift keeps up with the rounds since the last pulse.
InTime(n) == pulseAge <= IF slot \in {3, 4} THEN n ELSE n + 1

\* The first s registers hold the drift being sent, in round n of the sending;
\* all of them are alike when it is over.
Drifted(s, n) ==
    ~held =>
      IF Send_Dirft_Flag
      THEN (\A i \in 1 .. s : fpga[DriftRegs[i]] = drift) /\ InTime(n)
      ELSE \A i, j \in DOMAIN DriftRegs : fpga[DriftRegs[i]] = fpga[DriftRegs[j]]

\* Nothing of the pulse or the drift is on its way to the FPGA ...
Idle ==
    /\ todo \in Seq(Calm) /\ at # "written"
    /\ fpga[PULSE] = Level /\ Drifted(reg - 1, reg - 1)

\* ... or the level of the pulse is: to be requested, or waiting for the lock ...
PulseDue ==
    /\ \/ at = "free" /\ todo = <<<<"late", W(PULSE, Level)>>>>
       \/ at = "written" /\ Write_Data = W(PULSE, Level) /\ todo = <<>>
    /\ Drifted(reg - 1, reg - 1)

\* ... or one register of the drift, k, with a value v of it ...
DriftDueOf(k, v) ==
    /\ reg = IF k = Len(DriftRegs) THEN k ELSE k + 1
    /\ \/ /\ at = "free"
          /\ todo = IF k = Len(DriftRegs)
                    THEN <<<<"late", W(DriftRegs[k], v)>>, Last>>
                    ELSE <<<<"late", W(DriftRegs[k], v)>>>>
       \/ /\ at = "written" /\ Write_Data = W(DriftRegs[k], v)
          /\ todo = IF k = Len(DriftRegs) THEN <<Last>> ELSE <<>>
    /\ Send_Dirft_Flag /\ slot = 3 /\ fpga[PULSE] = Level
    /\ ~held => v = drift
    /\ Drifted(k - 1, k)

DriftDue == \E k \in 1 .. Len(DriftRegs), v \in Measured : DriftDueOf(k, v)

\* ... or all of it was sent, and the flag is still to be cleared.
DriftEnds ==
    /\ at = "free" /\ todo = <<Last>> /\ Send_Dirft_Flag /\ slot = 3
    /\ fpga[PULSE] = Level /\ Drifted(Len(DriftRegs), Len(DriftRegs))

\* A command that may be sent again changes none of the registers then.
Settled ==
    /\ at # "written" /\ Writes(Write_Data) => fpga[Write_Data[2]] = Write_Data[3]
    /\ at = "selected" => ~Writes(Write_Data)
    /\ at = "waiting" /\ Writes(arg) => fpga[arg[2]] = arg[3]

Tidy ==
    /\ received[2] = 0 /\ Settled /\ (~Send_Dirft_Flag => reg = 1)
    /\ Idle \/ PulseDue \/ DriftDue \/ DriftEnds

GuardInv == Undisturbed => Tidy

LEMMA GuardInvTracks ==
    ASSUME IInv, Tidy, Rest
    PROVE  /\ fpga[PULSE] = "0x80" <=> Reset_Pulse_Flag
           /\ ~held /\ ~Send_Dirft_Flag
                => \A i, j \in DOMAIN DriftRegs : fpga[DriftRegs[i]] = fpga[DriftRegs[j]]
<1>1. at = "free" /\ todo = <<>>
  BY DEF Rest, Free
<1>2. Idle
  BY <1>1 DEF Tidy, PulseDue, DriftDue, DriftDueOf, DriftEnds
<1> QED
  BY <1>2 DEF Idle, Level, Drifted

-----------------------------------------------------------------------------
\* Requests that leave the guarded registers alone.

LEMMA CalmRequests ==
    /\ \A cmd \in Commands : ~Writes(cmd) => <<"send", cmd>> \in Calm
    /\ \A a \in Addr : <<"get", a>> \in Calm
    /\ <<"judge", NoCommand>> \in Calm /\ <<"good", NoCommand>> \in Calm
BY RequestTypes DEF Calm

LEMMA CalmTodo ==
    ASSUME NEW r \in Calm, NEW s \in Calm
    PROVE  <<r>> \in Seq(Calm) /\ <<r, s>> \in Seq(Calm) /\ <<>> \in Seq(Calm)
OBVIOUS

\* The first request of such a todo, and what it leaves.
LEMMA CalmHead ==
    ASSUME todo \in Seq(Calm), todo # <<>>
    PROVE  /\ Head(todo)[1] # "late" /\ Head(todo)[1] # "driftsent"
           /\ Head(todo)[1] = "send" => ~Writes(Head(todo)[2])
           /\ Tail(todo) \in Seq(Calm)
<1>1. Head(todo) \in Calm /\ Tail(todo) \in Seq(Calm)
  OBVIOUS
<1>2. ASSUME NEW r \in Calm
      PROVE  /\ r[1] # "late" /\ r[1] # "driftsent"
             /\ r[1] = "send" => ~Writes(r[2])
  BY DEF Calm
<1> QED
  BY <1>1, <1>2

\* Reads, the clock type and the sync type are none of the guarded registers.
LEMMA OthersDoNotWrite ==
    /\ \A a \in Addr : ~Writes(R(a))
    /\ \A v \in Data : ~Writes(W(CLOCK, v)) /\ ~Writes(W(SYNC, v))
    /\ ~Writes(NoCommand)
<1>1. CLOCK \notin Guarded /\ SYNC \notin Guarded
  BY SecondsAssumption DEF Guarded, CLOCK, SYNC, PULSE
<1> QED
  BY <1>1 DEF Writes, R, W, NoCommand, Read_Flag, Write_Flag

LEMMA ClockRequestsCalm ==
    ASSUME NEW v \in ClockTypes
    PROVE  ClockRequests(v) \in Seq(Calm)
<1>1. v \in Data /\ "0x00" \in Data
  BY OrdersAssumption, CommandTypes
<1>2. W(CLOCK, v) \in Commands /\ W(SYNC, "0x00") \in Commands
  BY <1>1, CommandTypes
<1> QED
  BY <1>1, <1>2, OthersDoNotWrite, CalmRequests, CalmTodo DEF ClockRequests

LEMMA OrderRequestsCalm ==
    ASSUME NobodyElseWrites, NEW order \in Orders
    PROVE  OrderRequests(order) \in Seq(Calm)
<1>1. \/ order[1] = "fpga" /\ order[2] \in Commands
      \/ order[1] = "clock" /\ order[2] \in ClockTypes
      \/ order[1] = "sync" /\ order[2] \in Data
  BY OrdersAssumption
<1>2. CASE order[1] = "fpga" /\ order[2] \in Commands
  <2>1. OrderRequests(order) = <<<<"send", order[2]>>>>
    BY <1>2 DEF OrderRequests
  <2>2. ~Writes(order[2])
    BY <1>2 DEF NobodyElseWrites
  <2> QED
    BY <1>2, <2>1, <2>2, CalmRequests, CalmTodo
<1>3. CASE order[1] = "clock" /\ order[2] \in ClockTypes
  BY <1>3, ClockRequestsCalm DEF OrderRequests
<1>4. CASE order[1] = "sync" /\ order[2] \in Data
  <2>1. OrderRequests(order) = <<<<"send", W(SYNC, order[2])>>>>
    BY <1>4 DEF OrderRequests
  <2>2. W(SYNC, order[2]) \in Commands
    BY <1>4, CommandTypes
  <2> QED
    BY <1>4, <2>1, <2>2, OthersDoNotWrite, CalmRequests, CalmTodo
<1> QED
  BY <1>1, <1>2, <1>3, <1>4

LEMMA PowerOnRequestsCalm ==
    ASSUME LoopTypes, NEW a \in Addr
    PROVE  PowerOnRequests(a) \in Seq(Calm)
<1>1. ClockRequests(clocktype) \in Seq(Calm)
  BY ClockRequestsCalm DEF LoopTypes
<1>2. <<<<"send", R(a)>>>> \in Seq(Calm)
  BY CommandTypes, OthersDoNotWrite, CalmRequests, CalmTodo
<1> QED
  BY <1>1, <1>2 DEF PowerOnRequests

\* Between two handlers nothing of the pulse or the drift is on its way.
LEMMA FreeIsIdle ==
    ASSUME Tidy, Free
    PROVE  Idle
<1>1. at = "free" /\ todo = <<>>
  BY DEF Free
<1> QED
  BY <1>1 DEF Tidy, PulseDue, DriftDue, DriftDueOf, DriftEnds

\* What does not touch the pulse, the drift and their registers leaves them idle.
LEMMA IdleStays ==
    ASSUME Idle, (todo \in Seq(Calm))', (at # "written")',
           UNCHANGED <<fpga, Reset_Pulse_Flag, Send_Dirft_Flag, reg, drift, held>>,
           InTime(reg - 1) => InTime(reg - 1)'
    PROVE  Idle'
<1>1. Drifted(reg - 1, reg - 1)'
  BY DEF Idle, Drifted
<1>2. (fpga[PULSE] = Level)'
  BY DEF Idle, Level
<1> QED
  BY <1>1, <1>2 DEF Idle

-----------------------------------------------------------------------------
\* The steps, one lemma each.

LEMMA TidyAtFirst == FpgaInit => Tidy
<1> SUFFICES ASSUME FpgaInit PROVE Tidy
  OBVIOUS
<1>1. Settled
  BY OthersDoNotWrite DEF FpgaInit, LinkInit, Settled
<1>2. Idle
  <2>1. fpga[PULSE] = Level
    BY SecondsAssumption DEF FpgaInit, LinkInit, Level
  <2>2. Drifted(reg - 1, reg - 1)
    BY SecondsAssumption DEF FpgaInit, LinkInit, Drifted
  <2>3. <<>> \in Seq(Calm)
    OBVIOUS
  <2> QED
    BY <2>1, <2>2, <2>3 DEF FpgaInit, LinkInit, Idle
<1> QED
  BY <1>1, <1>2 DEF FpgaInit, Tidy

LEMMA CommandTidy ==
    ASSUME NobodyElseWrites, Tidy, Command
    PROVE  Tidy'
<1>1. Idle
  BY FreeIsIdle DEF Command
<1>2. /\ at = "free"
      /\ UNCHANGED <<linkVars, slot, received, gpsVars>>
  BY DEF Command, Free
<1>3. todo' \in Seq(Calm)
  BY OrderRequestsCalm DEF Command
<1>4. Idle'
  BY <1>1, <1>2, <1>3, IdleStays DEF linkVars, gpsVars, InTime
<1>5. Settled'
  BY <1>2 DEF Tidy, Settled, linkVars
<1> QED
  BY <1>2, <1>4, <1>5 DEF Tidy, gpsVars

LEMMA BridgeBytesTidy ==
    ASSUME NobodyElseWrites, IInv, Tidy, BridgeBytes, trouble = 0, trouble' = 0
    PROVE  Tidy'
<1>1. Idle /\ received[2] = 0
  BY FreeIsIdle DEF BridgeBytes, Tidy
<1>2. PICK cmd \in BridgeCommands, n \in 1 .. 3 :
         LET filled == received[2] + n
             byte(i) == IF i \in received[2] + 1 .. filled THEN cmd[i] ELSE Write_Data[i]
             bytes == <<byte(1), byte(2), byte(3)>>
         IN  \/ filled = 3 /\ received' = <<NoCommand, 0>> /\ Send(bytes)
             \/ filled < 3 /\ received' = <<cmd, filled>> /\ Split(bytes)
  BY DEF BridgeBytes, Test_Send_To_Fpga
<1> DEFINE filled == received[2] + n
           byte(i) == IF i \in received[2] + 1 .. filled THEN cmd[i] ELSE Write_Data[i]
           bytes == <<byte(1), byte(2), byte(3)>>
<1>3. ~Split(bytes)
  BY <1>1 DEF Split
<1>4. filled = 3 /\ received' = <<NoCommand, 0>> /\ Send(bytes)
  BY <1>2, <1>3
<1>5. ~Writes(bytes)
  <2>1. ~Writes(cmd)
    BY DEF NobodyElseWrites
  <2>2. bytes[1] = cmd[1] /\ bytes[2] = cmd[2]
    BY <1>1, <1>4
  <2> QED
    BY <2>1, <2>2 DEF Writes
<1> HIDE DEF bytes, filled
<1>6. /\ Write_Data' = bytes /\ at' = "selected"
      /\ UNCHANGED <<fpga, todo, slot, gpsVars>>
  BY <1>4 DEF Send, BridgeBytes
<1>7. Settled'
  BY <1>5, <1>6 DEF Settled
<1>8. Idle'
  <2>1. (todo \in Seq(Calm))'
    BY <1>1, <1>6 DEF Idle
  <2> QED
    BY <1>1, <1>6, <2>1, IdleStays DEF gpsVars, InTime
<1> QED
  BY <1>4, <1>6, <1>7, <1>8 DEF Tidy, gpsVars

LEMMA BridgeRetryTidy ==
    ASSUME Tidy, BridgeRetry
    PROVE  Tidy'
<1>1. Idle /\ at = "free"
  BY FreeIsIdle DEF BridgeRetry, Free
<1>2. /\ UNCHANGED <<Write_Data, fpga, todo, slot, received, gpsVars>>
      /\ at' \in {"free", "waiting"}
      /\ at' = "waiting" => arg' = Write_Data
  BY <1>1 DEF BridgeRetry, Retry_SPI4, linkVars
<1>3. Settled'
  BY <1>1, <1>2 DEF Tidy, Settled
<1>4. Idle'
  <2>1. (todo \in Seq(Calm))'
    BY <1>1, <1>2 DEF Idle
  <2> QED
    BY <1>1, <1>2, <2>1, IdleStays DEF gpsVars, InTime
<1> QED
  BY <1>2, <1>3, <1>4 DEF Tidy, gpsVars

\* Which slot a handler of Pollint10mSec has, and which is the next.
LEMMA SlotNumbers ==
    ASSUME IInv
    PROVE  /\ InSlot("gps") => slot = 1 /\ slot' = 2
           /\ InSlot("drift") => slot = 2 /\ slot' = 3
           /\ InSlot("poweron") => slot = 3 /\ slot' = 4
           /\ InSlot("poll") => slot = 4 /\ slot' = 1
<1>1. Len(Slots) = 4
  BY DEF Slots
<1>2. slot \in 1 .. 4
  BY <1>1 DEF IInv, LoopTypes
<1>3. ASSUME NEW name, InSlot(name)
      PROVE  Slots[slot] = name /\ slot' = (slot % 4) + 1
  BY <1>1, <1>3 DEF InSlot
<1>4. /\ Slots[1] = "gps" /\ Slots[2] = "drift"
      /\ Slots[3] = "poweron" /\ Slots[4] = "poll"
  BY DEF Slots
<1>5. slot = 1 \/ slot = 2 \/ slot = 3 \/ slot = 4
  BY <1>2
<1>6. 1 % 4 = 1 /\ 2 % 4 = 2 /\ 3 % 4 = 3 /\ 4 % 4 = 0
  OBVIOUS
<1> QED
  BY <1>3, <1>4, <1>5, <1>6

LEMMA GpsSlotTidy ==
    ASSUME IInv, Tidy, Send_GPS_info
    PROVE  Tidy'
<1>1. Idle /\ at = "free" /\ todo = <<>> /\ slot = 1 /\ slot' = 2
  BY FreeIsIdle, SlotNumbers DEF Send_GPS_info, InSlot, Free
<1>2. UNCHANGED <<Write_Data, at, arg, fpga, received, drift, Send_Dirft_Flag, reg, pulseAge, held>>
  BY DEF Send_GPS_info, InSlot, linkVars
<1>3. \/ todo' = todo /\ Reset_Pulse_Flag' = Reset_Pulse_Flag
      \/ todo' = <<<<"late", W(PULSE, "0x80")>>>> /\ Reset_Pulse_Flag' = TRUE
      \/ todo' = <<<<"late", W(PULSE, "0x00")>>>> /\ Reset_Pulse_Flag' = FALSE
  BY DEF Send_GPS_info
<1>4. Settled'
  BY <1>2 DEF Tidy, Settled
<1>5. Drifted(reg - 1, reg - 1)'
  BY <1>1, <1>2 DEF Idle, Drifted, InTime
<1>6. Idle' \/ PulseDue'
  <2>1. CASE todo' = todo /\ Reset_Pulse_Flag' = Reset_Pulse_Flag
    BY <1>1, <1>2, <1>5, <2>1 DEF Idle, Level
  <2>2. CASE todo' = <<<<"late", W(PULSE, "0x80")>>>> /\ Reset_Pulse_Flag' = TRUE
    BY <1>1, <1>2, <1>5, <2>2 DEF PulseDue, Level
  <2>3. CASE todo' = <<<<"late", W(PULSE, "0x00")>>>> /\ Reset_Pulse_Flag' = FALSE
    BY <1>1, <1>2, <1>5, <2>3 DEF PulseDue, Level
  <2> QED
    BY <1>3, <2>1, <2>2, <2>3
<1> QED
  BY <1>2, <1>4, <1>6 DEF Tidy

LEMMA DriftSlotTidy ==
    ASSUME IInv, Tidy, Send_Dirft
    PROVE  Tidy'
<1>1. Idle /\ at = "free" /\ todo = <<>> /\ slot = 2 /\ slot' = 3
  BY FreeIsIdle, SlotNumbers DEF Send_Dirft, InSlot, Free
<1>2. UNCHANGED <<Write_Data, at, arg, fpga, received, drift, Send_Dirft_Flag,
                  Reset_Pulse_Flag, pulseAge>>
  BY DEF Send_Dirft, InSlot, linkVars
<1>3. Settled'
  BY <1>2 DEF Tidy, Settled
<1>4. (fpga[PULSE] = Level)'
  BY <1>1, <1>2 DEF Idle, Level
<1>n. /\ reg \in 1 .. Len(DriftRegs) /\ Len(DriftRegs) \in Nat /\ drift \in Measured
      /\ pulseAge \in Nat
  BY OrdersAssumption DEF IInv, LoopTypes
<1>5. CASE status = "good" /\ Send_Dirft_Flag
  <2> DEFINE k == reg
  <2>1. /\ todo' = DriftRequests /\ held' = held
        /\ reg' = IF k = Len(DriftRegs) THEN k ELSE k + 1
    BY <1>n, <1>5 DEF Send_Dirft
  <2>2. PICK m \in 1 .. Len(DriftRegs), v \in Measured : m = reg /\ v = drift
    BY <1>n
  <2>3. Drifted(m - 1, m)'
    <3> SUFFICES ASSUME ~held
                 PROVE  /\ \A i \in 1 .. m - 1 : fpga[DriftRegs[i]] = drift
                        /\ pulseAge <= m
      BY <1>1, <1>2, <1>5, <2>1 DEF Drifted, InTime
    <3>1. Drifted(m - 1, m - 1)
      BY <1>1, <2>2 DEF Idle
    <3> QED
      BY <1>1, <1>5, <1>n, <2>2, <3>1 DEF Drifted, InTime
  <2>4. todo' = IF m = Len(DriftRegs)
                THEN <<<<"late", W(DriftRegs[m], v)>>, Last>>
                ELSE <<<<"late", W(DriftRegs[m], v)>>>>
    <3>1. CASE m = Len(DriftRegs)
      BY <2>1, <2>2, <3>1 DEF DriftRequests, Last
    <3>2. CASE m # Len(DriftRegs)
      BY <2>1, <2>2, <3>2 DEF DriftRequests
    <3> QED
      BY <3>1, <3>2
  <2>5. DriftDueOf(m, v)'
    BY <1>1, <1>2, <1>4, <1>5, <2>1, <2>2, <2>3, <2>4 DEF DriftDueOf
  <2>6. DriftDue'
    BY <2>5 DEF DriftDue
  <2> QED
    BY <1>2, <1>3, <1>5, <2>6 DEF Tidy
<1>6. CASE ~(status = "good" /\ Send_Dirft_Flag)
  <2>1. UNCHANGED <<todo, reg>> /\ held' = (held \/ Send_Dirft_Flag)
    BY <1>6 DEF Send_Dirft
  <2>2. Drifted(reg - 1, reg - 1)'
    BY <1>1, <1>2, <2>1 DEF Idle, Drifted
  <2>3. Idle'
    BY <1>1, <1>2, <1>4, <2>1, <2>2 DEF Idle
  <2> QED
    BY <1>2, <1>3, <2>1, <2>3 DEF Tidy
<1> QED
  BY <1>5, <1>6

LEMMA PowerOnSlotTidy ==
    ASSUME IInv, Tidy, Power_On_Read_Reg_Once
    PROVE  Tidy'
<1>1. Idle /\ at = "free" /\ slot = 3 /\ slot' = 4
  BY FreeIsIdle, SlotNumbers DEF Power_On_Read_Reg_Once, InSlot, Free
<1>2. UNCHANGED <<received, gpsVars>>
  BY DEF Power_On_Read_Reg_Once, InSlot
<1>3. addr \in 0 .. Len(PowerOn) /\ Len(PowerOn) \in Nat
  BY OrdersAssumption DEF IInv, LoopTypes
<1>4. /\ ~Writes(Write_Data') /\ UNCHANGED <<at, arg, fpga>>
  <2>1. PICK a \in Addr : Overwrite(R(a))
    <3>1. addr < Len(PowerOn) => PowerOn[addr + 1] \in Addr
      BY <1>3, OrdersAssumption
    <3>2. "0xb9" \in Addr
      BY CommandTypes
    <3>3. CASE addr < Len(PowerOn)
      BY <3>1, <3>3 DEF Power_On_Read_Reg_Once
    <3>4. CASE ~(addr < Len(PowerOn))
      BY <3>2, <3>4 DEF Power_On_Read_Reg_Once
    <3> QED
      BY <3>3, <3>4
  <2> QED
    BY <2>1, OthersDoNotWrite DEF Overwrite
<1>5. todo' \in Seq(Calm)
  <2>1. CASE todo' = todo
    BY <1>1, <2>1 DEF Idle
  <2>2. CASE /\ addr # Len(PowerOn)
             /\ addr' = addr + 1
             /\ todo' = PowerOnRequests(PowerOn[addr'])
                          \o IF addr' = Len(PowerOn) THEN <<<<"good", NoCommand>>>> ELSE <<>>
    <3>1. addr' \in 1 .. Len(PowerOn)
      BY <1>3, <2>2
    <3>2. PowerOn[addr'] \in Addr
      BY <3>1, OrdersAssumption
    <3>3. PowerOnRequests(PowerOn[addr']) \in Seq(Calm)
      BY <3>2, PowerOnRequestsCalm DEF IInv
    <3>4. (IF addr' = Len(PowerOn) THEN <<<<"good", NoCommand>>>> ELSE <<>>) \in Seq(Calm)
      BY CalmRequests, CalmTodo
    <3> QED
      BY <2>2, <3>3, <3>4, ConcatProperties
  <2> QED
    BY <2>1, <2>2 DEF Power_On_Read_Reg_Once
<1>6. Settled'
  BY <1>1, <1>4 DEF Settled
<1>7. Idle'
  BY <1>1, <1>2, <1>4, <1>5, IdleStays DEF gpsVars, InTime
<1> QED
  BY <1>2, <1>6, <1>7 DEF Tidy, gpsVars

LEMMA PollTidy ==
    ASSUME IInv, Tidy, Poll
    PROVE  Tidy'
<1>1. Idle /\ at = "free" /\ slot = 4 /\ slot' = 1
  BY FreeIsIdle, SlotNumbers DEF Poll, InSlot, Free
<1>2. /\ UNCHANGED <<linkVars, received, Reset_Pulse_Flag, drift, Send_Dirft_Flag, reg, held>>
      /\ pulseAge' \in {pulseAge, pulseAge + 1}
  BY DEF Poll, InSlot
<1>3. todo' \in Seq(Calm)
  <2>1. todo' = todo \/ todo' = <<<<"get", "0x82">>, <<"judge", NoCommand>>>>
    BY DEF Poll
  <2> QED
    BY <1>1, <2>1, CommandTypes, CalmRequests, CalmTodo DEF Idle
<1>4. InTime(reg - 1) => InTime(reg - 1)'
  <2>1. pulseAge \in Nat /\ reg \in Nat
    BY OrdersAssumption DEF IInv, LoopTypes
  <2> QED
    BY <1>1, <1>2, <2>1 DEF InTime
<1>5. Idle'
  BY <1>1, <1>2, <1>3, <1>4, IdleStays DEF linkVars
<1>6. Settled'
  BY <1>2 DEF Tidy, Settled, linkVars
<1> QED
  BY <1>2, <1>5, <1>6 DEF Tidy

\* The next request of todo: a calm one, the level of the pulse, or a register of
\* the drift.
LEMMA RequestTidy ==
    ASSUME IInv, Tidy, Request
    PROVE  Tidy'
<1>1. /\ at = "free" /\ todo # <<>> /\ todo' = Tail(todo)
      /\ UNCHANGED <<slot, received, gpsVars>>
      /\ \/ Head(todo)[1] = "send" /\ Send(Head(todo)[2])
         \/ Head(todo)[1] = "late" /\ SendLate(Head(todo)[2])
         \/ Head(todo)[1] = "get" /\ Get(Head(todo)[2])
  BY DEF Request, Do, Next1, NextRequest
<1>2. UNCHANGED fpga
  BY <1>1 DEF Send, SendLate, Get
<1>3. Drifted(reg - 1, reg - 1) => Drifted(reg - 1, reg - 1)'
  BY <1>1, <1>2 DEF Drifted, InTime, gpsVars
<1>4. CASE Idle
  <2>1. /\ Head(todo)[1] # "late"
        /\ Head(todo)[1] = "send" => ~Writes(Head(todo)[2])
        /\ Tail(todo) \in Seq(Calm)
    BY <1>1, <1>4, CalmHead DEF Idle
  <2>2. CASE Head(todo)[1] = "send" /\ Send(Head(todo)[2])
    <3>1. ~Writes(Write_Data') /\ at' = "selected"
      BY <2>1, <2>2 DEF Send
    <3>2. Settled'
      BY <3>1 DEF Settled
    <3>3. Idle'
      BY <1>1, <1>2, <1>4, <2>1, <3>1, IdleStays DEF gpsVars, InTime
    <3> QED
      BY <1>1, <3>2, <3>3 DEF Tidy, gpsVars
  <2>3. CASE Head(todo)[1] = "get" /\ Get(Head(todo)[2])
    <3>1. ~Writes(arg') /\ at' = "waiting" /\ Write_Data' = Write_Data
      BY <2>3 DEF Get, Writes, Read_Flag, Write_Flag
    <3>2. Settled'
      BY <1>1, <1>2, <3>1 DEF Tidy, Settled
    <3>3. Idle'
      BY <1>1, <1>2, <1>4, <2>1, <3>1, IdleStays DEF gpsVars, InTime
    <3> QED
      BY <1>1, <3>2, <3>3 DEF Tidy, gpsVars
  <2> QED
    BY <1>1, <2>1, <2>2, <2>3
<1>5. CASE PulseDue
  <2>1. todo = <<<<"late", W(PULSE, Level)>>>>
    BY <1>1, <1>5 DEF PulseDue
  <2>2. Head(todo) = <<"late", W(PULSE, Level)>> /\ Tail(todo) = <<>>
    BY <2>1
  <2>3. at' = "written" /\ Write_Data' = W(PULSE, Level) /\ todo' = <<>>
    BY <1>1, <2>2 DEF SendLate
  <2>4. Level' = Level
    BY <1>1 DEF Level, gpsVars
  <2>5. Settled'
    BY <2>3 DEF Settled
  <2>6. PulseDue'
    <3>1. Drifted(reg - 1, reg - 1)'
      BY <1>3, <1>5 DEF PulseDue
    <3> QED
      BY <2>3, <2>4, <3>1 DEF PulseDue, W
  <2> QED
    BY <1>1, <2>5, <2>6 DEF Tidy, gpsVars
<1>6. CASE DriftDue
  <2>1. PICK k \in 1 .. Len(DriftRegs), v \in Measured : DriftDueOf(k, v)
    BY <1>6 DEF DriftDue
  <2>2. todo = IF k = Len(DriftRegs)
               THEN <<<<"late", W(DriftRegs[k], v)>>, Last>>
               ELSE <<<<"late", W(DriftRegs[k], v)>>>>
    BY <1>1, <2>1 DEF DriftDueOf
  <2>3. /\ Head(todo) = <<"late", W(DriftRegs[k], v)>>
        /\ Tail(todo) = IF k = Len(DriftRegs) THEN <<Last>> ELSE <<>>
    BY <2>2
  <2>4. /\ at' = "written" /\ Write_Data' = W(DriftRegs[k], v)
        /\ todo' = IF k = Len(DriftRegs) THEN <<Last>> ELSE <<>>
    BY <1>1, <2>3 DEF SendLate
  <2>5. Settled'
    BY <2>4 DEF Settled
  <2>6. DriftDueOf(k, v)'
    <3>1. Drifted(k - 1, k)'
      BY <1>1, <1>2, <2>1 DEF DriftDueOf, Drifted, InTime, gpsVars
    <3>2. (fpga[PULSE] = Level)'
      BY <1>1, <1>2, <2>1 DEF DriftDueOf, Level, gpsVars
    <3> QED
      BY <1>1, <2>1, <2>4, <3>1, <3>2 DEF DriftDueOf, gpsVars
  <2>7. DriftDue'
    BY <2>6 DEF DriftDue
  <2> QED
    BY <1>1, <2>5, <2>7 DEF Tidy, gpsVars
<1>7. CASE DriftEnds
  <2>1. todo = <<Last>>
    BY <1>7 DEF DriftEnds
  <2>2. Head(todo)[1] = "driftsent"
    BY <2>1 DEF Last
  <2> QED
    BY <1>1, <2>2
<1> QED
  BY <1>4, <1>5, <1>6, <1>7 DEF Tidy

\* The first request of todo that belongs to the pulse or the drift.
LEMMA HeadWhenDue ==
    ASSUME Tidy, at = "free", todo # <<>>
    PROVE  /\ Head(todo)[1] \in {"judge", "good"} => Idle
           /\ Head(todo)[1] = "driftsent" => DriftEnds
<1>1. CASE Idle
  BY <1>1, CalmHead DEF Idle
<1>2. CASE PulseDue
  <2>1. todo = <<<<"late", W(PULSE, Level)>>>>
    BY <1>2 DEF PulseDue
  <2>2. Head(todo)[1] = "late"
    BY <2>1
  <2> QED
    BY <2>2
<1>3. CASE DriftDue
  <2>1. PICK k \in 1 .. Len(DriftRegs), v \in Measured : DriftDueOf(k, v)
    BY <1>3 DEF DriftDue
  <2>2. todo = IF k = Len(DriftRegs)
               THEN <<<<"late", W(DriftRegs[k], v)>>, Last>>
               ELSE <<<<"late", W(DriftRegs[k], v)>>>>
    BY <2>1 DEF DriftDueOf
  <2>3. Head(todo)[1] = "late"
    BY <2>2
  <2> QED
    BY <2>3
<1>4. CASE DriftEnds
  <2>1. Head(todo)[1] = "driftsent"
    BY <1>4 DEF DriftEnds, Last
  <2> QED
    BY <1>4, <2>1
<1> QED
  BY <1>1, <1>2, <1>3, <1>4 DEF Tidy

LEMMA AfterwardsTidy ==
    ASSUME Tidy, Judge \/ PowerOnDone
    PROVE  Tidy'
<1>1. /\ at = "free" /\ todo # <<>> /\ todo' = Tail(todo)
      /\ Head(todo)[1] \in {"judge", "good"}
      /\ UNCHANGED <<linkVars, slot, received, gpsVars>>
  BY DEF Judge, PowerOnDone, Do, Next1, NextRequest
<1>2. Idle
  BY <1>1, HeadWhenDue
<1>3. todo' \in Seq(Calm)
  BY <1>1, <1>2, CalmHead DEF Idle
<1>4. Idle'
  BY <1>1, <1>2, <1>3, IdleStays DEF linkVars, gpsVars, InTime
<1>5. Settled'
  BY <1>1 DEF Tidy, Settled, linkVars
<1> QED
  BY <1>1, <1>4, <1>5 DEF Tidy, gpsVars

\* The flag is cleared when all registers hold one drift.
LEMMA DriftSentTidy ==
    ASSUME Tidy, DriftSent
    PROVE  Tidy'
<1>1. /\ at = "free" /\ todo # <<>> /\ todo' = Tail(todo) /\ Head(todo)[1] = "driftsent"
      /\ Send_Dirft_Flag' = FALSE /\ reg' = 1
      /\ UNCHANGED <<linkVars, slot, received, Reset_Pulse_Flag, held>>
  BY DEF DriftSent, Do, Next1, NextRequest, RegAfterLast
<1>2. DriftEnds
  BY <1>1, HeadWhenDue
<1>3. todo' \in Seq(Calm)
  <2>1. todo' = <<>>
    BY <1>1, <1>2 DEF DriftEnds
  <2> QED
    BY <2>1
<1>4. Drifted(reg - 1, reg - 1)'
  <2>1. ASSUME ~held, NEW i \in DOMAIN DriftRegs
        PROVE  fpga[DriftRegs[i]] = drift
    <3>1. i \in 1 .. Len(DriftRegs)
      BY OrdersAssumption
    <3> QED
      BY <1>2, <2>1, <3>1 DEF DriftEnds, Drifted
  <2> QED
    BY <1>1, <2>1 DEF Drifted, linkVars
<1>5. (fpga[PULSE] = Level)'
  BY <1>1, <1>2 DEF DriftEnds, Level, linkVars
<1>6. Idle'
  BY <1>1, <1>3, <1>4, <1>5 DEF Idle, linkVars
<1>7. Settled'
  BY <1>1 DEF Tidy, Settled, linkVars
<1> QED
  BY <1>1, <1>6, <1>7 DEF Tidy

\* A command that does not write the guarded registers leaves them alone, and one
\* of the loop's own sets its register and no other.
LEMMA ObeyedElsewhere ==
    ASSUME LinkTypes, NEW cmd \in Commands, NEW a \in Guarded,
           Writes(cmd) => cmd[2] # a \/ fpga[a] = cmd[3]
    PROVE  Obeyed(cmd)[a] = fpga[a]
<1>1. a \in Writable
  BY SecondsAssumption, OrdersAssumption DEF Guarded
<1>2. PICK op \in {Read_Flag, Write_Flag}, b \in Addr, d \in Data : cmd = <<op, b, d>>
  BY DEF Commands
<1>3. CASE op = Write_Flag /\ b = a
  BY <1>1, <1>2, <1>3 DEF Writes, Obeyed, LinkTypes
<1>4. CASE ~(op = Write_Flag /\ b = a)
  BY <1>1, <1>2, <1>4 DEF Obeyed, LinkTypes
<1> QED
  BY <1>3, <1>4

LEMMA ObeyedWrite ==
    ASSUME LinkTypes, NEW a \in Writable, NEW d \in Data
    PROVE  Obeyed(W(a, d))[a] = d
BY DEF Obeyed, W, LinkTypes

LEMMA PulseIsNoDrift ==
    /\ PULSE \in Guarded /\ PULSE \in Writable
    /\ \A i \in DOMAIN DriftRegs :
          /\ DriftRegs[i] \in Guarded /\ DriftRegs[i] \in Writable
          /\ DriftRegs[i] # PULSE
    /\ DOMAIN DriftRegs = 1 .. Len(DriftRegs) /\ Len(DriftRegs) \in Nat
BY SecondsAssumption, OrdersAssumption DEF Guarded

\* The transfer is started on an undisturbed line.
LEMMA StartTidy ==
    ASSUME IInv, Tidy, StartTransfer, trouble = 0, trouble' = 0
    PROVE  Tidy'
<1> DEFINE cmd == IF at = "waiting" THEN arg ELSE Write_Data
<1>1. /\ at \in {"selected", "written", "waiting"}
      /\ cmd \in Commands /\ LinkTypes
      /\ Write_Data' = cmd /\ at' = "free"
      /\ at = "written" => fpga' = Obeyed(cmd)
      /\ fpga' \in {fpga, Obeyed(cmd)}
  <2>1. at # "free"
    BY DEF StartTransfer, Start, MayStart
  <2>2. LinkTypes
    BY DEF IInv, LinkInv
  <2>3. /\ Write_Data' = cmd /\ at' = "free"
        /\ at = "written" => nss' = FALSE
        /\ Transfer(cmd, ~nss')
    BY DEF StartTransfer, Start
  <2>4. fpga' = IF ~nss' THEN Obeyed(cmd) ELSE fpga
    BY <2>3 DEF Transfer
  <2> QED
    BY <2>1, <2>2, <2>3, <2>4 DEF LinkTypes
<1>2. UNCHANGED <<todo, slot, received, gpsVars>>
  BY DEF StartTransfer, LoopStays, loopVars
<1>3. CASE Idle
  <2>1. Writes(cmd) => fpga[cmd[2]] = cmd[3]
    BY <1>1, <1>3 DEF Tidy, Settled, Idle
  <2>2. \A a \in Guarded : fpga'[a] = fpga[a]
    BY <1>1, <2>1, ObeyedElsewhere
  <2>3. Settled'
    <3>1. Writes(cmd) => fpga'[cmd[2]] = cmd[3]
      BY <2>1, <2>2 DEF Writes
    <3> HIDE DEF cmd
    <3> QED
      BY <1>1, <3>1 DEF Settled
  <2>4. Drifted(reg - 1, reg - 1)'
    <3>1. Drifted(reg - 1, reg - 1)
      BY <1>3 DEF Idle
    <3>2. \A i \in DOMAIN DriftRegs : fpga'[DriftRegs[i]] = fpga[DriftRegs[i]]
      BY <2>2, PulseIsNoDrift
    <3>3. \A i \in 1 .. reg - 1 : i \in DOMAIN DriftRegs
      BY PulseIsNoDrift DEF IInv, LoopTypes
    <3> QED
      BY <1>2, <3>1, <3>2, <3>3 DEF Drifted, InTime, gpsVars
  <2>5. (fpga[PULSE] = Level)'
    BY <1>2, <1>3, <2>2, PulseIsNoDrift DEF Idle, Level, gpsVars
  <2>6. Idle'
    BY <1>1, <1>2, <1>3, <2>4, <2>5 DEF Idle
  <2> QED
    BY <1>2, <2>3, <2>6 DEF Tidy, gpsVars
<1>4. CASE PulseDue
  <2>1. at = "written" /\ Write_Data = W(PULSE, Level) /\ todo = <<>>
    BY <1>1, <1>4 DEF PulseDue
  <2>2. cmd = W(PULSE, Level) /\ fpga' = Obeyed(W(PULSE, Level)) /\ Level \in Data
    BY <1>1, <2>1, CommandTypes DEF Level
  <2>3. fpga'[PULSE] = Level
    BY <1>1, <2>2, ObeyedWrite, PulseIsNoDrift
  <2>4. \A i \in DOMAIN DriftRegs : fpga'[DriftRegs[i]] = fpga[DriftRegs[i]]
    <3>1. W(PULSE, Level)[2] = PULSE
      BY DEF W
    <3> QED
      BY <1>1, <2>2, <3>1, ObeyedElsewhere, PulseIsNoDrift
  <2>5. Level' = Level
    BY <1>2 DEF Level, gpsVars
  <2>6. Settled'
    <3>1. Write_Data' = W(PULSE, Level)
      BY <1>1, <2>2
    <3>2. fpga'[Write_Data'[2]] = Write_Data'[3]
      BY <2>3, <3>1 DEF W
    <3> QED
      BY <1>1, <3>2 DEF Settled
  <2>7. Drifted(reg - 1, reg - 1)'
    <3>1. Drifted(reg - 1, reg - 1)
      BY <1>4 DEF PulseDue
    <3>2. \A i \in 1 .. reg - 1 : i \in DOMAIN DriftRegs
      BY PulseIsNoDrift DEF IInv, LoopTypes
    <3> QED
      BY <1>2, <2>4, <3>1, <3>2 DEF Drifted, InTime, gpsVars
  <2>8. Idle'
    <3>1. <<>> \in Seq(Calm)
      OBVIOUS
    <3> QED
      BY <1>1, <1>2, <2>1, <2>3, <2>5, <2>7, <3>1 DEF Idle
  <2> QED
    BY <1>2, <2>6, <2>8 DEF Tidy, gpsVars
<1>5. CASE DriftDue
  <2>1. PICK k \in 1 .. Len(DriftRegs), v \in Measured : DriftDueOf(k, v)
    BY <1>5 DEF DriftDue
  <2>2. /\ at = "written" /\ Write_Data = W(DriftRegs[k], v)
        /\ todo = IF k = Len(DriftRegs) THEN <<Last>> ELSE <<>>
    BY <1>1, <2>1 DEF DriftDueOf
  <2>3. cmd = W(DriftRegs[k], v) /\ fpga' = Obeyed(W(DriftRegs[k], v)) /\ v \in Data
    BY <1>1, <2>2, OrdersAssumption
  <2>4. W(DriftRegs[k], v)[2] = DriftRegs[k] /\ W(DriftRegs[k], v)[3] = v
    BY DEF W
  <2>5. fpga'[DriftRegs[k]] = v
    BY <1>1, <2>3, ObeyedWrite, PulseIsNoDrift
  <2>6. fpga'[PULSE] = fpga[PULSE]
    BY <1>1, <2>3, <2>4, ObeyedElsewhere, PulseIsNoDrift
  <2>7. \A i \in DOMAIN DriftRegs : i # k => fpga'[DriftRegs[i]] = fpga[DriftRegs[i]]
    <3>1. \A i \in DOMAIN DriftRegs : i # k => DriftRegs[i] # DriftRegs[k]
      BY SecondsAssumption, PulseIsNoDrift
    <3> QED
      BY <1>1, <2>3, <2>4, <3>1, ObeyedElsewhere, PulseIsNoDrift
  <2>8. Settled'
    <3>1. Write_Data' = W(DriftRegs[k], v)
      BY <1>1, <2>3
    <3>2. fpga'[Write_Data'[2]] = Write_Data'[3]
      BY <2>4, <2>5, <3>1
    <3> QED
      BY <1>1, <3>2 DEF Settled
  <2>9. (fpga[PULSE] = Level)'
    BY <1>2, <2>1, <2>6 DEF DriftDueOf, Level, gpsVars
  <2>10. Drifted(k, k)'
    <3> SUFFICES ASSUME ~held
                 PROVE  /\ \A i \in 1 .. k : fpga'[DriftRegs[i]] = drift
                        /\ InTime(k)'
      BY <1>2, <2>1 DEF Drifted, DriftDueOf, gpsVars
    <3>1. /\ v = drift /\ InTime(k)
          /\ \A i \in 1 .. k - 1 : fpga[DriftRegs[i]] = drift
      BY <2>1 DEF DriftDueOf, Drifted
    <3>2. \A i \in 1 .. k : i = k \/ (i \in 1 .. k - 1 /\ i \in DOMAIN DriftRegs /\ i # k)
      BY PulseIsNoDrift
    <3> QED
      BY <1>2, <2>5, <2>7, <3>1, <3>2 DEF InTime, gpsVars
  <2>11. CASE k = Len(DriftRegs)
    <3>1. DriftEnds'
      BY <1>1, <1>2, <2>1, <2>2, <2>9, <2>10, <2>11 DEF DriftEnds, DriftDueOf, Last, gpsVars
    <3> QED
      BY <1>2, <2>8, <3>1 DEF Tidy, gpsVars
  <2>12. CASE k # Len(DriftRegs)
    <3>0. reg = IF k = Len(DriftRegs) THEN k ELSE k + 1
      BY <2>1 DEF DriftDueOf
    <3>1. reg' = k + 1 /\ todo' = <<>>
      BY <1>2, <2>2, <2>12, <3>0 DEF gpsVars
    <3>2. reg' - 1 = k
      <4>1. k \in Nat
        BY PulseIsNoDrift
      <4> QED
        BY <3>1, <4>1
    <3>3. Drifted(reg - 1, reg - 1)'
      BY <2>10, <3>2 DEF Drifted, InTime
    <3>4. <<>> \in Seq(Calm)
      OBVIOUS
    <3>5. Idle'
      BY <1>1, <2>9, <3>1, <3>3, <3>4 DEF Idle
    <3> QED
      BY <1>2, <2>8, <3>5 DEF Tidy, gpsVars
  <2> QED
    BY <2>11, <2>12
<1>6. CASE DriftEnds
  BY <1>1, <1>6 DEF DriftEnds
<1> QED
  BY <1>3, <1>4, <1>5, <1>6 DEF Tidy

\* What changes nothing of the loop, the pulse and the drift.
LEMMA QuietTidy ==
    ASSUME Tidy, UNCHANGED <<Write_Data, at, arg, fpga, todo, slot, received, gpsVars>>
    PROVE  Tidy'
<1>1. UNCHANGED <<Reset_Pulse_Flag, Send_Dirft_Flag, reg, drift, held, pulseAge>>
  BY DEF gpsVars
<1>2. Settled'
  BY DEF Tidy, Settled
<1>3. Idle => Idle'
  BY <1>1 DEF Idle, Level, Drifted, InTime
<1>4. PulseDue => PulseDue'
  BY <1>1 DEF PulseDue, Level, Drifted, InTime
<1>5. DriftDue => DriftDue'
  <2>1. ASSUME NEW k \in 1 .. Len(DriftRegs), NEW v \in Measured, DriftDueOf(k, v)
        PROVE  DriftDueOf(k, v)'
    BY <1>1, <2>1 DEF DriftDueOf, Level, Drifted, InTime
  <2> QED
    BY <2>1 DEF DriftDue
<1>6. DriftEnds => DriftEnds'
  BY <1>1 DEF DriftEnds, Level, Drifted, InTime
<1> QED
  BY <1>1, <1>2, <1>3, <1>4, <1>5, <1>6 DEF Tidy

LEMMA TransferEndsTidy ==
    ASSUME Tidy, TransferEnds
    PROVE  Tidy'
<1>1. UNCHANGED <<Write_Data, at, arg, fpga, todo, slot, received, gpsVars>>
  BY DEF TransferEnds, SPI4_TxRxCpltCallback, LoopStays, loopVars
<1> QED
  BY <1>1, QuietTidy

\* The GPS is slower than the sending: a pulse finds the last drift sent, or held
\* up by an error.
LEMMA PulseTidy ==
    ASSUME IInv, Tidy, GPS_PPS_Interrupt
    PROVE  Tidy'
<1>1. /\ pulseAge = PULSE_GAP /\ pulseAge' = 0 /\ Send_Dirft_Flag' = TRUE
      /\ held' = (held /\ Send_Dirft_Flag)
      /\ UNCHANGED <<linkVars, Reset_Pulse_Flag, reg, todo, slot, received>>
  BY DEF GPS_PPS_Interrupt, LoopStays, loopVars
<1>n. /\ PULSE_GAP \in Nat /\ Len(DriftRegs) \in Nat /\ Len(DriftRegs) < PULSE_GAP
      /\ reg \in 1 .. Len(DriftRegs)
      /\ held \in BOOLEAN /\ Send_Dirft_Flag \in BOOLEAN
  BY OrdersAssumption, SecondsAssumption DEF IInv, LoopTypes
<1>2. Settled'
  BY <1>1 DEF Tidy, Settled, linkVars
<1>3. Level' = Level
  BY <1>1 DEF Level
<1>4. ASSUME Send_Dirft_Flag PROVE held
  <2> SUFFICES ASSUME ~held PROVE FALSE
    OBVIOUS
  <2>1. CASE Idle \/ PulseDue
    <3>1. InTime(reg - 1)
      BY <1>4, <2>1 DEF Idle, PulseDue, Drifted
    <3> QED
      BY <1>1, <1>n, <3>1 DEF InTime
  <2>2. CASE DriftDue
    <3>1. PICK k \in 1 .. Len(DriftRegs), v \in Measured : DriftDueOf(k, v)
      BY <2>2 DEF DriftDue
    <3>2. InTime(k) /\ slot = 3
      BY <1>4, <3>1 DEF DriftDueOf, Drifted
    <3> QED
      BY <1>1, <1>n, <3>2 DEF InTime
  <2>3. CASE DriftEnds
    <3>1. InTime(Len(DriftRegs)) /\ slot = 3
      BY <1>4, <2>3 DEF DriftEnds, Drifted
    <3> QED
      BY <1>1, <1>n, <3>1 DEF InTime
  <2> QED
    BY <2>1, <2>2, <2>3 DEF Tidy
<1>5. CASE Send_Dirft_Flag
  <2>1. held' = TRUE
    BY <1>1, <1>4, <1>5
  <2>2. \A s, n : Drifted(s, n)'
    BY <2>1 DEF Drifted
  <2>3. Idle => Idle'
    BY <1>1, <1>3, <2>2 DEF Idle, linkVars
  <2>4. PulseDue => PulseDue'
    BY <1>1, <1>3, <2>2 DEF PulseDue, linkVars
  <2>5. DriftDue => DriftDue'
    <3>1. ASSUME NEW k \in 1 .. Len(DriftRegs), NEW v \in Measured, DriftDueOf(k, v)
          PROVE  DriftDueOf(k, v)'
      BY <1>1, <1>3, <2>1, <2>2, <3>1 DEF DriftDueOf, linkVars
    <3> QED
      BY <3>1 DEF DriftDue
  <2>6. DriftEnds => DriftEnds'
    BY <1>1, <1>3, <2>2 DEF DriftEnds, linkVars
  <2> QED
    BY <1>1, <1>2, <2>3, <2>4, <2>5, <2>6 DEF Tidy
<1>6. CASE ~Send_Dirft_Flag
  <2>1. Idle \/ PulseDue
    BY <1>6 DEF Tidy, DriftDue, DriftDueOf, DriftEnds
  <2>2. reg = 1
    BY <1>6 DEF Tidy
  <2>3. Drifted(reg - 1, reg - 1)'
    BY <1>1, <2>2 DEF Drifted, InTime
  <2>4. Idle => Idle'
    BY <1>1, <1>3, <2>3 DEF Idle, linkVars
  <2>5. PulseDue => PulseDue'
    BY <1>1, <1>3, <2>3 DEF PulseDue, linkVars
  <2> QED
    BY <1>1, <1>2, <2>1, <2>4, <2>5 DEF Tidy
<1> QED
  BY <1>5, <1>6

-----------------------------------------------------------------------------
\* The line is disturbed more often, never less.
LEMMA TroubleStays ==
    ASSUME IInv, [FpgaNext]_fpgaVars, trouble' = 0
    PROVE  trouble = 0
<1>1. trouble \in Nat
  BY LinkAssumption DEF IInv, LinkInv, LinkTypes
<1>2. trouble' = trouble \/ trouble' = trouble + 1
  <2>1. CASE Command \/ Tick
    BY <2>1 DEF Command, Tick, Send_GPS_info, Send_Dirft, Power_On_Read_Reg_Once, Poll, Overwrite,
       linkVars
  <2>2. CASE BridgeBytes
    BY <2>2 DEF BridgeBytes, Test_Send_To_Fpga, Send, Split
  <2>3. CASE BridgeRetry
    BY <2>3 DEF BridgeRetry, Retry_SPI4, linkVars
  <2>4. CASE Continue
    BY <2>4 DEF Continue, Request, Send, SendLate, Get, Judge, PowerOnDone, DriftSent, linkVars
  <2>5. CASE StartTransfer
    BY <2>5 DEF StartTransfer, Start, Transfer
  <2>6. CASE TransferEnds \/ GPS_PPS_Interrupt
    BY <2>6 DEF TransferEnds, SPI4_TxRxCpltCallback, GPS_PPS_Interrupt, linkVars
  <2>7. CASE UNCHANGED fpgaVars
    BY <2>7 DEF fpgaVars, linkVars
  <2> QED
    BY <2>1, <2>2, <2>3, <2>4, <2>5, <2>6, <2>7 DEF FpgaNext, Pass
<1> QED
  BY <1>1, <1>2

\* Every step keeps the second invariant.
LEMMA StepTidy ==
    ASSUME NobodyElseWrites, IInv, GuardInv, [FpgaNext]_fpgaVars
    PROVE  GuardInv'
<1> SUFFICES ASSUME trouble' = 0 PROVE Tidy'
  BY DEF GuardInv, Undisturbed
<1>1. trouble = 0 /\ Tidy
  BY TroubleStays DEF GuardInv, Undisturbed
<1>2. CASE Pass
  BY <1>1, <1>2, CommandTidy, BridgeBytesTidy, BridgeRetryTidy, GpsSlotTidy, DriftSlotTidy,
     PowerOnSlotTidy, PollTidy DEF Pass, Tick
<1>3. CASE Continue
  BY <1>1, <1>3, RequestTidy, AfterwardsTidy, DriftSentTidy DEF Continue
<1>4. CASE StartTransfer \/ TransferEnds \/ GPS_PPS_Interrupt
  BY <1>1, <1>4, StartTidy, TransferEndsTidy, PulseTidy
<1>5. CASE UNCHANGED fpgaVars
  <2>1. UNCHANGED <<Write_Data, at, arg, fpga, todo, slot, received, gpsVars>>
    BY <1>5 DEF fpgaVars, linkVars, loopVars
  <2> QED
    BY <1>1, <2>1, QuietTidy
<1> QED
  BY <1>2, <1>3, <1>4, <1>5 DEF FpgaNext

\* While nobody else writes their registers, the pulse and the drift are on the FPGA
\* or on their way to it, whichever requests come between.
THEOREM GuardInvariance ==
    ASSUME NobodyElseWrites
    PROVE  FpgaSpec => []GuardInv
<1>1. FpgaInit => GuardInv
  BY TidyAtFirst DEF GuardInv
<1>2. IInv /\ GuardInv /\ [FpgaNext]_fpgaVars => GuardInv'
  BY StepTidy
<1> QED
  BY <1>1, <1>2, Invariance, PTL DEF FpgaSpec

\* The level of the second pulse that Send_GPS_info remembers is the one at the FPGA
\* whenever the link is at rest: no edge is lost or made twice.
THEOREM PulseCorrect ==
    ASSUME NobodyElseWrites
    PROVE  FpgaSpec => []PulseTracked
<1>1. IInv /\ GuardInv => PulseTracked
  BY GuardInvTracks DEF GuardInv, PulseTracked
<1> QED
  BY <1>1, GuardInvariance, Invariance, PTL

\* When Send_Dirft is done with a measurement the FPGA holds the bytes of that one in
\* all of its drift registers, unless an error held the sending up.
THEOREM DriftCorrect ==
    ASSUME NobodyElseWrites
    PROVE  FpgaSpec => []DriftWhole
<1>1. IInv /\ GuardInv => DriftWhole
  BY GuardInvTracks DEF GuardInv, DriftWhole
<1> QED
  BY <1>1, GuardInvariance, Invariance, PTL
=============================================================================
