-------------------------------- MODULE Spi4 --------------------------------
(***************************************************************************)
(* The link to the FPGA, driver/spi/spi4.c.  A transfer sends the three    *)
(* bytes of Write_Data (operation, register, value) and then reads three   *)
(* bytes back.  Requests are made by the main loop only; the completion    *)
(* interrupt ends a transfer at any later moment.  The requests differ in  *)
(* the order of three things: writing Write_Data, selecting the chip (NSS  *)
(* low) and waiting for spi_lock.                                          *)
(*                                                                         *)
(* The FPGA is external: it obeys and answers a command if the chip was    *)
(* selected when the transfer began.  A transfer to a chip that is not     *)
(* selected, or that the line disturbs, reads bytes that name no register. *)
(***************************************************************************)
EXTENDS Naturals, Sequences

CONSTANTS
    Addr,           \* register addresses
    Data,           \* register values
    Cached,         \* registers whose last value the driver keeps
    Values,         \* what a register of the FPGA can hold, for the registers of the model
    Reset,          \* what the registers the FPGA lets write hold at power-on
    LAST,           \* 0xff: reading it reports that the FPGA is good
    NONE,           \* no transfer
    MaxTrouble      \* bound: transfers the line may disturb, and bridge commands in parts

Read_Flag == "read"
Write_Flag == "write"
Registers == DOMAIN Values
Writable == DOMAIN Reset    \* the others, 0x80 and above, change on their own
Commands == {Read_Flag, Write_Flag} \X Addr \X Data
NoReply == <<"none", "none", "none">>
NoCommand == <<Read_Flag, LAST, "0x00">>

ASSUME LinkAssumption ==
    /\ Cached \subseteq Registers /\ Registers \subseteq Addr
    /\ \A a \in Registers : Values[a] \subseteq Data
    /\ Writable \subseteq Registers /\ Cached \cap Writable = {}
    /\ Reset \in [Writable -> Data]
    /\ \A a \in Writable : Reset[a] \in Values[a]
    /\ LAST \in Addr /\ "none" \notin Addr
    /\ "0x00" \in Data /\ MaxTrouble \in Nat
    /\ NONE \notin [cmd : Commands, heard : BOOLEAN, reply : Commands \cup {NoReply}]

VARIABLES
    Write_Data,     \* the command, and what an answer is judged by
    transfer,       \* NONE, or the transfer in flight
    spi_lock,       \* taken while a transfer is in flight
    nss,            \* level of the chip select, FALSE is selected
    retry_flag,     \* the last answer did not fit Write_Data
    cached,         \* the values of the registers read last
    at,             \* how far the request being made has come
    arg,            \* the command of a request that has not written it yet
    fpga,           \* the FPGA's registers
    trouble         \* how often that has happened

linkVars == <<Write_Data, transfer, spi_lock, nss, retry_flag, cached, at, arg, fpga, trouble>>

LinkInit ==
    /\ Write_Data = NoCommand
    /\ transfer = NONE
    /\ spi_lock = FALSE
    /\ nss = TRUE
    /\ retry_flag = FALSE
    /\ cached = [a \in Cached |-> "0x00"]
    /\ at = "free"
    /\ arg = NoCommand
    /\ fpga = Reset
    /\ trouble = 0

-----------------------------------------------------------------------------
\* The requests, up to their wait for spi_lock.

\* Send_To_Fpga, Send_Src_Mode, Send_ClockSync_Mode, Send_SyncType_Mode and
\* Send_SyncFrame_Mode: write and select first, wait then.
Send(cmd) ==
    /\ at = "free"
    /\ Write_Data' = cmd
    /\ nss' = FALSE
    /\ at' = "selected"
    /\ UNCHANGED <<transfer, spi_lock, retry_flag, cached, arg, fpga, trouble>>

\* Mutant: the chip is selected before the wait here, too.
SendLateSelectEarly(cmd) ==
    /\ at = "free"
    /\ Write_Data' = cmd
    /\ nss' = FALSE
    /\ at' = "selected"
    /\ UNCHANGED <<transfer, spi_lock, retry_flag, cached, arg, fpga, trouble>>

\* Send_GPS_..., Send_Format_..., Send_Test_Pattern: write, wait, select.
SendLate(cmd) ==
    /\ at = "free"
    /\ Write_Data' = cmd
    /\ at' = "written"
    /\ UNCHANGED <<transfer, spi_lock, nss, retry_flag, cached, arg, fpga, trouble>>

\* Get_Reg_... and Get_Jit_...: wait, and only then Send_To_Fpga.
Get(addr) ==
    /\ at = "free"
    /\ arg' = <<Read_Flag, addr, "0x00">>
    /\ at' = "waiting"
    /\ UNCHANGED <<Write_Data, transfer, spi_lock, nss, retry_flag, cached, fpga, trouble>>

\* Retry_SPI4: like Get, with whatever Write_Data holds now.
Retry_SPI4 ==
    /\ at = "free"
    /\ retry_flag' = FALSE
    /\ arg' = Write_Data
    /\ at' = "waiting"
    /\ UNCHANGED <<Write_Data, transfer, spi_lock, nss, cached, fpga, trouble>>

\* Test_Send_To_Fpga after the bridge has put bytes into Write_Data.
Test_Send_To_Fpga(cmd) == Send(cmd)

\* Power_On_Read_Reg_Once writes Write_Data without a request.
Overwrite(cmd) ==
    /\ at = "free"
    /\ Write_Data' = cmd
    /\ UNCHANGED <<transfer, spi_lock, nss, retry_flag, cached, at, arg, fpga, trouble>>

\* What the FPGA does with a command, and what it may answer.
Obeyed(cmd) ==
    IF cmd[1] = Write_Flag /\ cmd[2] \in Writable
    THEN [fpga EXCEPT ![cmd[2]] = cmd[3]] ELSE fpga
Answers(cmd) ==
    IF cmd[1] = Write_Flag \/ cmd[2] \notin Registers THEN {cmd}
    ELSE {<<Read_Flag, cmd[2], v>> :
             v \in IF cmd[2] \in Writable THEN {fpga[cmd[2]]} ELSE Values[cmd[2]]}

\* The transfer of cmd begins: the command goes out and its answer is clocked
\* in.  Disturbed, it may be obeyed or not and reads nothing of use.
Transfer(cmd, selected) ==
    \/ /\ \E reply \in IF selected THEN Answers(cmd) ELSE {NoReply} :
            transfer' = [cmd |-> cmd, heard |-> selected, reply |-> reply]
       /\ fpga' = IF selected THEN Obeyed(cmd) ELSE fpga
       /\ trouble' = trouble
    \/ /\ trouble < MaxTrouble /\ selected
       /\ trouble' = trouble + 1
       /\ \E heard \in BOOLEAN :
            /\ transfer' = [cmd |-> cmd, heard |-> heard, reply |-> NoReply]
            /\ fpga' = IF heard THEN Obeyed(cmd) ELSE fpga

\* Mutant: no wait for the transfer in flight.
MayStartAnyway == at # "free"

MayStart == at # "free" /\ ~spi_lock

\* The end of the wait: the lock is taken and the transfer started.
Start ==
    /\ MayStart
    /\ LET cmd == IF at = "waiting" THEN arg ELSE Write_Data
           select == at \in {"waiting", "written"}
       IN  /\ Write_Data' = cmd
           /\ nss' = IF select THEN FALSE ELSE nss
           /\ Transfer(cmd, ~nss')
    /\ spi_lock' = TRUE
    /\ at' = "free"
    /\ arg' = NoCommand
    /\ UNCHANGED <<retry_flag, cached>>

-----------------------------------------------------------------------------
\* Mutant: an answer is kept whatever the operation was.
AcceptedAnyOperation ==
    IF transfer.reply[2] \in Cached
    THEN [cached EXCEPT ![transfer.reply[2]] = transfer.reply[3]] ELSE cached

\* An accepted answer to a read is kept under the register it names.
Accepted ==
    IF transfer.reply[1] = Read_Flag /\ transfer.reply[2] \in Cached
    THEN [cached EXCEPT ![transfer.reply[2]] = transfer.reply[3]] ELSE cached

\* Mutant: a chip that does not answer is taken for one that agrees.
FitsSilent == transfer.reply[2] \in {Write_Data[2], "none"}

\* Does the answer name the register of Write_Data (its byte 1)
Fits == Write_Data[2] = transfer.reply[2]

\* SPI4_TxRxCpltCallback, at the priority of the SPI4 interrupt.
SPI4_TxRxCpltCallback ==
    /\ transfer # NONE
    /\ nss' = TRUE
    /\ retry_flag' = ~Fits
    /\ cached' = IF Fits THEN Accepted ELSE cached
    /\ spi_lock' = FALSE
    /\ transfer' = NONE
    /\ UNCHANGED <<Write_Data, at, arg, fpga, trouble>>
=============================================================================
