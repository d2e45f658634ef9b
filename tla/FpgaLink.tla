------------------------------ MODULE FpgaLink ------------------------------
(***************************************************************************)
(* Who talks to the FPGA: the main loop of app/main.c as far as it makes   *)
(* requests of the SPI4 link, the USART2 bridge (driver/usart/uart2.c),    *)
(* the reading of all registers after power-on, and the second pulse and   *)
(* the drift of the GPS (driver/gps_pps/gps_pps.c).                        *)
(*                                                                         *)
(* A pass of the loop is a menu selection, pollint_eth_send, pollint_spi_- *)
(* transmit and, after the 1 ms tick, one slot of Pollint10mSec.  Each can *)
(* have nothing to do, so the handlers are taken in any order, but for the *)
(* slots, which come round in theirs.  A handler that makes several        *)
(* requests puts them into todo, and the loop moves on when todo is done.  *)
(* The SPI4 and EXTI2 interrupts come between any two steps.               *)
(***************************************************************************)
EXTENDS Spi4

CONSTANTS
    Orders,         \* what clients and the menu ask for: <<"fpga", command>>,
                    \* <<"clock", type>> or <<"sync", type>>
    BridgeCommands, \* commands that come over USART2
    ClockTypes,     \* values of the clock type register
    GPS_MODE,       \* the clock type that uses the GPS (menu entry 3)
    PowerOn,        \* the registers Power_On_Read_Reg_Once goes through
    TIMEOUT,        \* slots before it begins (500)
    DriftRegs,      \* the registers of the drift: 0x09 to 0x0c
    Measured,       \* values of the drift, told apart by their measurement
    PULSE_GAP       \* rounds of slots between two pulses of the GPS (100)

VARIABLES
    slot,           \* the next slot of Pollint10mSec that uses the link
    todo,           \* requests the current handler has still to make
    retry_times,    \* a failed command was sent again
    received,       \* the command whose bytes USART2 is delivering, and how many came
    clocktype,      \* the configured clock type
    addr,           \* position of Power_On_Read_Reg_Once
    timeout,        \* its slots of waiting
    status,         \* User_Arr[0x11]: "good", "error" or "init"
    Send_Sec_Plus_Flag, Reset_Pulse_Flag,
    drift,          \* config_rw9_num .. config_rwc_num
    Send_Dirft_Flag,
    reg,            \* the drift register Send_Dirft writes next
    pulseAge,       \* rounds since the last pulse
    held,           \* history: an error held up the sending of the last drift
    lastSet         \* history: what was configured last, the clock type or the sync type

loopVars == <<slot, todo, retry_times, received>>
powerVars == <<addr, timeout>>
gpsVars == <<Send_Sec_Plus_Flag, Reset_Pulse_Flag, drift, Send_Dirft_Flag, reg, pulseAge, held>>
fpgaVars == <<linkVars, loopVars, clocktype, powerVars, status, gpsVars, lastSet>>

PULSE == "0x0f"
CLOCK == "0x0d"
SYNC == "0x06"
Slots == <<"gps", "drift", "poweron", "poll">>

\* The registers the loop names exist, and what is asked for are commands.
ASSUME OrdersAssumption ==
    /\ Orders \subseteq ({"fpga"} \X Commands) \cup ({"clock"} \X ClockTypes) \cup ({"sync"} \X Data)
    /\ BridgeCommands \subseteq Commands
    /\ ClockTypes \cup Measured \cup {"0x80"} \subseteq Data
    /\ {CLOCK, SYNC, PULSE, "0x82", "0xb9"} \subseteq Addr
    /\ PowerOn \in Seq(Addr)
    /\ DriftRegs \in Seq(Writable) /\ DriftRegs # <<>> /\ Reset[DriftRegs[1]] \in Measured
    /\ TIMEOUT \in Nat /\ PULSE_GAP \in Nat

\* The registers of the pulse and of the drift are registers of their own, the
\* drift is the same in all of its registers at power-on, and the GPS leaves the
\* slots time to send all of them (four, in a hundred rounds).
ASSUME SecondsAssumption ==
    /\ PULSE \in Writable /\ Reset[PULSE] = "0x00"
    /\ \A i \in DOMAIN DriftRegs :
          DriftRegs[i] \notin {PULSE, CLOCK, SYNC} /\ Reset[DriftRegs[i]] = Reset[DriftRegs[1]]
    /\ \A i, j \in DOMAIN DriftRegs : DriftRegs[i] = DriftRegs[j] => i = j
    /\ Len(DriftRegs) < PULSE_GAP

W(a, d) == <<Write_Flag, a, d>>
R(a) == <<Read_Flag, a, "0x00">>

FpgaInit ==
    /\ LinkInit
    /\ slot = 1 /\ todo = <<>>
    /\ retry_times = 0
    /\ received = <<NoCommand, 0>>
    /\ clocktype \in ClockTypes
    /\ addr = 0 /\ timeout = 0
    /\ status = "good"
    /\ Send_Sec_Plus_Flag = FALSE /\ Reset_Pulse_Flag = FALSE
    /\ drift = Reset[DriftRegs[1]]
    /\ Send_Dirft_Flag = FALSE
    /\ reg = 1
    /\ pulseAge = 0
    /\ held = FALSE /\ lastSet = "none"

-----------------------------------------------------------------------------
\* The requests of todo, one after the other, with what follows them.

Free == at = "free" /\ todo = <<>>

\* Mutant: a handler repeats its request while the last answer did not fit.
NextRequestRepeating == IF retry_flag THEN todo ELSE Tail(todo)

NextRequest == Tail(todo)

Next1 == todo' = NextRequest

Do(kind) == at = "free" /\ todo # <<>> /\ Head(todo)[1] = kind

Request ==
    /\ \/ Do("send") /\ Send(Head(todo)[2])
       \/ Do("late") /\ SendLate(Head(todo)[2])
       \/ Do("get") /\ Get(Head(todo)[2])
    /\ Next1
    /\ UNCHANGED <<slot, retry_times, received, clocktype, powerVars, status, gpsVars, lastSet>>

\* pollint_Reg_0x82: the status from the value read last, not the one asked for.
Judge ==
    /\ Do("judge") /\ Next1
    /\ status' = IF cached["0x82"] = "good" THEN "good" ELSE "error"
    /\ UNCHANGED <<linkVars, slot, retry_times, received, clocktype, powerVars, gpsVars, lastSet>>

\* The end of the reading after power-on: Set_Status(0).
PowerOnDone ==
    /\ Do("good") /\ Next1
    /\ status' = "good"
    /\ UNCHANGED <<linkVars, slot, retry_times, received, clocktype, powerVars, gpsVars, lastSet>>

\* Mutant: the switch of Send_Dirft counts on after its last case.
RegAfterLastCounting == reg + 1

RegAfterLast == 1

\* Send_Dirft after the last register.
DriftSent ==
    /\ Do("driftsent") /\ Next1
    /\ Send_Dirft_Flag' = FALSE
    /\ reg' = RegAfterLast
    /\ UNCHANGED <<linkVars, slot, retry_times, received, clocktype, powerVars, status,
                   Send_Sec_Plus_Flag, Reset_Pulse_Flag, drift, pulseAge, held, lastSet>>

Continue == Request \/ Judge \/ PowerOnDone \/ DriftSent

-----------------------------------------------------------------------------
\* Set_FPGA_Reg_Config for the clock type: each time it is set, the sync type
\* goes back to 0.
ClockRequests(v) == <<<<"send", W(CLOCK, v)>>, <<"send", W(SYNC, "0x00")>>>>

\* A command for the FPGA goes out as it is, a selection as its registers.
OrderRequests(order) ==
    CASE order[1] = "fpga" -> <<<<"send", order[2]>>>>
      [] order[1] = "clock" -> ClockRequests(order[2])
      [] order[1] = "sync" -> <<<<"send", W(SYNC, order[2])>>>>

\* A menu selection, or pollint_eth_send with a client's command.
Command ==
    /\ Free
    /\ \E order \in Orders :
         /\ todo' = OrderRequests(order)
         /\ clocktype' = IF order[1] = "clock" THEN order[2] ELSE clocktype
         /\ lastSet' = IF order[1] = "fpga" THEN lastSet ELSE order[1]
    /\ UNCHANGED <<linkVars, slot, retry_times, received, powerVars, status, gpsVars>>

\* The first bytes of a command that comes in parts count as trouble.
Split(bytes) ==
    /\ Write_Data' = bytes
    /\ IF received[2] = 0 THEN trouble < MaxTrouble /\ trouble' = trouble + 1 ELSE trouble' = trouble
    /\ UNCHANGED <<transfer, spi_lock, nss, retry_flag, cached, at, arg, fpga>>

\* pollint_spi_transmit with n bytes of a command cmd: they go straight into
\* Write_Data, and the third sends what is there.
BridgeBytes ==
    /\ Free
    /\ \E cmd \in BridgeCommands, n \in 1 .. 3 :
         LET filled == received[2] + n
             byte(i) == IF i \in received[2] + 1 .. filled THEN cmd[i] ELSE Write_Data[i]
             bytes == <<byte(1), byte(2), byte(3)>>
         IN  /\ filled <= 3
             /\ received[2] > 0 => received[1] = cmd
             /\ \/ /\ filled = 3
                   /\ received' = <<NoCommand, 0>>
                   /\ Test_Send_To_Fpga(bytes)
                \/ /\ filled < 3
                   /\ received' = <<cmd, filled>>
                   /\ Split(bytes)
    /\ retry_times' = 0
    /\ UNCHANGED <<slot, todo, clocktype, powerVars, status, gpsVars, lastSet>>

\* pollint_spi_transmit without bytes: a failed command is sent again, once
\* until bytes come over USART2.
BridgeRetry ==
    /\ Free
    /\ retry_flag
    /\ IF retry_times = 0 THEN Retry_SPI4 ELSE UNCHANGED linkVars
    /\ retry_times' = 1
    /\ UNCHANGED <<slot, todo, received, clocktype, powerVars, status, gpsVars, lastSet>>

\* The next slot of Pollint10mSec that uses the link.
InSlot(name) ==
    /\ Free
    /\ Slots[slot] = name
    /\ slot' = (slot % Len(Slots)) + 1
    /\ UNCHANGED <<retry_times, received, clocktype, lastSet>>

-----------------------------------------------------------------------------
\* Slot 5: Send_GPS_info, in GPS mode and without an error.
Send_GPS_info ==
    /\ InSlot("gps")
    /\ IF status # "good" \/ clocktype # GPS_MODE
       THEN UNCHANGED <<todo, Send_Sec_Plus_Flag, Reset_Pulse_Flag>>
       ELSE \/ /\ Send_Sec_Plus_Flag
               /\ Send_Sec_Plus_Flag' = FALSE
               /\ Reset_Pulse_Flag' = TRUE
               /\ todo' = <<<<"late", W(PULSE, "0x80")>>>>
            \/ /\ ~Send_Sec_Plus_Flag /\ Reset_Pulse_Flag
               /\ Reset_Pulse_Flag' = FALSE
               /\ todo' = <<<<"late", W(PULSE, "0x00")>>>>
               /\ UNCHANGED Send_Sec_Plus_Flag
            \/ /\ ~Send_Sec_Plus_Flag /\ ~Reset_Pulse_Flag
               /\ UNCHANGED <<todo, Send_Sec_Plus_Flag, Reset_Pulse_Flag>>
    /\ UNCHANGED <<linkVars, powerVars, status, drift, Send_Dirft_Flag, reg, pulseAge, held>>

\* Mutant: a new measurement sends only what is left of the registers.
DriftRequestsShort ==
    IF reg >= Len(DriftRegs) - 1
    THEN <<<<"late", W(DriftRegs[reg], drift)>>, <<"driftsent", NoCommand>>>>
    ELSE <<<<"late", W(DriftRegs[reg], drift)>>>>

\* Send_Dirft: one register per slot, and the flag after the last one.
DriftRequests ==
    IF reg = Len(DriftRegs)
    THEN <<<<"late", W(DriftRegs[reg], drift)>>, <<"driftsent", NoCommand>>>>
    ELSE <<<<"late", W(DriftRegs[reg], drift)>>>>

\* Slot 6: Send_Dirft without an error and with a new drift.
Send_Dirft ==
    /\ InSlot("drift")
    /\ IF status = "good" /\ Send_Dirft_Flag
       THEN /\ todo' = DriftRequests
            /\ reg' = IF reg < Len(DriftRegs) THEN reg + 1 ELSE reg
            /\ held' = held
       ELSE /\ held' = (held \/ Send_Dirft_Flag)
            /\ UNCHANGED <<todo, reg>>
    /\ UNCHANGED <<linkVars, powerVars, status, Send_Sec_Plus_Flag, Reset_Pulse_Flag, drift,
                   Send_Dirft_Flag, pulseAge>>

\* The registers Power_On_Read_Reg_Once writes (through Set_FPGA_Reg_Config)
\* and the ones it reads.
PowerOnRequests(a) ==
    IF a = CLOCK THEN ClockRequests(clocktype) ELSE <<<<"send", R(a)>>>>

\* Slot 9: Power_On_Read_Reg_Once.  Write_Data is written first, whatever
\* follows, and also when the reading has long been over.
Power_On_Read_Reg_Once ==
    /\ InSlot("poweron")
    /\ Overwrite(IF addr < Len(PowerOn) THEN R(PowerOn[addr + 1]) ELSE R("0xb9"))
    /\ IF addr = Len(PowerOn)
       THEN UNCHANGED <<todo, powerVars, status>>
       ELSE \/ /\ timeout < TIMEOUT
               /\ timeout' = timeout + 1
               /\ status' = "init"
               /\ UNCHANGED <<todo, addr>>
            \/ /\ timeout = TIMEOUT
               /\ addr' = addr + 1
               /\ todo' = PowerOnRequests(PowerOn[addr'])
                            \o IF addr' = Len(PowerOn) THEN <<<<"good", NoCommand>>>> ELSE <<>>
               /\ UNCHANGED <<timeout, status>>
    /\ UNCHANGED gpsVars

\* Slot 0: the registers Pollint1Sec and the displays read; a round is over.
Poll ==
    /\ InSlot("poll")
    /\ pulseAge' = IF pulseAge < PULSE_GAP THEN pulseAge + 1 ELSE pulseAge
    /\ \/ UNCHANGED todo
       \/ todo' = <<<<"get", "0x82">>, <<"judge", NoCommand>>>>
    /\ UNCHANGED <<linkVars, powerVars, status, Send_Sec_Plus_Flag, Reset_Pulse_Flag, drift,
                   Send_Dirft_Flag, reg, held>>

Tick == Send_GPS_info \/ Send_Dirft \/ Power_On_Read_Reg_Once \/ Poll

-----------------------------------------------------------------------------
\* The other actors.

LoopStays == UNCHANGED <<loopVars, clocktype, powerVars, lastSet>>

\* The transfer ends.  An accepted answer about register 0xff means good, and
\* the reply to the client asks the PHY for the link, where a fault means error.
TransferEnds ==
    /\ SPI4_TxRxCpltCallback
    /\ \/ status' = IF Fits /\ transfer.reply[2] = LAST THEN "good" ELSE status
       \/ Fits /\ status' = "error"
    /\ UNCHANGED gpsVars
    /\ LoopStays

\* GPS_PPS_Interrupt: a new drift (or the old one, when the pulse is out of the
\* window), and the pulse itself.
GPS_PPS_Interrupt ==
    /\ pulseAge = PULSE_GAP
    /\ pulseAge' = 0
    /\ drift' \in Measured
    /\ Send_Sec_Plus_Flag' = TRUE
    /\ Send_Dirft_Flag' = TRUE
    /\ held' = (held /\ Send_Dirft_Flag)
    /\ UNCHANGED <<linkVars, status, Reset_Pulse_Flag, reg>>
    /\ LoopStays

StartTransfer ==
    /\ Start
    /\ UNCHANGED <<status, gpsVars>>
    /\ LoopStays

Pass == Command \/ BridgeBytes \/ BridgeRetry \/ Tick

FpgaNext ==
    \/ Pass \/ Continue \/ StartTransfer
    \/ TransferEnds \/ GPS_PPS_Interrupt

FpgaSpec == FpgaInit /\ [][FpgaNext]_fpgaVars

\* The handler at work goes on whenever it does not wait, and a transfer that was
\* started ends.
FpgaFairSpec ==
    /\ FpgaSpec
    /\ WF_fpgaVars(Continue \/ StartTransfer)
    /\ WF_fpgaVars(TransferEnds)

-----------------------------------------------------------------------------
\* Types of the driver, the loop and the senders.
FpgaTypeOK ==
    /\ Write_Data \in Commands /\ arg \in Commands
    /\ transfer \in [cmd : Commands, heard : BOOLEAN, reply : Commands \cup {NoReply}] \cup {NONE}
    /\ {spi_lock, nss, retry_flag} \subseteq BOOLEAN
    /\ cached \in [Cached -> Data]
    /\ at \in {"free", "selected", "written", "waiting"}
    /\ fpga \in [Writable -> Data]
    /\ trouble \in 0 .. MaxTrouble
    /\ slot \in 1 .. Len(Slots)
    /\ retry_times \in 0 .. 1
    /\ received \in Commands \X (0 .. 2)
    /\ clocktype \in ClockTypes /\ lastSet \in {"none", "clock", "sync"}
    /\ addr \in 0 .. Len(PowerOn) /\ timeout \in 0 .. TIMEOUT
    /\ status \in {"good", "error", "init"}
    /\ {Send_Sec_Plus_Flag, Reset_Pulse_Flag, Send_Dirft_Flag, held} \subseteq BOOLEAN
    /\ drift \in Measured /\ reg \in 1 .. Len(DriftRegs)
    /\ pulseAge \in 0 .. PULSE_GAP

\* All requesters share one SPI handle and one Read_Data; spi_lock, taken in the
\* loop and given back in the interrupt, keeps a transfer from being started on
\* top of the one in flight (HAL_BUSY, and a lock nobody gives back).
BusExclusive == [][transfer # NONE => transfer' \in {transfer, NONE}]_fpgaVars

\* Whatever requests overlap and whichever of them an answer is judged by, a
\* register the driver caches holds what the FPGA once held in that register:
\* no echo of a write, no answer about another register, no noise.
CacheIsGenuine == \A a \in Cached : cached[a] \in Values[a] \cup {"0x00"}

\* A transfer the FPGA did not obey is never taken for a success: its end asks
\* for a retry, although other requests may have replaced Write_Data meanwhile.
NoSilentLoss ==
    [][transfer # NONE /\ transfer' = NONE /\ ~retry_flag' => transfer.heard]_fpgaVars

Rest == transfer = NONE /\ Free
Undisturbed == trouble = 0

\* The second pulse reaches the FPGA through overlapping requests, retries and
\* errors that shut the gate: at rest its level is the one the driver remembers,
\* so no edge is lost or made twice.
PulseTracked == Rest /\ Undisturbed => (fpga[PULSE] = "0x80" <=> Reset_Pulse_Flag)

\* The four drift registers are sent one per slot while the interrupt replaces
\* them: when a sending is over the FPGA holds the bytes of one measurement,
\* unless an error held up the sending until the next pulse.
DriftWhole ==
    Rest /\ Undisturbed /\ ~held /\ ~Send_Dirft_Flag
      => \A i, j \in DOMAIN DriftRegs : fpga[DriftRegs[i]] = fpga[DriftRegs[j]]

\* The loop waits for spi_lock without a time limit; no sequence of failures and
\* retries makes it wait for ever (the watchdog would reset the board).
LoopRuns == []<>Free

\* meau_flash.c:353: "each time SRC_CLOCK_TYPE is set, SRC_SYNV_TYPE must be
\* cleared to 0": once the link is at rest and nothing is left to be sent again.
SyncFollowsClock ==
    (Rest /\ lastSet = "clock" /\ ~(retry_flag /\ retry_times = 0)) => fpga[SYNC] = "0x00"
=============================================================================
