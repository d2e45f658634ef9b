----------------------------- MODULE EthCommand ------------------------------
(***************************************************************************)
(* The network command path of app/ethernetif.c: the receive interrupt     *)
(* copies a command into the ring Eth_Buf, and pollint executes the ring.  *)
(*                                                                         *)
(* The interrupt does not look at the frame that raised it.  It parses     *)
(* RxFrameInfos.buffer, which only low_level_input sets, when the main     *)
(* loop takes a frame from the DMA: so a command is found by the interrupt *)
(* of a later frame, in a DMA buffer that was given back long before.      *)
(***************************************************************************)
EXTENDS Integers, Sequences

CONSTANTS
    Clients,    \* who sends commands, told apart by their UDP port
    Other,      \* sender of a frame that is no command (not to port 0x5004)
    RXBUFNB,    \* ETH_RXBUFNB, the DMA's receive buffers (4)
    RING,       \* the length of Eth_Buf (256)
    MaxFrames,  \* bound: frames in a behaviour
    NONE

ASSUME SizesAssumption ==
    /\ RXBUFNB \in Nat /\ RXBUFNB >= 2
    /\ RING \in Nat /\ RING >= 3
    /\ MaxFrames \in Nat
    /\ Other \notin Clients
    /\ NONE \notin Clients \cup {Other} \cup 0 .. RXBUFNB - 1

VARIABLES
    Rx_Buff,        \* what the receive buffers hold
    dma,            \* the buffer of the next frame
    RxDesc,         \* the buffer of the next frame the main loop takes
    owned,          \* buffers with a frame that was not given back to the DMA
    rxFlag,         \* the receive interrupt is pending
    buffer,         \* RxFrameInfos.buffer: the buffer of the frame taken last
    Eth_Buf, Eth_Buf_Read, Eth_Buf_Write,   \* the ring of commands
    dstpot,         \* dstpot_1, dstpot_2: where replies go
    pc,             \* where the main loop is
    sent,           \* history: the frames, in order of arrival
    worstOwned,     \* history: the most `owned` ever was
    gap,            \* history: polls since the last frame, up to 2 ...
    leastGap,       \* ... and the fewest between two frames
    executed        \* history: the commands executed and where each reply went

dmaVars == <<Rx_Buff, dma, RxDesc, owned>>
ringVars == <<Eth_Buf, Eth_Buf_Read, Eth_Buf_Write>>
arrivals == <<sent, worstOwned, gap, leastGap>>
history == <<arrivals, executed>>
vars == <<dmaVars, rxFlag, buffer, ringVars, dstpot, pc, history>>

\* A frame is its number in order of arrival, and its sender.
Frames == [n : 1 .. MaxFrames, from : Clients \cup {Other}]
Slots == 0 .. RXBUFNB - 1
Positions == 0 .. RING - 1

\* Types of the DMA ring, the command ring and the histories.
TypeOK ==
    /\ Rx_Buff \in [Slots -> Frames \cup {NONE}]
    /\ dma \in Slots /\ RxDesc \in Slots
    /\ owned \in 0 .. RXBUFNB
    /\ rxFlag \in BOOLEAN
    /\ buffer \in Slots \cup {NONE}
    /\ Eth_Buf \in [Positions -> Frames \cup {NONE}]
    /\ Eth_Buf_Read \in Positions /\ Eth_Buf_Write \in Positions
    /\ dstpot \in Clients \cup {NONE}
    /\ pc \in {"send", "advance", "tick", "release"}
    /\ sent \in Seq(Frames)
    /\ worstOwned \in 0 .. RXBUFNB
    /\ gap \in 0 .. 2 /\ leastGap \in 0 .. 2
    /\ executed \in Seq([command : Frames, reply : Clients \cup {NONE}])

Init ==
    /\ Rx_Buff = [s \in Slots |-> NONE]
    /\ dma = 0 /\ RxDesc = 0 /\ owned = 0
    /\ rxFlag = FALSE
    /\ buffer = NONE
    /\ Eth_Buf = [p \in Positions |-> NONE]
    /\ Eth_Buf_Read = 0 /\ Eth_Buf_Write = 0
    /\ dstpot = NONE
    /\ pc = "send"
    /\ sent = <<>> /\ worstOwned = 0 /\ gap = 2 /\ leastGap = 2
    /\ executed = <<>>

Larger(a, b) == IF a < b THEN b ELSE a
Smaller(a, b) == IF a < b THEN a ELSE b

-----------------------------------------------------------------------------
\* The DMA receives a frame, unless every buffer waits to be given back: then
\* the frame is lost without an interrupt.
Arrive(from) ==
    /\ Len(sent) < MaxFrames
    /\ owned < RXBUFNB
    /\ LET frame == [n |-> Len(sent) + 1, from |-> from]
       IN  /\ Rx_Buff' = [Rx_Buff EXCEPT ![dma] = frame]
           /\ sent' = Append(sent, frame)
    /\ dma' = (dma + 1) % RXBUFNB
    /\ owned' = owned + 1
    /\ rxFlag' = TRUE
    /\ worstOwned' = Larger(worstOwned, owned')
    /\ gap' = 0
    /\ leastGap' = Smaller(leastGap, gap)
    /\ UNCHANGED <<RxDesc, buffer, ringVars, dstpot, pc, executed>>

IsCommand(frame) == frame # NONE /\ frame.from # Other

\* Mutant: the write index does not wrap.
QueueUnwrapped(frame) ==
    IF IsCommand(frame)
    THEN /\ Eth_Buf' = [Eth_Buf EXCEPT ![Eth_Buf_Write] = frame]
         /\ Eth_Buf_Write' = Eth_Buf_Write + 1
         /\ dstpot' = frame.from
         /\ UNCHANGED Eth_Buf_Read
    ELSE UNCHANGED <<ringVars, dstpot>>

\* Mutant: the port of the first client is kept.
QueueFirstPort(frame) ==
    IF IsCommand(frame)
    THEN /\ Eth_Buf' = [Eth_Buf EXCEPT ![Eth_Buf_Write] = frame]
         /\ Eth_Buf_Write' = (Eth_Buf_Write + 1) % RING
         /\ dstpot' = IF dstpot = NONE THEN frame.from ELSE dstpot
         /\ UNCHANGED Eth_Buf_Read
    ELSE UNCHANGED <<ringVars, dstpot>>

\* eth_irq_input: the frame in the buffer taken last, if it is a command, is
\* put into the ring.  Nothing tests whether the ring is full.  (Before the
\* first frame was taken, buffer is a null pointer: what lies at address 36 is
\* assumed not to be the port number of a command.)
Queue(frame) ==
    IF IsCommand(frame)
    THEN /\ Eth_Buf' = [Eth_Buf EXCEPT ![Eth_Buf_Write] = frame]
         /\ Eth_Buf_Write' = (Eth_Buf_Write + 1) % RING
         /\ dstpot' = frame.from
         /\ UNCHANGED Eth_Buf_Read
    ELSE UNCHANGED <<ringVars, dstpot>>

eth_irq_input == Queue(IF buffer = NONE THEN NONE ELSE Rx_Buff[buffer])

\* ETH_IRQHandler: the pending bit is cleared once, however many frames set it.
RxInterrupt ==
    /\ rxFlag
    /\ rxFlag' = FALSE
    /\ eth_irq_input
    /\ UNCHANGED <<dmaVars, buffer, pc, history>>

-----------------------------------------------------------------------------
\* The main loop runs when no interrupt is pending.
Main(here) == ~rxFlag /\ pc = here

\* pollint_eth_send: the oldest command is executed (Send_User_Data or
\* Send_To_Fpga); the ring moves on only after that.
StartCommand ==
    /\ Main("send")
    /\ Eth_Buf_Read # Eth_Buf_Write
    /\ pc' = "advance"
    /\ UNCHANGED <<dmaVars, rxFlag, buffer, ringVars, dstpot, history>>

\* Mutant: the read index wraps one command too early.
FinishCommandShortRing ==
    /\ Main("advance")
    /\ executed' = Append(executed, [command |-> Eth_Buf[Eth_Buf_Read], reply |-> dstpot])
    /\ Eth_Buf_Read' = (Eth_Buf_Read + 1) % (RING - 1)
    /\ pc' = "tick"
    /\ UNCHANGED <<dmaVars, rxFlag, buffer, Eth_Buf, Eth_Buf_Write, dstpot, arrivals>>

\* Eth_Send_api at the end of the command answers to the port seen last.
FinishCommand ==
    /\ Main("advance")
    /\ executed' = Append(executed, [command |-> Eth_Buf[Eth_Buf_Read], reply |-> dstpot])
    /\ Eth_Buf_Read' = (Eth_Buf_Read + 1) % RING
    /\ pc' = "tick"
    /\ UNCHANGED <<dmaVars, rxFlag, buffer, Eth_Buf, Eth_Buf_Write, dstpot, arrivals>>

NoCommand ==
    /\ Main("send")
    /\ Eth_Buf_Read = Eth_Buf_Write
    /\ pc' = "tick"
    /\ UNCHANGED <<dmaVars, rxFlag, buffer, ringVars, dstpot, history>>

pollint_eth_send == StartCommand \/ FinishCommand \/ NoCommand

\* A pass of the loop in which no millisecond has passed.
NoTick ==
    /\ Main("tick")
    /\ pc' = "send"
    /\ UNCHANGED <<dmaVars, rxFlag, buffer, ringVars, dstpot, history>>

\* Mutant: the next frame is looked for where the last one was.
TakeFrameAgain ==
    /\ Main("tick")
    /\ gap' = Smaller(gap + 1, 2)
    /\ IF owned = 0
       THEN pc' = "send" /\ UNCHANGED buffer
       ELSE buffer' = RxDesc /\ pc' = "release"
    /\ UNCHANGED <<Rx_Buff, dma, RxDesc, owned, rxFlag, ringVars, dstpot,
                   sent, worstOwned, leastGap, executed>>

\* low_level_input: HAL_ETH_GetReceivedFrame_IT takes the next frame ...
TakeFrame ==
    /\ Main("tick")
    /\ gap' = Smaller(gap + 1, 2)
    /\ IF owned = 0
       THEN pc' = "send" /\ UNCHANGED <<RxDesc, buffer>>
       ELSE /\ buffer' = RxDesc
            /\ RxDesc' = (RxDesc + 1) % RXBUFNB
            /\ pc' = "release"
    /\ UNCHANGED <<Rx_Buff, dma, owned, rxFlag, ringVars, dstpot,
                   sent, worstOwned, leastGap, executed>>

\* ... and its buffer is given back to the DMA once it was copied for LwIP.
ReleaseFrame ==
    /\ Main("release")
    /\ owned' = owned - 1
    /\ pc' = "send"
    /\ UNCHANGED <<Rx_Buff, dma, RxDesc, rxFlag, buffer, ringVars, dstpot, history>>

low_level_input == TakeFrame \/ ReleaseFrame

Next ==
    \/ \E from \in Clients \cup {Other} : Arrive(from)
    \/ RxInterrupt
    \/ pollint_eth_send \/ NoTick \/ low_level_input

Spec == Init /\ [][Next]_vars

-----------------------------------------------------------------------------
\* The commands in the ring that were not executed yet.
Waiting ==
    [i \in 1 .. (Eth_Buf_Write - Eth_Buf_Read) % RING |->
        Eth_Buf[(Eth_Buf_Read + (i - 1)) % RING]]

\* What the main loop has executed or is going to.
Taken == [i \in DOMAIN executed |-> executed[i].command] \o Waiting

\* As long as the DMA never used up its receive buffers, no command is executed
\* after a younger one: neither the late parse of a buffer given back, nor an
\* overrun of the ring reorders them (they may drop or repeat commands).
InOrder ==
    worstOwned < RXBUFNB =>
      \A i \in 1 .. Len(Taken) - 1 : Taken[i].n <= Taken[i + 1].n

\* While the loop polls at least once between two frames, every command is
\* executed exactly once and in order, except that the youngest frame, if it is
\* one, waits for the next frame, whoever sends it.
PacedExactlyOnce ==
    leastGap >= 1 /\ ~rxFlag =>
      /\ \A i, j \in 1 .. Len(Taken) : i < j => Taken[i].n < Taken[j].n
      /\ \A i \in 1 .. Len(Taken) : Taken[i] = sent[Taken[i].n]
      /\ \A k \in 1 .. Len(sent) - 1 :
            IsCommand(sent[k]) => \E i \in 1 .. Len(Taken) : Taken[i] = sent[k]

\* With two polls between two frames a reply goes to the client whose command it
\* answers, although the port is kept in one place for all of them.
ReplyToSender ==
    leastGap >= 2 =>
      \A i \in DOMAIN executed : executed[i].reply = executed[i].command.from
=============================================================================
