-------------------------- MODULE EthCommand_proofs --------------------------
(***************************************************************************)
(* The network command path, for every number of receive buffers, every    *)
(* length of the ring, every set of clients and every number of frames.    *)
(***************************************************************************)
EXTENDS EthCommand, SequenceTheorems, TLAPS

-----------------------------------------------------------------------------
\* Places of a ring: the one n after p, the one n before it, and how far q is
\* after p.
After(p, n, size) == IF p + n < size THEN p + n ELSE p + n - size
Before(p, n, size) == IF n <= p THEN p - n ELSE p - n + size
Distance(p, q, size) == IF p <= q THEN q - p ELSE q - p + size

LEMMA Sizes ==
    /\ RXBUFNB \in Nat /\ RXBUFNB >= 2
    /\ RING \in Nat /\ RING >= 3
    /\ MaxFrames \in Nat
    /\ NONE \notin Slots
    /\ NONE \notin Clients /\ Other \notin Clients
BY SizesAssumption DEF Slots

\* The next place.
LEMMA Next1 ==
    ASSUME NEW size \in Nat \ {0}, NEW p \in 0 .. size - 1
    PROVE  (p + 1) % size = After(p, 1, size) /\ After(p, 1, size) \in 0 .. size - 1
<1>1. CASE p + 1 < size
  BY <1>1 DEF After
<1>2. CASE p + 1 = size
  BY <1>2 DEF After
<1> QED
  BY <1>1, <1>2

LEMMA AfterRange ==
    ASSUME NEW size \in Nat \ {0}, NEW p \in 0 .. size - 1, NEW n \in 0 .. size
    PROVE  After(p, n, size) \in 0 .. size - 1
BY DEF After

LEMMA BeforeRange ==
    ASSUME NEW size \in Nat \ {0}, NEW p \in 0 .. size - 1, NEW n \in 0 .. size
    PROVE  Before(p, n, size) \in 0 .. size - 1
BY DEF Before

LEMMA DistanceRange ==
    ASSUME NEW size \in Nat \ {0}, NEW p \in 0 .. size - 1, NEW q \in 0 .. size - 1
    PROVE  Distance(p, q, size) \in Nat
BY DEF Distance

\* The remainders that Waiting takes.
LEMMA Remainders ==
    ASSUME NEW size \in Nat \ {0}, NEW p \in 0 .. size - 1, NEW q \in 0 .. size - 1
    PROVE  /\ (q - p) % size = Distance(p, q, size)
           /\ (p + q) % size = After(p, q, size)
<1>1. (q - p) % size = Distance(p, q, size)
  <2>1. CASE p <= q
    BY <2>1 DEF Distance
  <2>2. CASE q < p
    BY <2>2 DEF Distance
  <2> QED
    BY <2>1, <2>2
<1>2. (p + q) % size = After(p, q, size)
  <2>1. CASE p + q < size
    BY <2>1 DEF After
  <2>2. CASE p + q >= size
    BY <2>2 DEF After
  <2> QED
    BY <2>1, <2>2
<1> QED
  BY <1>1, <1>2

-----------------------------------------------------------------------------
\* The frames the DMA has received and the loop has not taken, and the number of
\* those it has: the last of them lies where RxFrameInfos.buffer points.
Untaken == IF pc = "release" THEN owned - 1 ELSE owned
Got == Len(sent) - Untaken

\* The receive ring: the last frames lie behind the place of the next one, the
\* youngest first, and the loop looks for its next frame among them.
DmaOK ==
    /\ \A k \in 1 .. Len(sent) : sent[k].n = k
    /\ owned <= worstOwned /\ owned <= Len(sent)
    /\ pc = "release" => owned >= 1
    /\ RxDesc = Before(dma, Untaken, RXBUFNB)
    /\ buffer = IF Got = 0 THEN NONE ELSE Before(RxDesc, 1, RXBUFNB)
    /\ \A j \in 1 .. RXBUFNB :
          j <= Len(sent) => Rx_Buff[Before(dma, j, RXBUFNB)] = sent[Len(sent) + 1 - j]

\* The commands in the ring.  While one is executed it still lies there, even when
\* the write index has come round to it.
Pending ==
    IF pc = "advance" /\ Eth_Buf_Read = Eth_Buf_Write THEN RING
    ELSE Distance(Eth_Buf_Read, Eth_Buf_Write, RING)

Entry(i) == Eth_Buf[After(Eth_Buf_Read, i, RING)]

\* The commands executed and, behind them, those in the ring.
Passed == Len(executed) + Pending
Command(i) ==
    IF i <= Len(executed) THEN executed[i].command ELSE Entry(i - Len(executed) - 1)

RingOK == \A i \in 1 .. Passed : Command(i) \in Frames /\ IsCommand(Command(i))

\* What InOrder rests on: the interrupt parses the frame taken last.
OrderOK ==
    worstOwned < RXBUFNB =>
      /\ \A i \in 1 .. Passed : Command(i).n <= Got
      /\ \A i, j \in 1 .. Passed : i < j => Command(i).n <= Command(j).n

\* The interrupt has parsed every frame but the youngest, and but the one before
\* it while it is pending.
Flag == IF rxFlag THEN 1 ELSE 0
Seen == Len(sent) - 1 - Flag

\* What PacedExactlyOnce rests on: with one poll between two frames there are never
\* more than two commands on their way, and none at the end of a pass of the loop
\* that began after a poll.
PacedLoop ==
    /\ rxFlag => gap = 0
    /\ Untaken = IF gap = 0 THEN 1 ELSE 0
    /\ Pending + Flag <= (IF gap = 0 THEN 2 ELSE 1) - (IF pc = "tick" THEN 1 ELSE 0)

\* And those parsed are the commands passed, each once and in order.
PacedCommands ==
    /\ \A i \in 1 .. Passed : Command(i).n <= Seen /\ Command(i) = sent[Command(i).n]
    /\ \A i, j \in 1 .. Passed : i < j => Command(i).n < Command(j).n
    /\ \A k \in 1 .. Seen :
          IsCommand(sent[k]) => \E i \in 1 .. Passed : Command(i) = sent[k]

\* What ReplyToSender rests on: with two polls there is never more than one, and the
\* port is its sender's.
Relaxed ==
    /\ gap = 0 => Pending + Flag <= 1
    /\ gap = 1 => Pending <= IF pc = "tick" THEN 0 ELSE 1
    /\ gap = 2 => Pending = 0
    /\ Pending = 1 => dstpot = Entry(0).from
    /\ \A i \in DOMAIN executed : executed[i].reply = executed[i].command.from

PacedOK == leastGap >= 1 => PacedLoop /\ PacedCommands
RelaxedOK == leastGap >= 2 => Relaxed

EthInv == TypeOK /\ DmaOK /\ RingOK /\ OrderOK /\ PacedOK /\ RelaxedOK

-----------------------------------------------------------------------------
\* The ring of commands holds less than its length, unless one is executed.
LEMMA PendingRange ==
    ASSUME TypeOK
    PROVE  /\ Pending \in Nat /\ Pending <= RING
           /\ pc # "advance" => Pending <= RING - 1
           /\ pc = "advance" => Pending >= 1
           /\ pc # "advance" => (Pending = 0 <=> Eth_Buf_Read = Eth_Buf_Write)
BY Sizes DEF TypeOK, Positions, Pending, Distance

LEMMA EntryIn ==
    ASSUME TypeOK, NEW i \in 0 .. RING - 1
    PROVE  /\ After(Eth_Buf_Read, i, RING) \in Positions
           /\ Entry(i) = Eth_Buf[After(Eth_Buf_Read, i, RING)]
           /\ Entry(0) = Eth_Buf[Eth_Buf_Read]
<1>1. Eth_Buf_Read \in 0 .. RING - 1 /\ RING \in Nat /\ RING >= 3
  BY Sizes DEF TypeOK, Positions
<1>2. After(Eth_Buf_Read, i, RING) \in 0 .. RING - 1
  BY <1>1 DEF After
<1>3. After(Eth_Buf_Read, 0, RING) = Eth_Buf_Read
  BY <1>1 DEF After
<1> QED
  BY <1>2, <1>3 DEF Entry, Positions

\* The command being executed is the first in the ring.
LEMMA First ==
    ASSUME TypeOK, Pending >= 1
    PROVE  /\ Len(executed) + 1 \in 1 .. Passed
           /\ Command(Len(executed) + 1) = Eth_Buf[Eth_Buf_Read]
<1>1. Len(executed) \in Nat
  BY DEF TypeOK
<1>2. Entry(0) = Eth_Buf[Eth_Buf_Read]
  BY EntryIn, Sizes
<1>3. Len(executed) + 1 - Len(executed) - 1 = 0 /\ ~(Len(executed) + 1 <= Len(executed))
  BY <1>1
<1>4. Command(Len(executed) + 1) = Entry(0)
  BY <1>3 DEF Command
<1>5. Len(executed) + 1 \in 1 .. Passed
  BY <1>1, PendingRange DEF Passed
<1> QED
  BY <1>2, <1>4, <1>5

\* Everything starts empty.
LEMMA InitInv == Init => EthInv
<1> SUFFICES ASSUME Init PROVE EthInv
  OBVIOUS
<1>1. Len(sent) = 0 /\ Len(executed) = 0 /\ sent = <<>> /\ executed = <<>>
  BY DEF Init
<1>2. TypeOK
  <2>1. /\ Rx_Buff \in [Slots -> Frames \cup {NONE}] /\ dma \in Slots /\ RxDesc \in Slots
        /\ owned \in 0 .. RXBUFNB /\ worstOwned \in 0 .. RXBUFNB
        /\ buffer \in Slots \cup {NONE}
    BY Sizes DEF Init, Slots
  <2>2. /\ Eth_Buf \in [Positions -> Frames \cup {NONE}]
        /\ Eth_Buf_Read \in Positions /\ Eth_Buf_Write \in Positions
    BY Sizes DEF Init, Positions
  <2>3. gap \in 0 .. 2 /\ leastGap \in 0 .. 2
    BY DEF Init
  <2>4. /\ rxFlag \in BOOLEAN /\ dstpot \in Clients \cup {NONE}
        /\ pc \in {"send", "advance", "tick", "release"}
    BY Zenon DEF Init
  <2>5. sent \in Seq(Frames) /\ executed \in Seq([command : Frames, reply : Clients \cup {NONE}])
    BY <1>1
  <2> QED
    BY <2>1, <2>2, <2>3, <2>4, <2>5 DEF TypeOK
<1>3. Untaken = 0 /\ Got = 0 /\ Pending = 0 /\ Passed = 0 /\ Flag = 0
  BY <1>1 DEF Init, Untaken, Got, Pending, Passed, Flag, Distance
<1>4. DmaOK
  BY <1>1, <1>3, Sizes DEF Init, DmaOK, Before
<1>5. RingOK /\ OrderOK
  BY <1>3 DEF RingOK, OrderOK
<1>6. PacedOK /\ RelaxedOK
  BY <1>1, <1>3 DEF Init, PacedOK, RelaxedOK, PacedLoop, PacedCommands, Relaxed, Seen
<1> QED
  BY <1>2, <1>4, <1>5, <1>6 DEF EthInv

-----------------------------------------------------------------------------
\* A frame arrives.
LEMMA ArriveType ==
    ASSUME TypeOK, NEW from \in Clients \cup {Other}, Arrive(from)
    PROVE  TypeOK'
<1> DEFINE frame == [n |-> Len(sent) + 1, from |-> from]
<1>1. /\ Rx_Buff' = [Rx_Buff EXCEPT ![dma] = frame] /\ sent' = Append(sent, frame)
      /\ dma' = (dma + 1) % RXBUFNB /\ owned' = owned + 1 /\ rxFlag' = TRUE
      /\ worstOwned' = Larger(worstOwned, owned') /\ gap' = 0
      /\ leastGap' = Smaller(leastGap, gap)
      /\ Len(sent) < MaxFrames /\ owned < RXBUFNB
  BY DEF Arrive
<1>2. /\ RxDesc' = RxDesc /\ buffer' = buffer /\ Eth_Buf' = Eth_Buf /\ pc' = pc
      /\ Eth_Buf_Read' = Eth_Buf_Read /\ Eth_Buf_Write' = Eth_Buf_Write
      /\ dstpot' = dstpot /\ executed' = executed
  BY DEF Arrive, ringVars
<1>3. frame \in Frames
  <2>1. Len(sent) + 1 \in 1 .. MaxFrames
    BY <1>1, Sizes DEF TypeOK
  <2> QED
    BY <2>1 DEF Frames
<1> HIDE DEF frame
<1>4. Rx_Buff' \in [Slots -> Frames \cup {NONE}] /\ sent' \in Seq(Frames)
  BY <1>1, <1>3 DEF TypeOK
<1>5. dma' \in Slots
  BY <1>1, Next1, Sizes DEF TypeOK, Slots
<1>6. /\ owned' \in 0 .. RXBUFNB /\ worstOwned' \in 0 .. RXBUFNB
      /\ gap' \in 0 .. 2 /\ leastGap' \in 0 .. 2
  BY <1>1, Sizes DEF TypeOK, Larger, Smaller
<1>7. rxFlag' \in BOOLEAN
  BY <1>1
<1> QED
  BY <1>2, <1>4, <1>5, <1>6, <1>7 DEF TypeOK

\* The interrupt puts a command into the ring.
LEMMA QueueType ==
    ASSUME TypeOK, NEW frame \in Frames \cup {NONE}, Queue(frame)
    PROVE  /\ Eth_Buf' \in [Positions -> Frames \cup {NONE}]
           /\ Eth_Buf_Read' \in Positions /\ Eth_Buf_Write' \in Positions
           /\ dstpot' \in Clients \cup {NONE}
<1>1. CASE IsCommand(frame)
  <2>1. /\ Eth_Buf' = [Eth_Buf EXCEPT ![Eth_Buf_Write] = frame]
        /\ Eth_Buf_Write' = (Eth_Buf_Write + 1) % RING
        /\ dstpot' = frame.from
        /\ Eth_Buf_Read' = Eth_Buf_Read
    BY <1>1 DEF Queue
  <2>2. frame.from \in Clients
    BY <1>1 DEF IsCommand, Frames
  <2>3. Eth_Buf_Write' \in Positions
    BY <2>1, Next1, Sizes DEF TypeOK, Positions
  <2> QED
    BY <2>1, <2>2, <2>3 DEF TypeOK
<1>2. CASE ~IsCommand(frame)
  BY <1>2 DEF Queue, ringVars, TypeOK
<1> QED
  BY <1>1, <1>2

\* What the interrupt parses.
Parsed == IF buffer = NONE THEN NONE ELSE Rx_Buff[buffer]

LEMMA InterruptType ==
    ASSUME TypeOK, RxInterrupt
    PROVE  TypeOK'
<1>1. Parsed \in Frames \cup {NONE} /\ Queue(Parsed)
  BY DEF TypeOK, Parsed, RxInterrupt, eth_irq_input
<1>2. UNCHANGED <<dmaVars, buffer, pc, history>> /\ rxFlag' \in BOOLEAN
  BY DEF RxInterrupt
<1> QED
  BY <1>1, <1>2, QueueType DEF TypeOK, dmaVars, history, arrivals

LEMMA FinishType ==
    ASSUME TypeOK, RingOK, FinishCommand
    PROVE  TypeOK'
<1>1. /\ executed' = Append(executed, [command |-> Eth_Buf[Eth_Buf_Read], reply |-> dstpot])
      /\ Eth_Buf_Read' = (Eth_Buf_Read + 1) % RING
      /\ pc' = "tick" /\ pc = "advance"
      /\ UNCHANGED <<dmaVars, rxFlag, buffer, Eth_Buf, Eth_Buf_Write, dstpot, arrivals>>
  BY DEF FinishCommand, Main
<1>2. Eth_Buf[Eth_Buf_Read] \in Frames
  BY <1>1, PendingRange, First DEF RingOK
<1>3. executed' \in Seq([command : Frames, reply : Clients \cup {NONE}])
  BY <1>1, <1>2 DEF TypeOK
<1>4. Eth_Buf_Read' \in Positions
  BY <1>1, Next1, Sizes DEF TypeOK, Positions
<1> QED
  BY <1>1, <1>3, <1>4 DEF TypeOK, dmaVars, arrivals

LEMMA TakeType ==
    ASSUME TypeOK, TakeFrame
    PROVE  TypeOK'
<1>1. /\ gap' = Smaller(gap + 1, 2)
      /\ \/ pc' = "send" /\ UNCHANGED <<RxDesc, buffer>>
         \/ buffer' = RxDesc /\ RxDesc' = (RxDesc + 1) % RXBUFNB /\ pc' = "release"
      /\ UNCHANGED <<Rx_Buff, dma, owned, rxFlag, ringVars, dstpot,
                     sent, worstOwned, leastGap, executed>>
  BY DEF TakeFrame
<1>2. RxDesc' \in Slots /\ buffer' \in Slots \cup {NONE}
  <2>1. RxDesc \in 0 .. RXBUFNB - 1 /\ RXBUFNB \in Nat \ {0}
    BY Sizes DEF TypeOK, Slots
  <2>2. (RxDesc + 1) % RXBUFNB \in Slots
    BY <2>1, Next1 DEF Slots
  <2> QED
    BY <1>1, <2>2 DEF TypeOK
<1>3. gap' \in 0 .. 2
  BY <1>1 DEF TypeOK, Smaller
<1>4. pc' \in {"send", "advance", "tick", "release"}
  BY <1>1
<1> QED
  BY <1>1, <1>2, <1>3, <1>4 DEF TypeOK, ringVars

\* The steps of the loop that change no more than where it is.
LEMMA WalkType ==
    ASSUME TypeOK, StartCommand \/ NoCommand \/ NoTick \/ UNCHANGED vars
    PROVE  TypeOK'
<1>1. /\ UNCHANGED <<dmaVars, rxFlag, buffer, ringVars, dstpot, history>>
      /\ pc' \in {"send", "advance", "tick", "release"}
  BY DEF TypeOK, StartCommand, NoCommand, NoTick, vars
<1> QED
  BY <1>1 DEF TypeOK, dmaVars, ringVars, history, arrivals

LEMMA ReleaseType ==
    ASSUME TypeOK, DmaOK, ReleaseFrame
    PROVE  TypeOK'
<1>1. /\ owned' = owned - 1 /\ pc' = "send" /\ pc = "release"
      /\ UNCHANGED <<Rx_Buff, dma, RxDesc, rxFlag, buffer, ringVars, dstpot, history>>
  BY DEF ReleaseFrame, Main
<1>2. owned' \in 0 .. RXBUFNB
  BY <1>1, Sizes DEF TypeOK, DmaOK
<1> QED
  BY <1>1, <1>2 DEF TypeOK, ringVars, history, arrivals

-----------------------------------------------------------------------------
\* The frame taken last still lies where the interrupt looks for it, unless the DMA
\* has used up its buffers.
LEMMA ParsedFrame ==
    ASSUME TypeOK, DmaOK
    PROVE  /\ Got \in Nat /\ Got <= Len(sent)
           /\ Got = 0 => Parsed = NONE
           /\ worstOwned < RXBUFNB => Untaken < RXBUFNB
           /\ Untaken < RXBUFNB /\ Got > 0 => Parsed = sent[Got]
<1>1. /\ Len(sent) \in Nat /\ owned \in 0 .. RXBUFNB /\ worstOwned \in 0 .. RXBUFNB
      /\ dma \in 0 .. RXBUFNB - 1 /\ RXBUFNB \in Nat
  BY Sizes DEF TypeOK, Slots
<1>2. Untaken \in Nat /\ Untaken <= owned /\ Got = Len(sent) - Untaken
  BY <1>1 DEF DmaOK, Untaken, Got
<1>3. Got \in Nat /\ Got <= Len(sent)
  BY <1>1, <1>2 DEF DmaOK
<1>4. Got = 0 => Parsed = NONE
  BY DEF DmaOK, Parsed
<1>5. worstOwned < RXBUFNB => Untaken < RXBUFNB
  BY <1>1, <1>2 DEF DmaOK
<1>6. ASSUME Untaken < RXBUFNB, Got > 0 PROVE Parsed = sent[Got]
  <2> DEFINE j == Untaken + 1
  <2>1. j \in 1 .. RXBUFNB /\ j <= Len(sent) /\ Len(sent) + 1 - j = Got
    BY <1>1, <1>2, <1>3, <1>6
  <2>2. Before(RxDesc, 1, RXBUFNB) = Before(dma, j, RXBUFNB)
    BY <1>1, <1>2, <1>6 DEF DmaOK, Before
  <2>3. Rx_Buff[Before(dma, j, RXBUFNB)] = sent[Len(sent) + 1 - j]
    BY <2>1 DEF DmaOK
  <2>4. buffer = Before(dma, j, RXBUFNB)
    BY <1>6, <2>2 DEF DmaOK
  <2>5. Before(dma, j, RXBUFNB) \in Slots
    <3>1. RXBUFNB \in Nat \ {0} /\ j \in 0 .. RXBUFNB
      BY <1>1, <2>1
    <3> HIDE DEF j
    <3> QED
      BY <1>1, <3>1, BeforeRange DEF Slots
  <2>6. Parsed = Rx_Buff[Before(dma, j, RXBUFNB)]
    BY <2>4, <2>5, Sizes DEF Parsed
  <2> QED
    BY <2>1, <2>3, <2>6
<1> QED
  BY <1>3, <1>4, <1>5, <1>6

\* A frame arrives: the others move one place away from the next one.
LEMMA ArriveDma ==
    ASSUME TypeOK, DmaOK, NEW from \in Clients \cup {Other}, Arrive(from)
    PROVE  DmaOK'
<1> DEFINE frame == [n |-> Len(sent) + 1, from |-> from]
           L == Len(sent)
<1>1. /\ Rx_Buff' = [Rx_Buff EXCEPT ![dma] = frame] /\ sent' = Append(sent, frame)
      /\ dma' = (dma + 1) % RXBUFNB /\ owned' = owned + 1
      /\ worstOwned' = Larger(worstOwned, owned') /\ owned < RXBUFNB
      /\ RxDesc' = RxDesc /\ buffer' = buffer /\ pc' = pc
  BY DEF Arrive
<1>2. frame.n = L + 1
  OBVIOUS
<1>3. /\ L \in Nat /\ owned \in 0 .. RXBUFNB /\ worstOwned \in 0 .. RXBUFNB
      /\ dma \in 0 .. RXBUFNB - 1 /\ RXBUFNB \in Nat /\ RXBUFNB >= 2
  BY Sizes DEF TypeOK, Slots
<1> HIDE DEF frame
<1>4. L' = L + 1 /\ sent'[L + 1] = frame /\ \A k \in 1 .. L : sent'[k] = sent[k]
  BY <1>1 DEF TypeOK
<1>5. dma' = After(dma, 1, RXBUFNB)
  BY <1>1, <1>3, Next1
<1>6. Untaken' = Untaken + 1 /\ Untaken \in Nat /\ Untaken <= owned
  BY <1>1, <1>3 DEF Untaken, DmaOK
<1>7. Got' = Got
  BY <1>3, <1>4, <1>6 DEF Got
<1>8. RxDesc' = Before(dma', Untaken', RXBUFNB)
  <2>1. RxDesc = Before(dma, Untaken, RXBUFNB)
    BY DEF DmaOK
  <2>2. Before(After(dma, 1, RXBUFNB), Untaken + 1, RXBUFNB) = Before(dma, Untaken, RXBUFNB)
    BY <1>1, <1>3, <1>6 DEF Before, After
  <2> QED
    BY <1>1, <1>5, <1>6, <2>1, <2>2
<1>9. ASSUME NEW j \in 1 .. RXBUFNB, j <= L'
      PROVE  Rx_Buff'[Before(dma', j, RXBUFNB)] = sent'[L' + 1 - j]
  <2>1. CASE j = 1
    <3>1. Before(dma', j, RXBUFNB) = dma
      BY <1>3, <1>5, <2>1 DEF Before, After
    <3>2. Rx_Buff'[dma] = frame
      BY <1>1, <1>3 DEF TypeOK, Slots
    <3> QED
      BY <1>3, <1>4, <2>1, <3>1, <3>2
  <2>2. CASE j > 1
    <3>1. j - 1 \in 1 .. RXBUFNB /\ j - 1 <= L /\ j - 1 < RXBUFNB
      BY <1>3, <1>4, <1>9, <2>2
    <3>2. Before(dma', j, RXBUFNB) = Before(dma, j - 1, RXBUFNB)
      BY <1>3, <1>5, <2>2, <3>1 DEF Before, After
    <3>3. Before(dma, j - 1, RXBUFNB) # dma /\ Before(dma, j - 1, RXBUFNB) \in Slots
      BY <1>3, <3>1 DEF Before, Slots
    <3>4. Rx_Buff'[Before(dma, j - 1, RXBUFNB)] = Rx_Buff[Before(dma, j - 1, RXBUFNB)]
      BY <1>1, <3>3 DEF TypeOK
    <3>5. Rx_Buff[Before(dma, j - 1, RXBUFNB)] = sent[L + 1 - (j - 1)]
      BY <3>1 DEF DmaOK
    <3>6. L + 1 - (j - 1) = L' + 1 - j /\ L + 1 - (j - 1) \in 1 .. L
      BY <1>3, <1>4, <3>1
    <3> QED
      BY <1>4, <3>2, <3>4, <3>5, <3>6
  <2> QED
    BY <2>1, <2>2
<1>10. \A k \in 1 .. L' : sent'[k].n = k
  <2>1. \A k \in 1 .. L : sent'[k].n = k
    BY <1>4 DEF DmaOK
  <2> QED
    BY <1>2, <1>3, <1>4, <2>1
<1>11. owned' <= worstOwned' /\ owned' <= L' /\ (pc' = "release" => owned' >= 1)
  BY <1>1, <1>3, <1>4 DEF DmaOK, Larger
<1>12. buffer' = IF Got' = 0 THEN NONE ELSE Before(RxDesc', 1, RXBUFNB)
  BY <1>1, <1>7 DEF DmaOK
<1> QED
  BY <1>8, <1>9, <1>10, <1>11, <1>12 DEF DmaOK

\* The loop takes the oldest frame of those the DMA holds for it.
LEMMA TakeDma ==
    ASSUME TypeOK, DmaOK, TakeFrame
    PROVE  DmaOK'
<1>1. /\ UNCHANGED <<Rx_Buff, dma, owned, sent, worstOwned>> /\ pc = "tick"
      /\ \/ owned = 0 /\ pc' = "send" /\ UNCHANGED <<RxDesc, buffer>>
         \/ /\ owned # 0 /\ pc' = "release"
            /\ buffer' = RxDesc /\ RxDesc' = (RxDesc + 1) % RXBUFNB
  BY DEF TakeFrame, Main
<1>2. /\ Len(sent) \in Nat /\ owned \in 0 .. RXBUFNB
      /\ dma \in 0 .. RXBUFNB - 1 /\ RXBUFNB \in Nat /\ RXBUFNB >= 2
      /\ RxDesc \in 0 .. RXBUFNB - 1
  BY Sizes DEF TypeOK, Slots
<1>3. Untaken = owned
  BY <1>1 DEF Untaken
<1>4. CASE owned = 0
  <2>1. UNCHANGED <<RxDesc, buffer>> /\ pc' = "send"
    BY <1>1, <1>4
  <2>2. Untaken' = Untaken /\ Got' = Got
    BY <1>1, <1>3, <2>1 DEF Untaken, Got
  <2> QED
    BY <1>1, <2>1, <2>2 DEF DmaOK
<1>5. CASE owned # 0
  <2>1. buffer' = RxDesc /\ RxDesc' = (RxDesc + 1) % RXBUFNB /\ pc' = "release"
    BY <1>1, <1>5
  <2>2. Untaken' = owned - 1 /\ Got' = Len(sent) - (owned - 1)
    BY <1>1, <2>1 DEF Untaken, Got
  <2>3. Got' # 0
    BY <1>2, <2>2, <1>5 DEF DmaOK
  <2>4. RxDesc' = After(RxDesc, 1, RXBUFNB)
    BY <1>2, <2>1, Next1
  <2>5. RxDesc' = Before(dma, owned - 1, RXBUFNB)
    <3>1. RxDesc = Before(dma, owned, RXBUFNB)
      BY <1>3 DEF DmaOK
    <3> QED
      BY <1>2, <1>5, <2>4, <3>1 DEF After, Before
  <2>6. Before(RxDesc', 1, RXBUFNB) = RxDesc
    BY <1>2, <2>4 DEF After, Before
  <2>7. pc' = "release" => owned' >= 1
    BY <1>1, <1>2, <1>5
  <2> QED
    BY <1>1, <2>1, <2>2, <2>3, <2>5, <2>6, <2>7 DEF DmaOK
<1> QED
  BY <1>4, <1>5

\* The buffer goes back to the DMA.
LEMMA ReleaseDma ==
    ASSUME TypeOK, DmaOK, ReleaseFrame
    PROVE  DmaOK'
<1>1. /\ owned' = owned - 1 /\ pc' = "send" /\ pc = "release"
      /\ UNCHANGED <<Rx_Buff, dma, RxDesc, buffer, sent, worstOwned>>
  BY DEF ReleaseFrame, Main, history, arrivals
<1>2. Len(sent) \in Nat /\ owned \in Nat /\ worstOwned \in Nat
  BY Sizes DEF TypeOK
<1>3. Untaken' = Untaken /\ Got' = Got
  BY <1>1 DEF Untaken, Got
<1>4. owned' <= worstOwned /\ owned' <= Len(sent) /\ pc' # "release"
  BY <1>1, <1>2 DEF DmaOK
<1> QED
  BY <1>1, <1>3, <1>4 DEF DmaOK

\* The other steps leave it alone.
LEMMA SameDma ==
    ASSUME DmaOK, UNCHANGED <<dmaVars, buffer, sent, worstOwned>>,
           pc' = "release" <=> pc = "release"
    PROVE  DmaOK' /\ Untaken' = Untaken /\ Got' = Got
<1>1. Untaken' = Untaken /\ Got' = Got
  BY DEF Untaken, Got, dmaVars
<1> QED
  BY <1>1 DEF DmaOK, dmaVars

-----------------------------------------------------------------------------
LEMMA RingPlaces ==
    ASSUME TypeOK
    PROVE  /\ Eth_Buf_Read \in 0 .. RING - 1 /\ Eth_Buf_Write \in 0 .. RING - 1
           /\ RING \in Nat \ {0} /\ RING >= 3
           /\ Len(executed) \in Nat /\ Len(sent) \in Nat
BY Sizes DEF TypeOK, Positions

\* A command goes behind those in the ring.  If it fills the ring, all of them are
\* gone, or all but the one being executed; and it replaces that one too when the
\* write index has come round to it.
LEMMA PushEffect ==
    ASSUME TypeOK, NEW frame \in Frames, IsCommand(frame), Queue(frame),
           pc' = pc, executed' = executed
    PROVE  \E m \in Len(executed) .. Passed, add \in {0, 1} :
              /\ Passed' = m + add
              /\ \A i \in 1 .. m : Command(i)' = Command(i)
              /\ add = 1 => Command(m + 1)' = frame
              /\ Pending < RING - 1 => m = Passed /\ add = 1
<1> DEFINE E == Len(executed)
           R == Eth_Buf_Read
           W == Eth_Buf_Write
           P == Pending
           Effect(m, add) ==
              /\ Passed' = m + add
              /\ \A i \in 1 .. m : Command(i)' = Command(i)
              /\ add = 1 => Command(m + 1)' = frame
              /\ Pending < RING - 1 => m = Passed /\ add = 1
<1>1. /\ R \in 0 .. RING - 1 /\ W \in 0 .. RING - 1 /\ RING \in Nat \ {0} /\ RING >= 3
      /\ E \in Nat /\ P \in Nat /\ P <= RING
  BY RingPlaces, PendingRange
<1>2. /\ Eth_Buf' = [Eth_Buf EXCEPT ![W] = frame]
      /\ W' = (W + 1) % RING /\ R' = R
  BY DEF Queue
<1>3. W' = After(W, 1, RING)
  BY <1>1, <1>2, Next1
<1>4. Eth_Buf'[W] = frame /\ \A p \in Positions : p # W => Eth_Buf'[p] = Eth_Buf[p]
  BY <1>1, <1>2 DEF TypeOK
<1>5. E' = E
  OBVIOUS
<1>6. P = IF pc = "advance" /\ R = W THEN RING ELSE Distance(R, W, RING)
  BY DEF Pending
<1>7. P' = IF pc = "advance" /\ R = W' THEN RING ELSE Distance(R, W', RING)
  BY <1>2 DEF Pending
<1>8. Passed = E + P /\ Passed' = E + P'
  BY <1>5 DEF Passed
<1>9. \A i \in 1 .. E : Command(i)' = Command(i)
  BY <1>5 DEF Command
<1> HIDE DEF P
<1>9a. PICK e \in Nat, p \in Nat : e = E /\ p = P
  BY <1>1
<1>10. ASSUME P < RING - 1 \/ (P = RING - 1 /\ pc = "advance")
       PROVE  /\ P' = P + 1
              /\ \A i \in 1 .. e + p : Command(i)' = Command(i)
              /\ Command(e + p + 1)' = frame
  <2>1. P = Distance(R, W, RING) /\ P <= RING - 1
    BY <1>1, <1>6, <1>10
  <2>2. P' = P + 1
    BY <1>1, <1>3, <1>7, <1>10, <2>1 DEF Distance, After
  <2>3. \A k \in 0 .. P - 1 : After(R, k, RING) \in Positions /\ After(R, k, RING) # W
    BY <1>1, <2>1 DEF Distance, After, Positions
  <2>4. After(R, P, RING) = W
    BY <1>1, <2>1 DEF Distance, After
  <2>5. ASSUME NEW i \in 1 .. e + p, i > e PROVE Command(i)' = Command(i)
    <3>1. i - E - 1 \in 0 .. P - 1 /\ ~(i <= E)
      BY <1>1, <1>9a, <2>1, <2>5
    <3>2. Eth_Buf'[After(R, i - E - 1, RING)] = Eth_Buf[After(R, i - E - 1, RING)]
      BY <1>4, <2>3, <3>1
    <3> QED
      BY <1>2, <1>5, <3>1, <3>2 DEF Command, Entry
  <2>6. Command(e + p + 1)' = frame
    <3>1. e + p + 1 - E' - 1 = p /\ ~(e + p + 1 <= E')
      BY <1>5, <1>9a
    <3>2. Command(e + p + 1)' = Entry(p)'
      BY <3>1 DEF Command
    <3>3. Entry(p)' = Eth_Buf'[After(R, p, RING)]
      BY <1>2 DEF Entry
    <3> QED
      BY <1>4, <1>9a, <2>4, <3>2, <3>3
  <2> QED
    BY <1>1, <1>9, <1>9a, <2>2, <2>5, <2>6
<1>11. CASE P < RING - 1 \/ (P = RING - 1 /\ pc = "advance")
  <2>1. Effect(e + p, 1)
    BY <1>1, <1>8, <1>10, <1>11, <1>9a
  <2>2. e + p \in Len(executed) .. Passed
    BY <1>1, <1>8, <1>9a
  <2> QED
    BY <2>1, <2>2
<1>12. CASE P = RING - 1 /\ pc # "advance"
  <2>1. P' = 0
    BY <1>1, <1>3, <1>6, <1>7, <1>12 DEF Distance, After
  <2>2. Effect(e, 0)
    BY <1>1, <1>8, <1>9, <1>12, <1>9a, <2>1 DEF P
  <2>3. e \in Len(executed) .. Passed
    BY <1>1, <1>8, <1>9a
  <2> QED
    BY <2>2, <2>3
<1>13. CASE P = RING
  <2>1. pc = "advance" /\ R = W
    BY <1>1, <1>6, <1>13 DEF Distance
  <2>2. P' = 1
    BY <1>1, <1>3, <1>7, <2>1 DEF Distance, After
  <2>3. Command(e + 1)' = frame
    <3>1. e + 1 - E' - 1 = 0 /\ ~(e + 1 <= E')
      BY <1>5, <1>9a
    <3>2. After(R, 0, RING) = W
      BY <1>1, <2>1 DEF After
    <3> QED
      BY <1>2, <1>4, <1>5, <3>1, <3>2 DEF Command, Entry
  <2>4. Effect(e, 1)
    BY <1>1, <1>8, <1>9, <1>13, <1>9a, <2>2, <2>3 DEF P
  <2>5. e \in Len(executed) .. Passed
    BY <1>1, <1>8, <1>9a
  <2> QED
    BY <2>4, <2>5
<1> QED
  BY <1>1, <1>11, <1>12, <1>13

\* The command executed is the first in the ring: what was passed stays the same.
LEMMA PopEffect ==
    ASSUME TypeOK, FinishCommand
    PROVE  /\ Pending' = Pending - 1 /\ Passed' = Passed
           /\ \A i \in 1 .. Passed : Command(i)' = Command(i)
<1> DEFINE E == Len(executed)
           R == Eth_Buf_Read
           W == Eth_Buf_Write
           P == Pending
           done == [command |-> Eth_Buf[R], reply |-> dstpot]
<1>1. /\ R \in 0 .. RING - 1 /\ W \in 0 .. RING - 1 /\ RING \in Nat \ {0} /\ RING >= 3
      /\ E \in Nat
  BY RingPlaces
<1>2. /\ executed' = Append(executed, done)
      /\ R' = (R + 1) % RING /\ pc = "advance" /\ pc' = "tick"
      /\ UNCHANGED <<Eth_Buf, Eth_Buf_Write>>
  BY DEF FinishCommand, Main
<1>3. R' = After(R, 1, RING)
  BY <1>1, <1>2, Next1
<1>4. P \in Nat /\ P <= RING /\ P >= 1
  BY <1>2, PendingRange
<1>5. P = IF R = W THEN RING ELSE Distance(R, W, RING)
  BY <1>2 DEF Pending
<1>6. P' = Distance(R', W, RING)
  BY <1>2 DEF Pending
<1>7. done.command = Eth_Buf[R]
  OBVIOUS
<1> HIDE DEF P, done
<1>8. P' = P - 1
  BY <1>1, <1>3, <1>5, <1>6 DEF Distance, After
<1>9. E' = E + 1 /\ executed'[E + 1] = done /\ \A i \in 1 .. E : executed'[i] = executed[i]
  BY <1>1, <1>2 DEF TypeOK
<1>10. Passed' = Passed
  BY <1>1, <1>4, <1>8, <1>9 DEF Passed, P
<1>11. ASSUME NEW i \in 1 .. Passed PROVE Command(i)' = Command(i)
  <2>1. i \in 1 .. E + P
    BY <1>11 DEF Passed, P
  <2>2. CASE i <= E
    BY <1>1, <1>9, <2>1, <2>2 DEF Command
  <2>3. CASE i = E + 1
    <3>1. Command(i) = Eth_Buf[R]
      BY <1>4, <2>3, First DEF P
    <3>2. i <= E'
      BY <1>1, <1>9, <2>3
    <3>3. Command(i)' = executed'[E + 1].command
      BY <2>3, <3>2 DEF Command
    <3> QED
      BY <1>7, <1>9, <3>1, <3>3
  <2>4. CASE i > E + 1
    <3>1. After(R', i - (E + 1) - 1, RING) = After(R, i - E - 1, RING)
      BY <1>1, <1>3, <1>4, <2>1, <2>4 DEF After
    <3>2. ~(i <= E) /\ ~(i <= E')
      BY <1>1, <1>9, <2>1, <2>4
    <3> QED
      BY <1>2, <1>9, <3>1, <3>2 DEF Command, Entry
  <2> QED
    BY <1>1, <2>1, <2>2, <2>3, <2>4
<1> QED
  BY <1>8, <1>10, <1>11 DEF P

\* The other steps leave the ring alone.
LEMMA SameRing ==
    ASSUME TypeOK, UNCHANGED <<ringVars, executed>>,
           pc' = "advance" <=> (pc = "advance" \/ (pc' = "advance" /\ Eth_Buf_Read # Eth_Buf_Write))
    PROVE  /\ Pending' = Pending /\ Passed' = Passed
           /\ \A i : Command(i)' = Command(i)
           /\ Entry(0)' = Entry(0)
<1>1. /\ Eth_Buf' = Eth_Buf /\ Eth_Buf_Read' = Eth_Buf_Read /\ Eth_Buf_Write' = Eth_Buf_Write
      /\ executed' = executed
  BY DEF ringVars
<1>2. Pending' = Pending
  BY <1>1 DEF Pending
<1>3. Passed' = Passed
  BY <1>1, <1>2 DEF Passed
<1>4. \A i : Command(i)' = Command(i)
  BY <1>1 DEF Command, Entry
<1> QED
  BY <1>1, <1>2, <1>3, <1>4 DEF Entry

-----------------------------------------------------------------------------
\* What the parts of the invariant need of each step: the commands stay as they
\* are, and the loop may have taken another frame.
LEMMA SameCommands ==
    ASSUME TypeOK, DmaOK, RingOK, OrderOK, Passed' = Passed,
           \A i \in 1 .. Passed : Command(i)' = Command(i),
           Got' \in Nat, Got' >= Got,
           worstOwned' \in Nat, worstOwned' >= worstOwned
    PROVE  RingOK' /\ OrderOK'
<1>1. RingOK'
  BY DEF RingOK
<1>2. Passed \in Nat /\ Got \in Nat /\ worstOwned \in Nat /\ RXBUFNB \in Nat
  BY PendingRange, RingPlaces, ParsedFrame, Sizes DEF Passed, TypeOK
<1>3. \A i \in 1 .. Passed : Command(i).n \in Nat
  BY DEF RingOK, Frames
<1>4. ASSUME worstOwned' < RXBUFNB
      PROVE  /\ \A i \in 1 .. Passed' : Command(i)'.n <= Got'
             /\ \A i, j \in 1 .. Passed' : i < j => Command(i)'.n <= Command(j)'.n
  <2>1. /\ \A i \in 1 .. Passed : Command(i).n <= Got
        /\ \A i, j \in 1 .. Passed : i < j => Command(i).n <= Command(j).n
    BY <1>2, <1>4 DEF OrderOK
  <2> QED
    BY <1>2, <1>3, <2>1
<1> QED
  BY <1>1, <1>4 DEF OrderOK

LEMMA SamePaced ==
    ASSUME TypeOK, RingOK, PacedCommands, Passed' = Passed,
           \A i \in 1 .. Passed : Command(i)' = Command(i), Seen' = Seen,
           \A k \in 1 .. Len(sent) : sent'[k] = sent[k]
    PROVE  PacedCommands'
<1>1. Passed \in Nat /\ Len(sent) \in Nat /\ Seen \in Int /\ Seen <= Len(sent)
  BY PendingRange, RingPlaces DEF Passed, Seen, Flag
<1>2. \A i \in 1 .. Passed : Command(i).n \in Nat \ {0}
  BY DEF RingOK, Frames
<1>3. \A i \in 1 .. Passed : Command(i)'.n <= Seen' /\ Command(i)' = sent'[Command(i)'.n]
  <2> SUFFICES ASSUME NEW i \in 1 .. Passed
               PROVE  Command(i)'.n <= Seen' /\ Command(i)' = sent'[Command(i)'.n]
    OBVIOUS
  <2>1. Command(i).n <= Seen /\ Command(i) = sent[Command(i).n]
    BY DEF PacedCommands
  <2>2. Command(i).n \in 1 .. Len(sent)
    BY <1>1, <1>2, <2>1
  <2>3. sent'[Command(i).n] = sent[Command(i).n]
    BY <2>2
  <2>4. Command(i)' = Command(i)
    OBVIOUS
  <2> QED
    BY <2>1, <2>3, <2>4
<1>4. \A i, j \in 1 .. Passed : i < j => Command(i)'.n < Command(j)'.n
  BY DEF PacedCommands
<1>5. ASSUME NEW k \in 1 .. Seen, IsCommand(sent'[k])
      PROVE  \E i \in 1 .. Passed : Command(i)' = sent'[k]
  <2>1. k \in 1 .. Len(sent)
    BY <1>1
  <2>2. sent'[k] = sent[k]
    BY <2>1
  <2>3. PICK i \in 1 .. Passed : Command(i) = sent[k]
    BY <1>5, <2>2 DEF PacedCommands
  <2> QED
    BY <2>2, <2>3
<1> QED
  BY <1>3, <1>4, <1>5 DEF PacedCommands

-----------------------------------------------------------------------------
\* A frame arrives.
LEMMA ArriveInv ==
    ASSUME EthInv, NEW from \in Clients \cup {Other}, Arrive(from)
    PROVE  EthInv'
<1>1. TypeOK' /\ DmaOK'
  BY ArriveType, ArriveDma DEF EthInv
<1>2. /\ sent' = Append(sent, [n |-> Len(sent) + 1, from |-> from])
      /\ owned' = owned + 1 /\ rxFlag' = TRUE /\ gap' = 0
      /\ worstOwned' = Larger(worstOwned, owned') /\ leastGap' = Smaller(leastGap, gap)
      /\ UNCHANGED <<ringVars, dstpot, pc, executed>>
  BY DEF Arrive
<1>3. /\ Len(sent) \in Nat /\ owned \in Nat /\ worstOwned \in Nat
      /\ gap \in 0 .. 2 /\ leastGap \in 0 .. 2
  BY DEF EthInv, TypeOK
<1>4. Len(sent') = Len(sent) + 1 /\ \A k \in 1 .. Len(sent) : sent'[k] = sent[k]
  BY <1>2 DEF EthInv, TypeOK
<1>5. /\ Pending' = Pending /\ Passed' = Passed /\ Entry(0)' = Entry(0)
      /\ \A i \in 1 .. Passed : Command(i)' = Command(i)
  BY <1>2, SameRing DEF EthInv
<1>6. Untaken' = Untaken + 1 /\ Untaken \in Int /\ Got \in Nat /\ Got' = Got
  <2>1. Untaken' = Untaken + 1 /\ Untaken \in Int
    BY <1>2, <1>3 DEF Untaken
  <2>2. Got \in Nat
    BY ParsedFrame DEF EthInv
  <2> QED
    BY <1>3, <1>4, <2>1, <2>2 DEF Got
<1>7. worstOwned' \in Nat /\ worstOwned' >= worstOwned
  BY <1>2, <1>3 DEF Larger
<1>8. RingOK' /\ OrderOK'
  BY <1>5, <1>6, <1>7, SameCommands DEF EthInv
<1>9. Pending \in Nat
  BY PendingRange DEF EthInv
<1>10. PacedOK'
  <2> SUFFICES ASSUME leastGap' >= 1 PROVE PacedLoop' /\ PacedCommands'
    BY DEF PacedOK
  <2>1. leastGap >= 1 /\ gap >= 1
    BY <1>2, <1>3 DEF Smaller
  <2>2. PacedLoop /\ PacedCommands
    BY <2>1 DEF EthInv, PacedOK
  <2>3. ~rxFlag /\ Untaken = 0 /\ Flag = 0 /\ Flag' = 1
    BY <1>2, <1>3, <2>1, <2>2 DEF PacedLoop, Flag
  <2>4. Seen' = Seen
    BY <1>3, <1>4, <2>3 DEF Seen
  <2>5. PacedCommands'
    BY <1>4, <1>5, <2>2, <2>4, SamePaced DEF EthInv
  <2>6. PacedLoop'
    BY <1>2, <1>3, <1>5, <1>6, <1>9, <2>1, <2>2, <2>3 DEF PacedLoop
  <2> QED
    BY <2>5, <2>6
<1>11. RelaxedOK'
  <2> SUFFICES ASSUME leastGap' >= 2 PROVE Relaxed'
    BY DEF RelaxedOK
  <2>1. leastGap >= 2 /\ gap = 2
    BY <1>2, <1>3 DEF Smaller
  <2>2. Relaxed
    BY <2>1 DEF EthInv, RelaxedOK
  <2>3. Pending = 0 /\ Flag' = 1
    BY <1>2, <2>1, <2>2 DEF Relaxed, Flag
  <2> QED
    BY <1>2, <1>5, <2>2, <2>3 DEF Relaxed
<1> QED
  BY <1>1, <1>8, <1>10, <1>11 DEF EthInv

\* Frames received for good, and what the loop has in hand, do not change while the
\* interrupt runs or the loop walks.
LEMMA SameFrames ==
    ASSUME EthInv, UNCHANGED <<dmaVars, buffer, sent, worstOwned>>,
           pc' = "release" <=> pc = "release"
    PROVE  /\ DmaOK' /\ Untaken' = Untaken /\ Got' = Got
           /\ Got' \in Nat /\ Got' >= Got
           /\ worstOwned' \in Nat /\ worstOwned' >= worstOwned
<1>1. DmaOK' /\ Untaken' = Untaken /\ Got' = Got
  BY SameDma DEF EthInv
<1>2. Got \in Nat /\ worstOwned \in Nat
  BY ParsedFrame DEF EthInv, TypeOK
<1> QED
  BY <1>1, <1>2

\* The interrupt when there is a command to put into the ring ...
LEMMA PushInv ==
    ASSUME EthInv, RxInterrupt, IsCommand(Parsed)
    PROVE  RingOK' /\ OrderOK' /\ PacedOK' /\ RelaxedOK'
<1> DEFINE E == Len(executed)
<1>1. /\ Queue(Parsed) /\ rxFlag /\ rxFlag' = FALSE
      /\ UNCHANGED <<dmaVars, buffer, pc, history>>
  BY DEF RxInterrupt, eth_irq_input, Parsed
<1>2. /\ UNCHANGED <<sent, worstOwned, gap, leastGap, executed, pc>>
  BY <1>1 DEF history, arrivals
<1>3. Parsed # NONE /\ Parsed \in Frames /\ dstpot' = Parsed.from
  BY <1>1 DEF EthInv, TypeOK, Parsed, IsCommand, Queue
<1>4. /\ Got \in Nat /\ Got > 0 /\ Got <= Len(sent) /\ Got' = Got /\ Untaken' = Untaken
      /\ worstOwned < RXBUFNB => Untaken < RXBUFNB
      /\ Untaken < RXBUFNB => Parsed = sent[Got] /\ Parsed.n = Got
  <2>1. /\ Got \in Nat /\ Got > 0 /\ Got <= Len(sent)
        /\ worstOwned < RXBUFNB => Untaken < RXBUFNB
        /\ Untaken < RXBUFNB => Parsed = sent[Got]
    BY <1>3, ParsedFrame DEF EthInv
  <2>2. Got \in 1 .. Len(sent)
    BY <2>1, RingPlaces DEF EthInv
  <2>3. sent[Got].n = Got
    BY <2>2 DEF EthInv, DmaOK
  <2> QED
    BY <1>1, <1>2, <2>1, <2>3, SameFrames
<1>5. PICK m \in E .. Passed, add \in {0, 1} :
         /\ Passed' = m + add
         /\ \A i \in 1 .. m : Command(i)' = Command(i)
         /\ add = 1 => Command(m + 1)' = Parsed
         /\ Pending < RING - 1 => m = Passed /\ add = 1
  BY <1>1, <1>2, <1>3, PushEffect DEF EthInv
<1>6. /\ E \in Nat /\ Pending \in Nat /\ Passed = E + Pending /\ m \in Nat /\ m <= Passed
      /\ RING \in Nat /\ RING >= 3 /\ worstOwned \in Nat /\ RXBUFNB \in Nat /\ RXBUFNB >= 2
      /\ Len(sent) \in Nat
  BY RingPlaces, PendingRange, Sizes DEF Passed, EthInv, TypeOK
<1>7. \A i \in 1 .. Passed' : i \in 1 .. m \/ (i = m + 1 /\ add = 1)
  BY <1>5, <1>6
<1>8. \A i \in 1 .. m : i \in 1 .. Passed
  BY <1>6
<1>9. \A i \in 1 .. Passed : Command(i) \in Frames /\ IsCommand(Command(i))
  BY DEF EthInv, RingOK
<1>10. RingOK'
  <2> SUFFICES ASSUME NEW i \in 1 .. Passed'
               PROVE  Command(i)' \in Frames /\ IsCommand(Command(i)')
    BY DEF RingOK, IsCommand
  <2>1. CASE i \in 1 .. m
    BY <1>5, <1>8, <1>9, <2>1
  <2>2. CASE i = m + 1 /\ add = 1
    BY <1>3, <1>5, <2>2
  <2> QED
    BY <1>7, <2>1, <2>2
<1>11. OrderOK'
  <2> SUFFICES ASSUME worstOwned < RXBUFNB
               PROVE  /\ \A i \in 1 .. Passed' : Command(i)'.n <= Got'
                      /\ \A i, j \in 1 .. Passed' :
                            i < j => Command(i)'.n <= Command(j)'.n
    BY <1>2 DEF OrderOK
  <2>1. Parsed.n = Got
    BY <1>4
  <2>2. /\ \A i \in 1 .. Passed : Command(i).n <= Got
        /\ \A i, j \in 1 .. Passed : i < j => Command(i).n <= Command(j).n
    BY DEF EthInv, OrderOK
  <2>3. \A i \in 1 .. m : Command(i)'.n <= Got
    BY <1>5, <1>8, <2>2
  <2>4. add = 1 => Command(m + 1)'.n = Got
    BY <1>5, <2>1
  <2>5. \A i \in 1 .. Passed' : Command(i)'.n <= Got'
    BY <1>4, <1>7, <2>3, <2>4
  <2>6. \A i, j \in 1 .. m : i < j => Command(i)'.n <= Command(j)'.n
    BY <1>5, <1>8, <2>2
  <2>7. ASSUME NEW i \in 1 .. Passed', NEW j \in 1 .. Passed', i < j
        PROVE  Command(i)'.n <= Command(j)'.n
    <3>1. i \in 1 .. m
      BY <1>6, <1>7, <2>7
    <3>2. CASE j \in 1 .. m
      BY <2>6, <2>7, <3>1, <3>2
    <3>3. CASE j = m + 1 /\ add = 1
      BY <2>3, <2>4, <3>1, <3>3
    <3> QED
      BY <1>7, <3>2, <3>3
  <2> QED
    BY <2>5, <2>7
<1>12. ASSUME leastGap >= 1
       PROVE  /\ PacedLoop /\ PacedCommands /\ gap = 0 /\ Untaken = 1
              /\ Flag = 1 /\ Flag' = 0 /\ m = Passed /\ add = 1
              /\ Seen \in Int /\ Seen' = Seen + 1 /\ Got = Seen + 1 /\ Pending' = Pending + 1
  <2>1. PacedLoop /\ PacedCommands
    BY <1>12 DEF EthInv, PacedOK
  <2>2. gap = 0 /\ Untaken = 1 /\ Flag = 1 /\ Flag' = 0
    BY <1>1, <2>1 DEF PacedLoop, Flag
  <2>3. Pending <= 1
    BY <1>6, <2>1, <2>2 DEF PacedLoop
  <2>4. m = Passed /\ add = 1
    BY <1>5, <1>6, <2>3
  <2>5. Seen \in Int /\ Seen' = Seen + 1 /\ Got = Seen + 1
    BY <1>2, <1>6, <2>2 DEF Seen, Got
  <2>6. Pending' \in Int /\ Passed' = E + Pending'
    <3>1. Pending' \in Nat
      <4>1. TypeOK'
        BY InterruptType DEF EthInv
      <4>2. Eth_Buf_Read' \in 0 .. RING - 1 /\ Eth_Buf_Write' \in 0 .. RING - 1
        BY <4>1 DEF TypeOK, Positions
      <4>3. Distance(Eth_Buf_Read', Eth_Buf_Write', RING) \in Nat
        BY <4>2, RingPlaces, DistanceRange DEF EthInv
      <4> QED
        BY <4>3, Sizes DEF Pending
    <3> QED
      BY <1>2, <3>1 DEF Passed
  <2>7. Pending' = Pending + 1
    BY <1>5, <1>6, <2>4, <2>6
  <2> QED
    BY <2>1, <2>2, <2>4, <2>5, <2>7
<1>13. PacedOK'
  <2> SUFFICES ASSUME leastGap >= 1 PROVE PacedLoop' /\ PacedCommands'
    BY <1>2 DEF PacedOK
  <2>1. Parsed = sent[Got] /\ Parsed.n = Got
    BY <1>4, <1>6, <1>12
  <2>2. PacedLoop'
    BY <1>1, <1>2, <1>4, <1>6, <1>12 DEF PacedLoop
  <2>3. \A i \in 1 .. Passed :
           /\ Command(i)' = Command(i)
           /\ Command(i).n <= Seen /\ Command(i) = sent[Command(i).n]
    BY <1>5, <1>12 DEF PacedCommands
  <2>4. /\ Passed' = Passed + 1 /\ Passed \in Nat
        /\ Command(m + 1)' = Parsed /\ m = Passed
    BY <1>5, <1>6, <1>12
  <2>5. ASSUME NEW i \in 1 .. Passed'
        PROVE  Command(i)'.n <= Seen' /\ Command(i)' = sent'[Command(i)'.n]
    <3>1. CASE i \in 1 .. Passed
      <4>1. Command(i).n \in Nat
        BY <1>9, <3>1 DEF Frames
      <4> QED
        BY <1>2, <1>12, <2>3, <3>1, <4>1
    <3>2. CASE i = m + 1
      BY <1>2, <1>12, <2>1, <2>4, <3>2
    <3> QED
      BY <2>4, <3>1, <3>2
  <2>6. ASSUME NEW i \in 1 .. Passed', NEW j \in 1 .. Passed', i < j
        PROVE  Command(i)'.n < Command(j)'.n
    <3>1. i \in 1 .. Passed
      BY <2>4, <2>6
    <3>2. CASE j \in 1 .. Passed
      BY <1>12, <2>3, <2>6, <3>1, <3>2 DEF PacedCommands
    <3>3. CASE j = m + 1
      <4>1. Command(i).n <= Seen /\ Command(i)' = Command(i) /\ Command(i).n \in Nat
        BY <1>9, <2>3, <3>1 DEF Frames
      <4> QED
        BY <1>12, <2>1, <2>4, <3>3, <4>1
    <3> QED
      BY <2>4, <3>2, <3>3
  <2>7. ASSUME NEW k \in 1 .. Seen', IsCommand(sent[k])
        PROVE  \E i \in 1 .. Passed' : Command(i)' = sent[k]
    <3>1. CASE k \in 1 .. Seen
      <4>1. PICK i \in 1 .. Passed : Command(i) = sent[k]
        BY <1>12, <2>7, <3>1 DEF PacedCommands
      <4>2. i \in 1 .. Passed' /\ Command(i)' = sent[k]
        BY <2>3, <2>4, <4>1
      <4> QED
        BY <4>2
    <3>2. CASE k = Got
      <4>1. m + 1 \in 1 .. Passed'
        BY <2>4
      <4> QED
        BY <2>1, <2>4, <3>2, <4>1
    <3> QED
      BY <1>12, <3>1, <3>2
  <2>8. PacedCommands'
    BY <1>2, <2>5, <2>6, <2>7 DEF PacedCommands
  <2> QED
    BY <2>2, <2>8
<1>14. RelaxedOK'
  <2> SUFFICES ASSUME leastGap >= 2 PROVE Relaxed'
    BY <1>2 DEF RelaxedOK
  <2>1. Relaxed /\ leastGap >= 1
    BY DEF EthInv, RelaxedOK, TypeOK
  <2>2. Pending = 0 /\ Pending' = 1 /\ gap' = 0 /\ Flag' = 0
    BY <1>2, <1>6, <1>12, <2>1 DEF Relaxed
  <2>3. Command(m + 1)' = Parsed /\ m = E /\ E' = E
    BY <1>2, <1>5, <1>6, <1>12, <2>1, <2>2
  <2>4. Entry(0)' = Parsed
    <3>1. m + 1 - E' - 1 = 0 /\ ~(m + 1 <= E')
      BY <1>6, <2>3
    <3>2. Command(m + 1)' = Entry(0)'
      BY <3>1 DEF Command
    <3> QED
      BY <2>3, <3>2
  <2>5. \A i \in DOMAIN executed' : executed'[i].reply = executed'[i].command.from
    BY <1>2, <2>1 DEF Relaxed
  <2> QED
    BY <1>3, <2>2, <2>4, <2>5 DEF Relaxed
<1> QED
  BY <1>10, <1>11, <1>13, <1>14

\* ... and when there is none.
LEMMA NoPushInv ==
    ASSUME EthInv, RxInterrupt, ~IsCommand(Parsed)
    PROVE  RingOK' /\ OrderOK' /\ PacedOK' /\ RelaxedOK'
<1>1. /\ UNCHANGED <<ringVars, dstpot>> /\ rxFlag /\ rxFlag' = FALSE
      /\ UNCHANGED <<dmaVars, buffer, pc, history>>
  BY DEF RxInterrupt, eth_irq_input, Parsed, Queue
<1>2. UNCHANGED <<sent, worstOwned, gap, leastGap, executed, pc>>
  BY <1>1 DEF history, arrivals
<1>3. /\ Pending' = Pending /\ Passed' = Passed /\ Entry(0)' = Entry(0)
      /\ \A i \in 1 .. Passed : Command(i)' = Command(i)
  BY <1>1, <1>2, SameRing DEF EthInv
<1>4. RingOK' /\ OrderOK'
  BY <1>1, <1>2, <1>3, SameFrames, SameCommands DEF EthInv
<1>5. Untaken' = Untaken
  BY <1>1, <1>2, SameFrames
<1>6. Len(sent) \in Nat /\ Pending \in Nat /\ RXBUFNB \in Nat /\ RXBUFNB >= 2
  BY RingPlaces, PendingRange, Sizes DEF EthInv
<1>7. Flag = 1 /\ Flag' = 0
  BY <1>1 DEF Flag
<1>8. PacedOK'
  <2> SUFFICES ASSUME leastGap >= 1 PROVE PacedLoop' /\ PacedCommands'
    BY <1>2 DEF PacedOK
  <2>1. PacedLoop /\ PacedCommands
    BY DEF EthInv, PacedOK
  <2>2. gap = 0 /\ Untaken = 1
    BY <1>1, <2>1 DEF PacedLoop
  <2>3. PacedLoop'
    BY <1>1, <1>2, <1>3, <1>5, <1>6, <1>7, <2>1, <2>2 DEF PacedLoop
  <2>4. Seen' = Seen + 1 /\ Got = Seen + 1 /\ Seen \in Int
    BY <1>2, <1>6, <1>7, <2>2 DEF Seen, Got
  <2>5. Got > 0 => Parsed = sent[Got]
    BY <1>6, <2>2, ParsedFrame DEF EthInv
  <2>6. \A i \in 1 .. Passed : Command(i).n \in Nat
    BY DEF EthInv, RingOK, Frames
  <2>7. \A i \in 1 .. Passed : Command(i).n <= Seen /\ Command(i) = sent[Command(i).n]
    BY <2>1 DEF PacedCommands
  <2>8. \A i \in 1 .. Passed' :
           Command(i)'.n <= Seen' /\ Command(i)' = sent'[Command(i)'.n]
    BY <1>2, <1>3, <2>4, <2>6, <2>7
  <2>9. \A i, j \in 1 .. Passed' : i < j => Command(i)'.n < Command(j)'.n
    BY <1>3, <2>1 DEF PacedCommands
  <2>10. ASSUME NEW k \in 1 .. Seen', IsCommand(sent[k])
         PROVE  \E i \in 1 .. Passed' : Command(i)' = sent[k]
    <3>1. k # Got
      BY <2>5, <2>10
    <3>2. k \in 1 .. Seen
      BY <2>4, <3>1
    <3>3. PICK i \in 1 .. Passed : Command(i) = sent[k]
      BY <2>1, <2>10, <3>2 DEF PacedCommands
    <3> QED
      BY <1>3, <3>3
  <2>11. PacedCommands'
    BY <1>2, <2>8, <2>9, <2>10 DEF PacedCommands
  <2> QED
    BY <2>3, <2>11
<1>9. RelaxedOK'
  <2> SUFFICES ASSUME leastGap >= 2 PROVE Relaxed'
    BY <1>2 DEF RelaxedOK
  <2>1. Relaxed
    BY DEF EthInv, RelaxedOK
  <2> QED
    BY <1>1, <1>2, <1>3, <1>6, <1>7, <2>1 DEF Relaxed
<1> QED
  BY <1>4, <1>8, <1>9

LEMMA InterruptInv ==
    ASSUME EthInv, RxInterrupt
    PROVE  EthInv'
<1>1. TypeOK'
  BY InterruptType DEF EthInv
<1>2. UNCHANGED <<dmaVars, buffer, sent, worstOwned, pc>>
  BY DEF RxInterrupt, history, arrivals
<1>3. DmaOK'
  BY <1>2, SameFrames
<1> QED
  BY <1>1, <1>3, PushInv, NoPushInv DEF EthInv

\* A command is executed and leaves the ring.
LEMMA FinishInv ==
    ASSUME EthInv, FinishCommand
    PROVE  EthInv'
<1> DEFINE E == Len(executed)
           done == [command |-> Eth_Buf[Eth_Buf_Read], reply |-> dstpot]
<1>1. /\ executed' = Append(executed, done) /\ pc = "advance" /\ pc' = "tick" /\ ~rxFlag
      /\ UNCHANGED <<dmaVars, rxFlag, buffer, dstpot, arrivals>>
  BY DEF FinishCommand, Main
<1>2. UNCHANGED <<sent, worstOwned, gap, leastGap, rxFlag, buffer, dmaVars, dstpot>>
  BY <1>1 DEF arrivals
<1>3. done.command = Eth_Buf[Eth_Buf_Read] /\ done.reply = dstpot
  OBVIOUS
<1> HIDE DEF done
<1>4. TypeOK'
  BY FinishType DEF EthInv
<1>5. /\ Pending' = Pending - 1 /\ Passed' = Passed
      /\ \A i \in 1 .. Passed : Command(i)' = Command(i)
  BY PopEffect DEF EthInv
<1>6. /\ DmaOK' /\ Untaken' = Untaken /\ Got' \in Nat /\ Got' >= Got
      /\ worstOwned' \in Nat /\ worstOwned' >= worstOwned
  BY <1>1, <1>2, SameFrames
<1>7. RingOK' /\ OrderOK'
  BY <1>5, <1>6, SameCommands DEF EthInv
<1>8. Pending \in Nat /\ Pending >= 1 /\ gap \in 0 .. 2 /\ Flag = 0 /\ Flag' = 0
  BY <1>1, PendingRange DEF EthInv, TypeOK, Flag
<1>9. PacedOK'
  <2> SUFFICES ASSUME leastGap >= 1 PROVE PacedLoop' /\ PacedCommands'
    BY <1>2 DEF PacedOK
  <2>1. PacedLoop /\ PacedCommands
    BY DEF EthInv, PacedOK
  <2>2. Seen' = Seen /\ sent' = sent
    BY <1>2, <1>8 DEF Seen
  <2>3. PacedCommands'
    BY <1>5, <2>1, <2>2, SamePaced DEF EthInv
  <2>4. PacedLoop'
    BY <1>1, <1>2, <1>5, <1>6, <1>8, <2>1 DEF PacedLoop
  <2> QED
    BY <2>3, <2>4
<1>10. RelaxedOK'
  <2> SUFFICES ASSUME leastGap >= 2 PROVE Relaxed'
    BY <1>2 DEF RelaxedOK
  <2>1. Relaxed
    BY DEF EthInv, RelaxedOK
  <2>2. Pending = 1 /\ Pending' = 0 /\ gap # 2
    BY <1>1, <1>5, <1>8, <2>1 DEF Relaxed
  <2>3. dstpot = Eth_Buf[Eth_Buf_Read].from
    BY <2>1, <2>2, EntryIn, Sizes DEF Relaxed, EthInv
  <2>4. E \in Nat /\ Len(executed') = E + 1 /\ executed'[E + 1] = done
        /\ \A i \in 1 .. E : executed'[i] = executed[i]
    BY <1>1 DEF EthInv, TypeOK
  <2>5. DOMAIN executed = 1 .. E /\ DOMAIN executed' = 1 .. E + 1
    BY <1>4, <2>4 DEF EthInv, TypeOK
  <2>6. \A i \in DOMAIN executed' : executed'[i].reply = executed'[i].command.from
    BY <1>3, <2>1, <2>3, <2>4, <2>5 DEF Relaxed
  <2> QED
    BY <1>2, <1>8, <2>2, <2>6 DEF Relaxed
<1> QED
  BY <1>4, <1>6, <1>7, <1>9, <1>10 DEF EthInv

\* The loop polls the DMA.
LEMMA TakeInv ==
    ASSUME EthInv, TakeFrame
    PROVE  EthInv'
<1>1. /\ gap' = Smaller(gap + 1, 2) /\ ~rxFlag /\ pc = "tick"
      /\ UNCHANGED <<dma, owned, rxFlag, ringVars, dstpot, sent, worstOwned, leastGap, executed>>
      /\ \/ owned = 0 /\ pc' = "send"
         \/ owned # 0 /\ pc' = "release"
  BY DEF TakeFrame, Main
<1>2. TypeOK' /\ DmaOK'
  BY TakeType, TakeDma DEF EthInv
<1>3. /\ Pending' = Pending /\ Passed' = Passed /\ Entry(0)' = Entry(0)
      /\ \A i \in 1 .. Passed : Command(i)' = Command(i)
  BY <1>1, SameRing DEF EthInv
<1>4. /\ owned \in Nat /\ owned <= Len(sent) /\ worstOwned \in Nat /\ Len(sent) \in Nat
      /\ gap \in 0 .. 2 /\ Pending \in Nat /\ Flag = 0 /\ Flag' = 0
  BY <1>1, PendingRange DEF EthInv, TypeOK, DmaOK, Flag
<1>5. Untaken = owned /\ Untaken' = IF owned = 0 THEN 0 ELSE owned - 1
  BY <1>1 DEF Untaken
<1>6. Got' \in Nat /\ Got' >= Got
  BY <1>1, <1>4, <1>5 DEF Got
<1>7. RingOK' /\ OrderOK'
  BY <1>1, <1>3, <1>4, <1>6, SameCommands DEF EthInv
<1>8. gap' >= 1 /\ gap' <= 2 /\ (gap' = 1 => gap = 0) /\ (gap' = 2 => gap >= 1)
  BY <1>1, <1>4 DEF Smaller
<1>9. PacedOK'
  <2> SUFFICES ASSUME leastGap >= 1 PROVE PacedLoop' /\ PacedCommands'
    BY <1>1 DEF PacedOK
  <2>1. PacedLoop /\ PacedCommands
    BY DEF EthInv, PacedOK
  <2>2. Seen' = Seen
    BY <1>1, <1>4 DEF Seen
  <2>3. PacedCommands'
    BY <1>1, <1>3, <2>1, <2>2, SamePaced DEF EthInv
  <2>4. Untaken' = 0
    BY <1>5, <2>1 DEF PacedLoop
  <2>5. PacedLoop'
    BY <1>1, <1>3, <1>4, <1>8, <2>1, <2>4 DEF PacedLoop
  <2> QED
    BY <2>3, <2>5
<1>10. RelaxedOK'
  <2> SUFFICES ASSUME leastGap >= 2 PROVE Relaxed'
    BY <1>1 DEF RelaxedOK
  <2>1. Relaxed
    BY DEF EthInv, RelaxedOK
  <2> QED
    BY <1>1, <1>3, <1>4, <1>8, <2>1 DEF Relaxed
<1> QED
  BY <1>2, <1>7, <1>9, <1>10 DEF EthInv

\* The other steps of the loop: it looks at the ring, gives a buffer back, or finds
\* that no millisecond has passed.
LEMMA WalkInv ==
    ASSUME EthInv, StartCommand \/ NoCommand \/ NoTick \/ ReleaseFrame \/ UNCHANGED vars
    PROVE  EthInv'
<1>1. /\ UNCHANGED <<Rx_Buff, dma, RxDesc, buffer, sent, worstOwned, gap, leastGap,
                     executed, rxFlag, ringVars, dstpot>>
      /\ \/ UNCHANGED pc
         \/ pc = "send" /\ pc' = "advance" /\ Eth_Buf_Read # Eth_Buf_Write
         \/ pc = "send" /\ pc' = "tick" /\ Eth_Buf_Read = Eth_Buf_Write /\ ~rxFlag
         \/ pc \in {"tick", "release"} /\ pc' = "send"
  BY DEF StartCommand, NoCommand, NoTick, ReleaseFrame, Main, vars, history, arrivals,
         dmaVars
<1>2. TypeOK'
  BY WalkType, ReleaseType DEF EthInv
<1>3. /\ DmaOK' /\ Untaken' = Untaken /\ Got' = Got
  <2>1. CASE ReleaseFrame
    <3>1. DmaOK'
      BY <2>1, ReleaseDma DEF EthInv
    <3>2. Untaken' = Untaken
      BY <2>1 DEF ReleaseFrame, Main, Untaken
    <3> QED
      BY <1>1, <3>1, <3>2 DEF Got
  <2>2. CASE StartCommand \/ NoCommand \/ NoTick \/ UNCHANGED vars
    <3>1. UNCHANGED dmaVars /\ (pc' = "release" <=> pc = "release")
      BY <2>2 DEF StartCommand, NoCommand, NoTick, Main, vars
    <3> QED
      BY <1>1, <3>1, SameFrames
  <2> QED
    BY <2>1, <2>2
<1>4. /\ Pending' = Pending /\ Passed' = Passed /\ Entry(0)' = Entry(0)
      /\ \A i \in 1 .. Passed : Command(i)' = Command(i)
  BY <1>1, SameRing DEF EthInv
<1>5. Got \in Nat /\ worstOwned \in Nat
  BY ParsedFrame DEF EthInv, TypeOK
<1>6. RingOK' /\ OrderOK'
  BY <1>1, <1>3, <1>4, <1>5, SameCommands DEF EthInv
<1>7. Flag' = Flag /\ Flag \in Nat /\ gap \in 0 .. 2 /\ Pending \in Nat
  BY <1>1, PendingRange DEF Flag, EthInv, TypeOK
<1>8. pc' = "tick" => pc = "tick" \/ (Pending = 0 /\ Flag = 0)
  BY <1>1, PendingRange DEF EthInv, Flag
<1>9. PacedOK'
  <2> SUFFICES ASSUME leastGap >= 1 PROVE PacedLoop' /\ PacedCommands'
    BY <1>1 DEF PacedOK
  <2>1. PacedLoop /\ PacedCommands
    BY DEF EthInv, PacedOK
  <2>2. Seen' = Seen
    BY <1>1, <1>7 DEF Seen
  <2>3. PacedCommands'
    BY <1>1, <1>4, <2>1, <2>2, SamePaced DEF EthInv
  <2>4. PacedLoop'
    BY <1>1, <1>3, <1>4, <1>7, <1>8, <2>1 DEF PacedLoop
  <2> QED
    BY <2>3, <2>4
<1>10. RelaxedOK'
  <2> SUFFICES ASSUME leastGap >= 2 PROVE Relaxed'
    BY <1>1 DEF RelaxedOK
  <2>1. Relaxed
    BY DEF EthInv, RelaxedOK
  <2> QED
    BY <1>1, <1>4, <1>7, <1>8, <2>1 DEF Relaxed
<1> QED
  BY <1>2, <1>3, <1>6, <1>9, <1>10 DEF EthInv

-----------------------------------------------------------------------------
\* Every step keeps the invariant.
LEMMA NextInv == EthInv /\ [Next]_vars => EthInv'
<1> SUFFICES ASSUME EthInv, [Next]_vars PROVE EthInv'
  OBVIOUS
<1>1. CASE \E from \in Clients \cup {Other} : Arrive(from)
  BY <1>1, ArriveInv
<1>2. CASE RxInterrupt
  BY <1>2, InterruptInv
<1>3. CASE pollint_eth_send
  BY <1>3, FinishInv, WalkInv DEF pollint_eth_send
<1>4. CASE NoTick
  BY <1>4, WalkInv
<1>5. CASE low_level_input
  BY <1>5, TakeInv, WalkInv DEF low_level_input
<1>6. CASE UNCHANGED vars
  BY <1>6, WalkInv
<1> QED
  BY <1>1, <1>2, <1>3, <1>4, <1>5, <1>6 DEF Next

\* The invariant holds in every reachable state.
THEOREM EthInvariance == Spec => []EthInv
BY InitInv, NextInv, PTL DEF Spec

\* The rings and their indices, the owned buffers and the histories stay in range:
\* FinishCommand only executes what the interrupt has put there.
THEOREM EthTypeCorrect == Spec => []TypeOK
<1>1. EthInv => TypeOK
  BY DEF EthInv
<1> QED
  BY <1>1, EthInvariance, PTL

-----------------------------------------------------------------------------
\* Taken, which the properties speak of, lists commands passed: all of them but for
\* a ring that filled up behind the command being executed.
LEMMA TakenIs ==
    ASSUME TypeOK
    PROVE  /\ Len(Taken) \in Nat /\ Len(Taken) <= Passed
           /\ Pending < RING => Len(Taken) = Passed
           /\ \A i \in 1 .. Len(Taken) : Taken[i] = Command(i)
<1> DEFINE E == Len(executed)
           R == Eth_Buf_Read
           W == Eth_Buf_Write
           D == Distance(R, W, RING)
           done == [i \in DOMAIN executed |-> executed[i].command]
<1>1. /\ R \in 0 .. RING - 1 /\ W \in 0 .. RING - 1 /\ RING \in Nat \ {0} /\ RING >= 3
      /\ E \in Nat
  BY RingPlaces
<1>2. D \in 0 .. RING - 1
  BY <1>1 DEF Distance
<1>3. Pending \in Nat /\ D <= Pending /\ (Pending < RING => D = Pending)
  BY <1>2, PendingRange DEF Pending
<1>4. (W - R) % RING = D
  BY <1>1, Remainders
<1> HIDE DEF D
<1>5. Waiting = [i \in 1 .. D |-> Eth_Buf[(R + (i - 1)) % RING]]
  BY <1>4 DEF Waiting
<1>6. \A i \in 1 .. D : Waiting[i] = Entry(i - 1) /\ Waiting[i] \in Frames \cup {NONE}
  <2> SUFFICES ASSUME NEW i \in 1 .. D
               PROVE  Waiting[i] = Entry(i - 1) /\ Waiting[i] \in Frames \cup {NONE}
    OBVIOUS
  <2>1. i - 1 \in 0 .. RING - 1
    BY <1>1, <1>2
  <2>2. (R + (i - 1)) % RING = After(R, i - 1, RING)
    BY <1>1, <2>1, Remainders
  <2>3. Waiting[i] = Eth_Buf[After(R, i - 1, RING)]
    BY <1>5, <2>2
  <2>4. After(R, i - 1, RING) \in Positions
    BY <2>1, EntryIn
  <2> QED
    BY <2>3, <2>4 DEF Entry, TypeOK
<1>7. Waiting \in Seq(Frames \cup {NONE}) /\ Len(Waiting) = D
  <2>1. Waiting \in [1 .. D -> Frames \cup {NONE}]
    BY <1>5, <1>6
  <2> QED
    BY <1>2, <2>1
<1>8. done \in Seq(Frames \cup {NONE}) /\ Len(done) = E
      /\ \A i \in 1 .. E : done[i] = executed[i].command
  <2>1. DOMAIN executed = 1 .. E /\ \A i \in 1 .. E : executed[i].command \in Frames
    <3>1. executed \in Seq([command : Frames, reply : Clients \cup {NONE}])
      BY DEF TypeOK
    <3>2. DOMAIN executed = 1 .. E
      BY <3>1, LenProperties
    <3>3. \A i \in 1 .. E : executed[i] \in [command : Frames, reply : Clients \cup {NONE}]
      BY <3>1, LenProperties
    <3> QED
      BY <3>2, <3>3
  <2>2. done \in [1 .. E -> Frames \cup {NONE}]
    BY <2>1
  <2> QED
    BY <1>1, <2>1, <2>2
<1> HIDE DEF done
<1>9. Taken = done \o Waiting
  BY DEF Taken, done
<1>10. Len(Taken) = E + D /\ \A i \in 1 .. E + D :
          Taken[i] = IF i <= E THEN done[i] ELSE Waiting[i - E]
  <2>1. /\ Len(done \o Waiting) = Len(done) + Len(Waiting)
        /\ \A i \in 1 .. Len(done) + Len(Waiting) :
              (done \o Waiting)[i] = IF i <= Len(done) THEN done[i] ELSE Waiting[i - Len(done)]
    BY <1>7, <1>8, ConcatProperties
  <2> QED
    BY <1>7, <1>8, <1>9, <2>1
<1>11. ASSUME NEW i \in 1 .. E + D PROVE Taken[i] = Command(i)
  <2>1. CASE i <= E
    BY <1>1, <1>8, <1>10, <2>1 DEF Command
  <2>2. CASE i > E
    <3>1. i - E \in 1 .. D /\ i - E - 1 = (i - E) - 1 /\ ~(i <= E)
      BY <1>1, <1>2, <2>2
    <3>2. Taken[i] = Waiting[i - E]
      BY <1>10, <3>1
    <3>3. Waiting[i - E] = Entry(i - E - 1)
      BY <1>6, <3>1
    <3> QED
      BY <3>1, <3>2, <3>3 DEF Command
  <2> QED
    BY <1>1, <1>2, <2>1, <2>2
<1> QED
  BY <1>1, <1>2, <1>3, <1>10, <1>11 DEF Passed

\* As long as the DMA never ran out of buffers, no command is executed after a
\* younger one, whatever the ring loses.
THEOREM OrderCorrect == Spec => []InOrder
<1>1. EthInv => InOrder
  <2> SUFFICES ASSUME EthInv, worstOwned < RXBUFNB, NEW i \in 1 .. Len(Taken) - 1
               PROVE  Taken[i].n <= Taken[i + 1].n
    BY DEF InOrder
  <2>1. /\ Len(Taken) \in Nat /\ Len(Taken) <= Passed
        /\ \A k \in 1 .. Len(Taken) : Taken[k] = Command(k)
    BY TakenIs DEF EthInv
  <2>2. Passed \in Nat
    BY RingPlaces, PendingRange DEF EthInv, Passed
  <2>3. i \in 1 .. Len(Taken) /\ i + 1 \in 1 .. Len(Taken)
    BY <2>1
  <2>4. i \in 1 .. Passed /\ i + 1 \in 1 .. Passed /\ i < i + 1
    BY <2>1, <2>2, <2>3
  <2>5. Command(i).n <= Command(i + 1).n
    BY <2>4 DEF EthInv, OrderOK
  <2> QED
    BY <2>1, <2>3, <2>5
<1> QED
  BY <1>1, EthInvariance, PTL

\* With one poll between two frames, every command but the youngest frame is
\* executed once, in order.
THEOREM PacedCorrect == Spec => []PacedExactlyOnce
<1>1. EthInv => PacedExactlyOnce
  <2> SUFFICES ASSUME EthInv, leastGap >= 1, ~rxFlag PROVE PacedExactlyOnce
    BY DEF PacedExactlyOnce
  <2>1. PacedLoop /\ PacedCommands
    BY DEF EthInv, PacedOK
  <2>2. Flag = 0 /\ Seen = Len(sent) - 1
    BY RingPlaces DEF EthInv, Flag, Seen
  <2>3. Pending \in Nat /\ Pending < RING
    BY <2>1, <2>2, PendingRange, Sizes DEF EthInv, PacedLoop
  <2>4. Len(Taken) = Passed /\ \A i \in 1 .. Passed : Taken[i] = Command(i)
    BY <2>3, TakenIs DEF EthInv
  <2>5. \A i, j \in 1 .. Len(Taken) : i < j => Taken[i].n < Taken[j].n
    BY <2>1, <2>4 DEF PacedCommands
  <2>6. \A i \in 1 .. Len(Taken) : Taken[i] = sent[Taken[i].n]
    BY <2>1, <2>4 DEF PacedCommands
  <2>7. \A k \in 1 .. Len(sent) - 1 :
           IsCommand(sent[k]) => \E i \in 1 .. Len(Taken) : Taken[i] = sent[k]
    <3> SUFFICES ASSUME NEW k \in 1 .. Len(sent) - 1, IsCommand(sent[k])
                 PROVE  \E i \in 1 .. Len(Taken) : Taken[i] = sent[k]
      OBVIOUS
    <3>1. PICK i \in 1 .. Passed : Command(i) = sent[k]
      BY <2>1, <2>2 DEF PacedCommands
    <3> QED
      BY <2>4, <3>1
  <2> QED
    BY <2>5, <2>6, <2>7 DEF PacedExactlyOnce
<1> QED
  BY <1>1, EthInvariance, PTL

\* With two polls a reply goes to the client whose command it answers.
THEOREM ReplyCorrect == Spec => []ReplyToSender
<1>1. EthInv => ReplyToSender
  BY DEF EthInv, RelaxedOK, Relaxed, ReplyToSender
<1> QED
  BY <1>1, EthInvariance, PTL
=============================================================================
