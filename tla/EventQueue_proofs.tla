-------------------------- MODULE EventQueue_proofs --------------------------
(***************************************************************************)
(* The ring of app/eventManage.c is the bounded queue of EventFifo, for    *)
(* every length of the buffers a uint8_t can count and every set of events. *)
(***************************************************************************)
EXTENDS EventQueue, SequenceTheorems, TLAPS

Stored == Events \cup {evNON}

\* Positions wrap once at most: the sum of a position and a count stays below
\* twice the length of the ring.
LEMMA Wraps ==
    ASSUME NEW p \in 0 .. 2 * EVENTBUFLEN - 1
    PROVE  p % EVENTBUFLEN = IF p < EVENTBUFLEN THEN p ELSE p - EVENTBUFLEN
<1> EVENTBUFLEN \in Nat /\ EVENTBUFLEN > 0
  BY RingAssumption
<1>1. CASE p < EVENTBUFLEN
  BY <1>1, SMT
<1>2. CASE p >= EVENTBUFLEN
  <2>1. p = EVENTBUFLEN * 1 + (p - EVENTBUFLEN) /\ p - EVENTBUFLEN \in 0 .. EVENTBUFLEN - 1
    BY <1>2
  <2> QED
    BY <2>1, <1>2, SMT
<1> QED
  BY <1>1, <1>2

-----------------------------------------------------------------------------
\* Every counter stays inside the buffers (TypeOK), whatever is called: the
\* write position of EventRdWri is computed from both.
THEOREM TypeCorrect == Spec => []TypeOK
<1> EVENTBUFLEN \in Nat /\ EVENTBUFLEN > 0
  BY RingAssumption
<1>1. Init => TypeOK
  BY DEF Init, TypeOK, Positions
<1>2. TypeOK /\ [Next]_vars => TypeOK'
  <2> SUFFICES ASSUME TypeOK, [Next]_vars PROVE TypeOK'
    OBVIOUS
  <2> USE DEF TypeOK, Positions
  <2>1. ASSUME NEW e \in Events, WriteEvent(e) PROVE TypeOK'
    <3>1. WritePos \in Positions
      BY Wraps DEF WritePos
    <3> QED
      BY <2>1, <3>1 DEF WriteEvent
  <2>2. CASE ReadEvent
    <3>1. (eventrdpos + 1) % EVENTBUFLEN \in Positions
      BY Wraps
    <3> QED
      BY <2>2, <3>1 DEF ReadEvent
  <2>3. CASE ClearAllEvent
    BY <2>3 DEF ClearAllEvent
  <2>4. CASE UNCHANGED vars
    BY <2>4 DEF vars
  <2> QED
    BY <2>1, <2>2, <2>3, <2>4 DEF Next
<1> QED
  BY <1>1, <1>2, PTL DEF Spec

-----------------------------------------------------------------------------
\* The queue a ring stands for, for any contents, count and read position: the
\* proofs need it before and after a step.
At(rd, i) == (rd + (i - 1)) % EVENTBUFLEN
QueueOf(buffer, count, rd) == [i \in 1 .. count |-> buffer[At(rd, i)]]

\* It is a sequence of count events.
LEMMA QueueIsSeq ==
    ASSUME NEW buffer \in [Positions -> Stored], NEW count \in 0 .. EVENTBUFLEN,
           NEW rd \in Positions
    PROVE  /\ QueueOf(buffer, count, rd) \in Seq(Stored)
           /\ Len(QueueOf(buffer, count, rd)) = count
           /\ \A i \in 1 .. count : /\ At(rd, i) \in Positions
                                    /\ QueueOf(buffer, count, rd)[i] = buffer[At(rd, i)]
<1> EVENTBUFLEN \in Nat /\ EVENTBUFLEN > 0
  BY RingAssumption
<1>1. ASSUME NEW i \in 1 .. count PROVE At(rd, i) \in Positions
  <2>1. rd + (i - 1) \in 0 .. 2 * EVENTBUFLEN - 1
    BY DEF Positions
  <2> QED
    BY <2>1, Wraps DEF At, Positions
<1>2. QueueOf(buffer, count, rd) \in [1 .. count -> Stored]
  BY <1>1 DEF QueueOf
<1>3. QueueOf(buffer, count, rd) \in Seq(Stored)
  BY <1>2, SeqDef
<1> QED
  BY <1>1, <1>2, <1>3, LenProperties DEF QueueOf

\* The same, of the queue before and after a step.
LEMMA QueueBefore ==
    ASSUME TypeOK
    PROVE  /\ queue \in Seq(Stored)
           /\ Len(queue) = eventcount
           /\ \A i \in 1 .. eventcount : /\ At(eventrdpos, i) \in Positions
                                         /\ queue[i] = eventbuffer[At(eventrdpos, i)]
<1>1. queue = QueueOf(eventbuffer, eventcount, eventrdpos)
  BY DEF queue, QueueOf, At
<1> QED
  BY <1>1, QueueIsSeq DEF TypeOK, Stored

LEMMA QueueAfter ==
    ASSUME TypeOK'
    PROVE  /\ queue' \in Seq(Stored)
           /\ Len(queue') = eventcount'
           /\ \A i \in 1 .. eventcount' : /\ At(eventrdpos', i) \in Positions
                                          /\ queue'[i] = eventbuffer'[At(eventrdpos', i)]
<1>1. queue' = QueueOf(eventbuffer', eventcount', eventrdpos')
  BY DEF queue, QueueOf, At
<1>2. /\ eventbuffer' \in [Positions -> Stored]
      /\ eventcount' \in 0 .. EVENTBUFLEN
      /\ eventrdpos' \in Positions
  BY DEF TypeOK, Stored, Positions
<1> QED
  BY <1>1, <1>2, QueueIsSeq

\* What a push does to the sequence: it is appended unless the ring is full.
LEMMA WritePushes ==
    ASSUME TypeOK, TypeOK', NEW e \in Events, WriteEvent(e)
    PROVE  Fifo!Write(e)
<1> EVENTBUFLEN \in Nat /\ EVENTBUFLEN > 0
  BY RingAssumption
<1> USE DEF TypeOK, Positions
<1>q. queue \in Seq(Stored) /\ Len(queue) = eventcount
  BY QueueBefore
<1>1. CASE eventcount >= EVENTBUFLEN
  <2>1. UNCHANGED <<eventbuffer, eventcount, eventrdpos, event>>
    BY <1>1 DEF WriteEvent
  <2> QED
    BY <1>1, <1>q, <2>1 DEF Fifo!Write, Fifo!Pushed, queue
<1>2. CASE eventcount < EVENTBUFLEN
  <2>1. /\ eventbuffer' = [eventbuffer EXCEPT ![WritePos] = e]
        /\ eventcount' = eventcount + 1
        /\ UNCHANGED <<eventrdpos, event>>
    BY <1>2 DEF WriteEvent
  <2>2. /\ queue' \in Seq(Stored)
        /\ Len(queue') = eventcount + 1
        /\ \A i \in 1 .. eventcount + 1 : queue'[i] = eventbuffer'[At(eventrdpos, i)]
    BY <2>1, QueueAfter
  <2>3. At(eventrdpos, eventcount + 1) = WritePos /\ WritePos \in Positions
    BY Wraps DEF At, WritePos
  <2>4. ASSUME NEW i \in 1 .. eventcount PROVE At(eventrdpos, i) # WritePos
    <3>1. /\ eventrdpos + (i - 1) \in 0 .. 2 * EVENTBUFLEN - 1
          /\ eventrdpos + eventcount \in 0 .. 2 * EVENTBUFLEN - 1
      BY <1>2
    <3> QED
      BY <3>1, <1>2, Wraps DEF At, WritePos
  <2>5. Append(queue, e) \in Seq(Stored) /\ Len(Append(queue, e)) = eventcount + 1
    BY <1>q, AppendProperties DEF Stored
  <2>6. ASSUME NEW i \in 1 .. eventcount + 1 PROVE queue'[i] = Append(queue, e)[i]
    <3>1. CASE i = eventcount + 1
      BY <3>1, <2>1, <2>2, <2>3, <1>q, AppendProperties DEF Stored
    <3>2. CASE i \in 1 .. eventcount
      <4>1. queue'[i] = eventbuffer[At(eventrdpos, i)]
        BY <3>2, <2>1, <2>2, <2>4, QueueBefore
      <4>2. Append(queue, e)[i] = queue[i]
        BY <3>2, <1>q, AppendProperties DEF Stored
      <4>3. queue[i] = eventbuffer[At(eventrdpos, i)]
        BY <3>2, QueueBefore
      <4> QED
        BY <4>1, <4>2, <4>3
    <3>3. i = eventcount + 1 \/ i \in 1 .. eventcount
      BY <1>2
    <3> QED
      BY <3>1, <3>2, <3>3
  <2>7. queue' = Append(queue, e)
    BY <2>2, <2>5, <2>6, SeqEqual
  <2> QED
    BY <2>1, <2>7, <1>q, <1>2 DEF Fifo!Write, Fifo!Pushed
<1> QED
  BY <1>1, <1>2

\* What a read does to it: its head is taken off, unless there is none.
LEMMA ReadTakes ==
    ASSUME TypeOK, TypeOK', ReadEvent
    PROVE  Fifo!Read
<1> EVENTBUFLEN \in Nat /\ EVENTBUFLEN > 0
  BY RingAssumption
<1> USE DEF TypeOK, Positions
<1>q. queue \in Seq(Stored) /\ Len(queue) = eventcount
  BY QueueBefore
<1>1. CASE eventcount = 0
  <2>1. event' = evNON /\ UNCHANGED <<eventbuffer, eventrdpos, eventcount>>
    BY <1>1 DEF ReadEvent
  <2>2. queue = <<>>
    BY <1>1, <1>q, EmptySeq
  <2>3. queue' = queue
    BY <2>1 DEF queue
  <2> QED
    BY <2>1, <2>2, <2>3 DEF Fifo!Read
<1>2. CASE eventcount # 0
  <2>1. /\ event' = eventbuffer[eventrdpos]
        /\ eventrdpos' = (eventrdpos + 1) % EVENTBUFLEN
        /\ eventcount' = eventcount - 1
        /\ UNCHANGED eventbuffer
    BY <1>2 DEF ReadEvent
  <2>2. queue # <<>>
    BY <1>2, <1>q, EmptySeq
  <2>3. Head(queue) = eventbuffer[eventrdpos]
    <3>1. At(eventrdpos, 1) = eventrdpos
      BY Wraps DEF At
    <3> QED
      BY <3>1, <1>2, <1>q, QueueBefore
  <2>4. /\ Tail(queue) \in Seq(Stored)
        /\ Len(Tail(queue)) = eventcount - 1
        /\ \A i \in 1 .. eventcount - 1 : Tail(queue)[i] = queue[i + 1]
    BY <1>q, <2>2, HeadTailProperties
  <2>5. /\ queue' \in Seq(Stored)
        /\ Len(queue') = eventcount'
        /\ \A i \in 1 .. eventcount' : queue'[i] = eventbuffer'[At(eventrdpos', i)]
    BY QueueAfter
  <2>6. ASSUME NEW i \in 1 .. eventcount - 1 PROVE At(eventrdpos', i) = At(eventrdpos, i + 1)
    <3>1. CASE eventrdpos + 1 < EVENTBUFLEN
      <4>1. eventrdpos' = eventrdpos + 1
        <5>1. (eventrdpos + 1) % EVENTBUFLEN = eventrdpos + 1
          BY <3>1, Wraps
        <5> QED
          BY <2>1, <5>1
      <4> QED
        BY <4>1 DEF At
    <3>2. CASE eventrdpos + 1 = EVENTBUFLEN
      <4>1. eventrdpos' = 0
        BY <2>1, <3>2, Wraps
      <4>2. (i - 1) % EVENTBUFLEN = i - 1 /\ (eventrdpos + i) % EVENTBUFLEN = i - 1
        BY <3>2, Wraps
      <4> QED
        BY <4>1, <4>2 DEF At
    <3> QED
      BY <3>1, <3>2
  <2>7. queue' = Tail(queue)
    <3>1. ASSUME NEW i \in 1 .. eventcount - 1 PROVE queue'[i] = Tail(queue)[i]
      <4>1. queue'[i] = eventbuffer[At(eventrdpos, i + 1)]
        BY <2>1, <2>5, <2>6
      <4>2. Tail(queue)[i] = queue[i + 1] /\ i + 1 \in 1 .. eventcount
        BY <2>4
      <4> QED
        BY <4>1, <4>2, QueueBefore
    <3> QED
      BY <2>1, <2>4, <2>5, <3>1, SeqEqual
  <2> QED
    BY <2>1, <2>2, <2>3, <2>7 DEF Fifo!Read
<1> QED
  BY <1>1, <1>2

\* The ring keeps the order of the events and loses none but those pushed to a
\* full ring: it implements the queue (FifoSpec).
THEOREM RingIsFifo == Spec => FifoSpec
<1> EVENTBUFLEN \in Nat /\ EVENTBUFLEN > 0
  BY RingAssumption
<1>1. Init => Fifo!Init
  <2> SUFFICES ASSUME Init PROVE Fifo!Init
    OBVIOUS
  <2>1. TypeOK /\ eventcount = 0
    BY DEF Init, TypeOK, Positions
  <2>2. queue = <<>>
    BY <2>1, QueueBefore, EmptySeq
  <2> QED
    BY <2>2 DEF Init, Fifo!Init
<1>2. TypeOK /\ TypeOK' /\ [Next]_vars => [Fifo!Next]_<<queue, event>>
  <2> SUFFICES ASSUME TypeOK, TypeOK', [Next]_vars PROVE [Fifo!Next]_<<queue, event>>
    OBVIOUS
  <2>1. ASSUME NEW e \in Events, WriteEvent(e) PROVE Fifo!Next
    BY <2>1, WritePushes DEF Fifo!Next
  <2>2. CASE ReadEvent
    BY <2>2, ReadTakes DEF Fifo!Next
  <2>3. CASE ClearAllEvent
    <3>1. eventcount' = 0 /\ UNCHANGED event
      BY <2>3 DEF ClearAllEvent
    <3>2. queue' \in Seq(Stored) /\ Len(queue') = 0
      BY <3>1, QueueAfter
    <3>3. queue' = <<>>
      BY <3>2, EmptySeq
    <3> QED
      BY <3>1, <3>3 DEF Fifo!Next, Fifo!Clear
  <2>4. CASE UNCHANGED vars
    BY <2>4 DEF vars, queue
  <2> QED
    BY <2>1, <2>2, <2>3, <2>4 DEF Next
<1> QED
  BY <1>1, <1>2, TypeCorrect, PTL DEF Spec, FifoSpec, Fifo!Spec, Fifo!vars
=============================================================================
