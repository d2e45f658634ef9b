----------------------------- MODULE EventQueue -----------------------------
(***************************************************************************)
(* The event ring of app/eventManage.c: EventRdWri and its callers.        *)
(* eventbuffer and parabuffer are written and read at the same index, so   *)
(* one function holds the pairs.  The main loop is the only caller: pushes *)
(* come from key_Scan, config_CheckStatus and the menu callbacks, all of   *)
(* which it runs, and no interrupt handler touches the ring.               *)
(***************************************************************************)
EXTENDS Integers, Sequences

CONSTANTS
    Events,         \* the pairs <<evt, par>> callers push
    EVENTBUFLEN,    \* the length of the buffers (32)
    evNON           \* what ReadEvent yields when there is no event

ASSUME RingAssumption == EVENTBUFLEN \in 1 .. 255   \* the counters are uint8_t
ASSUME EventAssumption == evNON \notin Events

VARIABLES
    eventbuffer,    \* the ring; evNON where nothing was written yet
    eventcount,     \* events stored
    eventrdpos,     \* where the oldest one is
    event           \* the STR_EVENT of main(), filled by ReadEvent

vars == <<eventbuffer, eventcount, eventrdpos, event>>

Positions == 0 .. EVENTBUFLEN - 1

\* Types of the ring; the counters stay inside the buffers.
TypeOK ==
    /\ eventbuffer \in [Positions -> Events \cup {evNON}]
    /\ eventcount \in 0 .. EVENTBUFLEN
    /\ eventrdpos \in Positions
    /\ event \in Events \cup {evNON}

\* The static variables start as zeroes; main() clears the ring before its loop.
Init ==
    /\ eventbuffer = [p \in Positions |-> evNON]
    /\ eventcount = 0
    /\ eventrdpos = 0
    /\ event = evNON

WritePos == (eventrdpos + eventcount) % EVENTBUFLEN

\* Mutant: the test for a full ring is off by one.
WriteEventOneTooMany(e) ==
    /\ IF eventcount <= EVENTBUFLEN
       THEN /\ eventbuffer' = [eventbuffer EXCEPT ![WritePos] = e]
            /\ eventcount' = eventcount + 1
       ELSE UNCHANGED <<eventbuffer, eventcount>>
    /\ UNCHANGED <<eventrdpos, event>>

\* Mutant: a push to the full ring overwrites the oldest event.
WriteEventOverwriting(e) ==
    /\ eventbuffer' = [eventbuffer EXCEPT ![WritePos] = e]
    /\ IF eventcount < EVENTBUFLEN
       THEN eventcount' = eventcount + 1 /\ UNCHANGED eventrdpos
       ELSE eventrdpos' = (eventrdpos + 1) % EVENTBUFLEN /\ UNCHANGED eventcount
    /\ UNCHANGED event

\* WRITE_EVENT: WriteEvent, PushEvt_EvtPar, PushEvt_OnlyEvt.
WriteEvent(e) ==
    /\ IF eventcount < EVENTBUFLEN
       THEN /\ eventbuffer' = [eventbuffer EXCEPT ![WritePos] = e]
            /\ eventcount' = eventcount + 1
       ELSE UNCHANGED <<eventbuffer, eventcount>>
    /\ UNCHANGED <<eventrdpos, event>>

\* READ_EVENT.
ReadEvent ==
    /\ IF eventcount # 0
       THEN /\ event' = eventbuffer[eventrdpos]
            /\ eventrdpos' = (eventrdpos + 1) % EVENTBUFLEN
            /\ eventcount' = eventcount - 1
       ELSE /\ event' = evNON
            /\ UNCHANGED <<eventrdpos, eventcount>>
    /\ UNCHANGED eventbuffer

\* CLEAR_EVENT.
ClearAllEvent ==
    /\ eventcount' = 0
    /\ eventrdpos' = 0
    /\ UNCHANGED <<eventbuffer, event>>

Next ==
    \/ \E e \in Events : WriteEvent(e)
    \/ ReadEvent
    \/ ClearAllEvent

Spec == Init /\ [][Next]_vars

-----------------------------------------------------------------------------
\* The ring is the queue of EventFifo whatever mix of pushes, reads and clears
\* reaches it: order is kept across the wrap of eventrdpos, no stored event is
\* overwritten, and only a push to a full ring is ignored.
queue == [i \in 1 .. eventcount |-> eventbuffer[(eventrdpos + (i - 1)) % EVENTBUFLEN]]
Fifo == INSTANCE EventFifo
FifoSpec == Fifo!Spec
=============================================================================
