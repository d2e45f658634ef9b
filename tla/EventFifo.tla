----------------------------- MODULE EventFifo ------------------------------
(***************************************************************************)
(* What app/eventManage.c promises its callers: a first-in first-out queue *)
(* of events that holds at most EVENTBUFLEN of them and ignores an event   *)
(* pushed when it is full.                                                 *)
(***************************************************************************)
EXTENDS Integers, Sequences

CONSTANTS
    Events,         \* the pairs <<evt, par>> callers push
    EVENTBUFLEN,    \* the capacity, a positive number
    evNON           \* what a read of the empty queue yields, no event

VARIABLES
    queue,  \* the events not read yet, oldest first
    event   \* the event main() read last

vars == <<queue, event>>

\* Types of the queue and of the last event read.
TypeOK == queue \in Seq(Events) /\ event \in Events \cup {evNON}

\* The queue after pushing e to q, used by every module that pushes events.
Pushed(q, e) == IF Len(q) < EVENTBUFLEN THEN Append(q, e) ELSE q

Init == queue = <<>> /\ event = evNON

Write(e) == queue' = Pushed(queue, e) /\ UNCHANGED event

Read ==
    \/ queue = <<>> /\ event' = evNON /\ UNCHANGED queue
    \/ queue # <<>> /\ event' = Head(queue) /\ queue' = Tail(queue)

Clear == queue' = <<>> /\ UNCHANGED event

Next == Read \/ Clear \/ \E e \in Events : Write(e)

Spec == Init /\ [][Next]_vars
=============================================================================
