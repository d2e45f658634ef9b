----------------------------- MODULE KeyStream ------------------------------
(***************************************************************************)
(* What the key driver promises the rest of the firmware: one event for    *)
(* each key that goes down and comes up again, a reset event while a key   *)
(* is held for long and then none for its release, and never two events    *)
(* closer than MIN_GAP scans.                                              *)
(***************************************************************************)
EXTENDS Integers

CONSTANTS
    Keys,       \* the keys
    NoKey,      \* no key is down; not a key
    MIN_GAP,    \* scans from one event, or the start, to the next, at least
    evNON,      \* the scan pushed no event
    evRst       \* the event of a long press; a key's own event is the key

VARIABLES
    down,       \* the key that is down
    long,       \* it was reported as a long press
    quiet,      \* scans since the last event or the start, up to MIN_GAP
    event       \* what the last scan pushed

vars == <<down, long, quiet, event>>

\* Types of the key that is down and of what was reported of it.
TypeOK ==
    /\ down \in Keys \cup {NoKey}
    /\ long \in BOOLEAN
    /\ quiet \in 0 .. MIN_GAP
    /\ event \in Keys \cup {evNON, evRst}

Init == down = NoKey /\ long = FALSE /\ quiet = 0 /\ event = evNON

Silent ==
    /\ event' = evNON
    /\ quiet' = IF quiet < MIN_GAP THEN quiet + 1 ELSE MIN_GAP

Spoken(e) == quiet + 1 >= MIN_GAP /\ quiet' = 0 /\ event' = e

Wait == Silent /\ UNCHANGED <<down, long>>

GoDown == down = NoKey /\ down' \in Keys /\ Silent /\ UNCHANGED long

Hold == down # NoKey /\ long' = TRUE /\ Spoken(evRst) /\ UNCHANGED down

ComeUp ==
    /\ down # NoKey
    /\ down' = NoKey
    /\ long' = FALSE
    /\ IF long THEN Silent ELSE Spoken(down)

Next == Wait \/ GoDown \/ Hold \/ ComeUp

Spec == Init /\ [][Next]_vars
=============================================================================
