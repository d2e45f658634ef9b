-------------------------------- MODULE Key ---------------------------------
(***************************************************************************)
(* The key driver, driver/input/key.c: key_Scan, which the main loop calls *)
(* every 10 ms, and the GetKey and GetScanCode it is made of.              *)
(***************************************************************************)
EXTENDS Integers, Sequences

CONSTANTS
    Codes,      \* the scan codes of PA10, PA11 and PA12: 4, 5 and 6
    NONE,       \* 0xff
    LONG_SCANS, \* the count that makes a long press (50)
    COUNT_WRAP, \* KeyPressCount is a u16_t (65536)
    MIN_GAP,    \* of KeyStream
    evNON,      \* no event was pushed
    evRst       \* pushed by a long press; a key's own event is its code here

ASSUME CodesAssumption == Codes \subseteq Nat /\ Codes # {} /\ NONE \notin Codes
ASSUME LongAssumption ==
    LONG_SCANS \in 2 .. COUNT_WRAP - 1 /\ COUNT_WRAP \in Nat /\ MIN_GAP \in Nat
ASSUME EventAssumption == {evNON, evRst} \cap Codes = {} /\ evNON # evRst

\* What the filter of three scans and the count of a long press allow to promise.
ASSUME GapAssumption == MIN_GAP <= 6 /\ MIN_GAP <= LONG_SCANS + 1

KeyFilterLen == 3

VARIABLES
    SCodeBuf,       \* the last KeyFilterLen scan codes, newest first
    PreKeyCode,     \* the last stable scan code
    PressedKey,     \* the key whose press was reported and whose release was not
    KeyPressCount,  \* stable scans of the pressed key
    key_3s,         \* the pressed key was reported as a long press
    event,          \* what this key_Scan pushed
    quiet           \* history: scans since the last event or the start, up to MIN_GAP

vars == <<SCodeBuf, PreKeyCode, PressedKey, KeyPressCount, key_3s, event, quiet>>

CodeOrNone == Codes \cup {NONE}

\* Types of the scan buffer, the key states and the 16-bit press counter.
TypeOK ==
    /\ SCodeBuf \in [1 .. KeyFilterLen -> CodeOrNone]
    /\ PreKeyCode \in CodeOrNone
    /\ PressedKey \in CodeOrNone
    /\ KeyPressCount \in 0 .. COUNT_WRAP - 1
    /\ key_3s \in BOOLEAN
    /\ event \in Codes \cup {evNON, evRst}
    /\ quiet \in 0 .. MIN_GAP

\* key_Par_Init
Init ==
    /\ SCodeBuf = [i \in 1 .. KeyFilterLen |-> NONE]
    /\ PreKeyCode = NONE
    /\ PressedKey = NONE
    /\ KeyPressCount = 0
    /\ key_3s = FALSE
    /\ event = evNON
    /\ quiet = 0

-----------------------------------------------------------------------------
\* GetScanCode: of the keys held down together, the first pin that is tested.
ScanCode(pins) ==
    IF pins = {} THEN NONE ELSE CHOOSE c \in pins : \A d \in pins : c <= d

Shifted(code) == <<code>> \o SubSeq(SCodeBuf, 1, KeyFilterLen - 1)
Stable(buf, code) == \A i \in DOMAIN buf : buf[i] = code

\* key_Scan's reaction to what GetKey returned.
Push(e) ==
    /\ event' = e
    /\ quiet' = IF e # evNON THEN 0 ELSE IF quiet < MIN_GAP THEN quiet + 1 ELSE MIN_GAP

Nothing == Push(evNON) /\ UNCHANGED key_3s              \* NULL_KEY, or a press

\* Mutant: the mark of a long press outlives its key.
ReportReleaseKeepingMark(key) ==
    /\ Push(IF key_3s THEN evNON ELSE key)
    /\ UNCHANGED key_3s

\* Mutant: the release of a long press is reported too.
ReportReleaseAlways(key) == key_3s' = FALSE /\ Push(key)

ReportRelease(key) ==                                   \* NOR_KEY
    /\ key_3s' = FALSE
    /\ Push(IF key_3s THEN evNON ELSE key)

ReportLong == key_3s' = TRUE /\ Push(evRst)             \* RESET_KEY

\* GetKey: the three last codes differ.
Bouncing(code) ==
    /\ ~Stable(SCodeBuf', code)
    /\ Nothing
    /\ UNCHANGED <<PreKeyCode, PressedKey, KeyPressCount>>

Rest ==
    /\ Stable(SCodeBuf', NONE)
    /\ PressedKey = NONE
    /\ PreKeyCode' = NONE
    /\ KeyPressCount' = 0
    /\ Nothing
    /\ UNCHANGED PressedKey

\* A stable code other than the last one is only noted, pressed or released.
NoteCode(code) ==
    /\ Stable(SCodeBuf', code)
    /\ code # PreKeyCode
    /\ code # NONE \/ PressedKey # NONE
    /\ PreKeyCode' = code
    /\ Nothing
    /\ UNCHANGED <<PressedKey, KeyPressCount>>

AcceptPress(code) ==
    /\ Stable(SCodeBuf', code)
    /\ code # NONE
    /\ PressedKey = NONE
    /\ code = PreKeyCode
    /\ PressedKey' = code
    /\ KeyPressCount' = 1
    /\ Nothing
    /\ UNCHANGED PreKeyCode

\* Mutant: the counter is not cut to 16 bits.
KeepHoldingUnbounded(code) ==
    /\ Stable(SCodeBuf', code)
    /\ code # NONE
    /\ PressedKey = code
    /\ code = PreKeyCode
    /\ KeyPressCount' = KeyPressCount + 1
    /\ IF KeyPressCount' = LONG_SCANS THEN ReportLong ELSE Nothing
    /\ UNCHANGED <<PreKeyCode, PressedKey>>

KeepHolding(code) ==
    /\ Stable(SCodeBuf', code)
    /\ code # NONE
    /\ PressedKey = code
    /\ code = PreKeyCode
    /\ KeyPressCount' = (KeyPressCount + 1) % COUNT_WRAP
    /\ IF KeyPressCount' = LONG_SCANS THEN ReportLong ELSE Nothing
    /\ UNCHANGED <<PreKeyCode, PressedKey>>

\* The release, or another key that took over before it was seen.
Release(code) ==
    /\ Stable(SCodeBuf', code)
    /\ PressedKey \notin {NONE, code}
    /\ code = PreKeyCode
    /\ PreKeyCode' = NONE
    /\ PressedKey' = NONE
    /\ KeyPressCount' = 0
    /\ ReportRelease(PressedKey)

key_Scan(pins) ==
    LET code == ScanCode(pins) IN
    /\ SCodeBuf' = Shifted(code)
    /\ \/ Bouncing(code)
       \/ Rest
       \/ NoteCode(code)
       \/ AcceptPress(code)
       \/ KeepHolding(code)
       \/ Release(code)

Next == \E pins \in SUBSET Codes : key_Scan(pins)

Spec == Init /\ [][Next]_vars

-----------------------------------------------------------------------------
\* key_3s makes the next release silent.  It is set exactly while the key that
\* earned it is down, and no key stays down for LONG_SCANS without earning it:
\* were it left behind, the next short press of any key would be swallowed.
LongFlagOK ==
    /\ key_3s => PressedKey # NONE
    /\ PressedKey # NONE /\ ~key_3s => KeyPressCount \in 1 .. LONG_SCANS - 1

\* Whatever the contacts do from scan to scan, and whichever keys overlap, the
\* driver reports as KeyStream promises: press and release pair up, a long
\* press silences exactly its own release, and events are MIN_GAP scans apart.
Stream == INSTANCE KeyStream WITH
    Keys <- Codes, NoKey <- NONE, down <- PressedKey, long <- key_3s
KeyStreamSpec == Stream!Spec
=============================================================================
