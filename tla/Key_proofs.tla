------------------------------ MODULE Key_proofs ------------------------------
(***************************************************************************)
(* The key driver keeps its promise, KeyStream, for any keys, any length   *)
(* of a long press and any width of the counter, whatever the contacts do. *)
(***************************************************************************)
EXTENDS Key, SequenceTheorems, WellFoundedInduction, TLAPS

-----------------------------------------------------------------------------
\* Of several keys held down there is a first one.
LEMMA FirstKey ==
    ASSUME NEW pins \in SUBSET Codes, pins # {}
    PROVE  \E c \in pins : \A d \in pins : c <= d
<1>1. \E c \in pins : \A d \in pins : ~ (<<d, c>> \in OpToRel(<, Nat))
  BY NatLessThanWellFounded, WFMin, CodesAssumption
<1>2. \A c, d \in Nat : ~ (<<d, c>> \in OpToRel(<, Nat)) => c <= d
  BY DEF OpToRel
<1> QED
  BY <1>1, <1>2, CodesAssumption

LEMMA ScanCodeType ==
    ASSUME NEW pins \in SUBSET Codes
    PROVE  ScanCode(pins) \in CodeOrNone
BY FirstKey DEF ScanCode, CodeOrNone

\* The counter wraps at its width only.
LEMMA CountStep ==
    ASSUME NEW n \in 0 .. COUNT_WRAP - 1
    PROVE  (n + 1) % COUNT_WRAP = IF n + 1 = COUNT_WRAP THEN 0 ELSE n + 1
<1>1. COUNT_WRAP \in Nat \ {0}
  BY LongAssumption
<1>2. CASE n + 1 = COUNT_WRAP
  <2>1. COUNT_WRAP % COUNT_WRAP = 0
    BY <1>1
  <2> QED
    BY <1>2, <2>1
<1>3. CASE n + 1 # COUNT_WRAP
  <2>1. n + 1 \in 0 .. COUNT_WRAP - 1
    BY <1>1, <1>3
  <2>2. \A m \in 0 .. COUNT_WRAP - 1 : m % COUNT_WRAP = m
    BY <1>1
  <2> QED
    BY <1>3, <2>1, <2>2
<1> QED
  BY <1>2, <1>3

\* The scan codes move up by one place.
LEMMA ShiftedIs ==
    ASSUME NEW code \in CodeOrNone, SCodeBuf \in [1 .. KeyFilterLen -> CodeOrNone]
    PROVE  /\ Shifted(code) \in [1 .. KeyFilterLen -> CodeOrNone]
           /\ Shifted(code)[1] = code
           /\ Shifted(code)[2] = SCodeBuf[1]
           /\ Shifted(code)[3] = SCodeBuf[2]
<1> DEFINE tail == SubSeq(SCodeBuf, 1, 2)
<1>1. \A i \in 1 .. 2 : SCodeBuf[i] \in CodeOrNone
  BY DEF KeyFilterLen
<1>2. tail \in Seq(CodeOrNone) /\ Len(tail) = 2 /\ \A i \in 1 .. 2 : tail[i] = SCodeBuf[i]
  BY <1>1, SubSeqProperties
<1>3. Shifted(code) = <<code>> \o tail
  BY DEF Shifted, KeyFilterLen
<1> HIDE DEF tail
<1>4. <<code>> \in Seq(CodeOrNone) /\ Len(<<code>>) = 1 /\ <<code>>[1] = code
  OBVIOUS
<1>5. /\ Shifted(code) \in Seq(CodeOrNone) /\ Len(Shifted(code)) = 3
      /\ Shifted(code)[1] = code /\ Shifted(code)[2] = tail[1] /\ Shifted(code)[3] = tail[2]
  <2> DEFINE first == <<code>>
  <2>1. /\ first \in Seq(CodeOrNone) /\ Len(first) = 1 /\ first[1] = code
        /\ Shifted(code) = first \o tail
    BY <1>3, <1>4
  <2> HIDE DEF first
  <2>2. /\ first \o tail \in Seq(CodeOrNone)
        /\ Len(first \o tail) = Len(first) + Len(tail)
        /\ \A i \in 1 .. Len(first) + Len(tail) :
             (first \o tail)[i] = IF i <= Len(first) THEN first[i] ELSE tail[i - Len(first)]
    BY <1>2, <2>1, ConcatProperties
  <2>3. Len(first) + Len(tail) = 3
    BY <1>2, <2>1
  <2> QED
    BY <2>1, <2>2, <2>3
<1>6. Shifted(code) \in [1 .. KeyFilterLen -> CodeOrNone]
  BY <1>5, LenProperties DEF KeyFilterLen
<1> QED
  BY <1>2, <1>5, <1>6

-----------------------------------------------------------------------------
\* The inductive invariant: how many scans must have passed since the last event
\* before the driver can have come to where it is.  The filter is what makes
\* events rare: a key that comes up has left its trace in the scan buffer.

Since(n) == quiet >= n \/ quiet = MIN_GAP

PaceOK ==
    /\ PressedKey = NONE /\ PreKeyCode # NONE => Since(1)
    /\ PressedKey # NONE /\ ~key_3s =>
         /\ Since(KeyPressCount + 1)
         /\ \A i \in 1 .. KeyFilterLen : SCodeBuf[i] # PressedKey => Since(i + 2)
         /\ PreKeyCode # PressedKey => Since(5)
    /\ key_3s =>
         IF KeyPressCount >= LONG_SCANS
         THEN Since(KeyPressCount - LONG_SCANS)
         ELSE Since(KeyPressCount + COUNT_WRAP - LONG_SCANS)

IInv == TypeOK /\ LongFlagOK /\ PaceOK

Bounds == /\ LONG_SCANS \in Nat /\ LONG_SCANS >= 2 /\ LONG_SCANS < COUNT_WRAP
          /\ COUNT_WRAP \in Nat
          /\ MIN_GAP \in Nat /\ MIN_GAP <= 6 /\ MIN_GAP <= LONG_SCANS + 1

LEMMA BoundsHold == Bounds
BY LongAssumption, GapAssumption DEF Bounds

\* A scan without an event: the count of the quiet scans rises up to MIN_GAP.
Quiet == quiet' = IF quiet < MIN_GAP THEN quiet + 1 ELSE MIN_GAP

LEMMA QuietStep ==
    ASSUME TypeOK, Quiet, NEW n \in Int
    PROVE  /\ quiet' \in 0 .. MIN_GAP
           /\ Since(n) => Since(n)' /\ Since(n + 1)'
BY BoundsHold DEF TypeOK, Quiet, Since, Bounds

LEMMA InitEstablishes == Init => IInv
<1> SUFFICES ASSUME Init PROVE IInv
  OBVIOUS
<1>1. TypeOK
  <2>1. NONE \in CodeOrNone /\ 0 \in 0 .. COUNT_WRAP - 1 /\ 0 \in 0 .. MIN_GAP
    BY BoundsHold DEF CodeOrNone, Bounds
  <2> QED
    BY <2>1 DEF Init, TypeOK
<1>2. LongFlagOK /\ PaceOK
  BY DEF Init, LongFlagOK, PaceOK
<1> QED
  BY <1>1, <1>2 DEF IInv

-----------------------------------------------------------------------------
\* The scan buffer after a scan.
Scanned(code) ==
    /\ code \in CodeOrNone
    /\ SCodeBuf' \in [1 .. KeyFilterLen -> CodeOrNone]
    /\ SCodeBuf'[1] = code /\ SCodeBuf'[2] = SCodeBuf[1] /\ SCodeBuf'[3] = SCodeBuf[2]

\* A scan without an event that leaves the keys and their codes alone.
LEMMA StillKeeps ==
    ASSUME IInv, NEW code, Scanned(code), Quiet, event' = evNON,
           UNCHANGED <<PreKeyCode, PressedKey, KeyPressCount, key_3s>>
    PROVE  IInv'
<1>1. TypeOK /\ LongFlagOK /\ PaceOK
  BY DEF IInv
<1>2. \A n \in Int : /\ quiet' \in 0 .. MIN_GAP
                     /\ Since(n) => Since(n)' /\ Since(n + 1)'
  BY <1>1, QuietStep
<1>3. TypeOK'
  BY <1>1, <1>2 DEF TypeOK, Scanned
<1>4. LongFlagOK'
  BY <1>1 DEF LongFlagOK
<1>5. PaceOK'
  <2>1. (PressedKey = NONE /\ PreKeyCode # NONE => Since(1))'
    BY <1>1, <1>2 DEF PaceOK
  <2>2. ASSUME PressedKey' # NONE, ~key_3s'
        PROVE  /\ Since(KeyPressCount + 1)'
               /\ \A i \in 1 .. KeyFilterLen : SCodeBuf'[i] # PressedKey' => Since(i + 2)'
               /\ PreKeyCode' # PressedKey' => Since(5)'
    <3>1. Since(KeyPressCount + 1) /\ Since(2)
      <4>1. KeyPressCount \in Int /\ KeyPressCount >= 1
        BY <1>1, <2>2, BoundsHold DEF TypeOK, LongFlagOK, Bounds
      <4> QED
        BY <1>1, <2>2, <4>1, BoundsHold DEF PaceOK, Since, TypeOK, Bounds
    <3>2. Since(KeyPressCount + 1)'
      BY <1>1, <1>2, <3>1, BoundsHold DEF TypeOK, Bounds
    <3>3. \A i \in 1 .. KeyFilterLen : SCodeBuf'[i] # PressedKey' => Since(i + 2)'
      <4>1. SCodeBuf'[1] # PressedKey' => Since(3)'
        BY <1>2, <3>1
      <4>2. SCodeBuf'[2] # PressedKey' => Since(4)'
        <5>1. SCodeBuf[1] # PressedKey => Since(3)
          BY <1>1, <2>2 DEF PaceOK, KeyFilterLen
        <5> QED
          BY <1>2, <5>1 DEF Scanned
      <4>3. SCodeBuf'[3] # PressedKey' => Since(5)'
        <5>1. SCodeBuf[2] # PressedKey => Since(4)
          BY <1>1, <2>2 DEF PaceOK, KeyFilterLen
        <5> QED
          BY <1>2, <5>1 DEF Scanned
      <4> QED
        BY <4>1, <4>2, <4>3 DEF KeyFilterLen
    <3>4. PreKeyCode' # PressedKey' => Since(5)'
      BY <1>1, <1>2, <2>2 DEF PaceOK
    <3> QED
      BY <3>2, <3>3, <3>4
  <2>3. ASSUME key_3s'
        PROVE  IF KeyPressCount' >= LONG_SCANS
               THEN Since(KeyPressCount - LONG_SCANS)'
               ELSE Since(KeyPressCount + COUNT_WRAP - LONG_SCANS)'
    BY <1>1, <1>2, <2>3, BoundsHold DEF PaceOK, TypeOK, Bounds
  <2> QED
    BY <2>1, <2>2, <2>3 DEF PaceOK
<1> QED
  BY <1>3, <1>4, <1>5 DEF IInv

\* A new stable code: the key that is down, if it is another one, came up two
\* scans ago, or two after it went down.
LEMMA NoteCodeKeeps ==
    ASSUME IInv, NEW code, Scanned(code), NoteCode(code)
    PROVE  IInv'
<1>1. TypeOK /\ LongFlagOK /\ PaceOK
  BY DEF IInv
<1>2. /\ PreKeyCode' = code
      /\ Quiet /\ event' = evNON
      /\ UNCHANGED <<PressedKey, KeyPressCount, key_3s>>
      /\ \A i \in 1 .. KeyFilterLen : SCodeBuf'[i] = code
  BY DEF NoteCode, Nothing, Push, Quiet, Stable, Scanned
<1>3. \A n \in Int : /\ quiet' \in 0 .. MIN_GAP
                     /\ Since(n) => Since(n)' /\ Since(n + 1)'
  BY <1>1, <1>2, QuietStep
<1>4. TypeOK'
  BY <1>1, <1>2, <1>3 DEF TypeOK, Scanned
<1>5. LongFlagOK'
  BY <1>1, <1>2 DEF LongFlagOK
<1>6. PaceOK'
  <2>1. (PressedKey = NONE /\ PreKeyCode # NONE => Since(1))'
    <3>1. Since(0)
      BY <1>1, BoundsHold DEF TypeOK, Since, Bounds
    <3> QED
      BY <1>3, <3>1
  <2>2. ASSUME PressedKey' # NONE, ~key_3s'
        PROVE  /\ Since(KeyPressCount + 1)'
               /\ \A i \in 1 .. KeyFilterLen : SCodeBuf'[i] # PressedKey' => Since(i + 2)'
               /\ PreKeyCode' # PressedKey' => Since(5)'
    <3>1. Since(KeyPressCount + 1)'
      BY <1>1, <1>2, <1>3, <2>2, BoundsHold DEF PaceOK, TypeOK, Bounds
    <3>2. code # PressedKey => Since(5)'
      <4>1. SCodeBuf[2] = code
        BY <1>2 DEF Scanned, KeyFilterLen
      <4>2. SCodeBuf[2] # PressedKey => Since(4)
        BY <1>1, <1>2, <2>2 DEF PaceOK, KeyFilterLen
      <4> QED
        BY <1>3, <4>1, <4>2
    <3>3. \A i \in 1 .. KeyFilterLen : SCodeBuf'[i] # PressedKey' => Since(i + 2)'
      BY <1>1, <1>2, <1>3, <3>2 DEF Since, TypeOK, KeyFilterLen
    <3> QED
      BY <1>2, <3>1, <3>2, <3>3
  <2>3. ASSUME key_3s'
        PROVE  IF KeyPressCount' >= LONG_SCANS
               THEN Since(KeyPressCount - LONG_SCANS)'
               ELSE Since(KeyPressCount + COUNT_WRAP - LONG_SCANS)'
    BY <1>1, <1>2, <1>3, <2>3, BoundsHold DEF PaceOK, TypeOK, Bounds
  <2> QED
    BY <2>1, <2>2, <2>3 DEF PaceOK
<1> QED
  BY <1>4, <1>5, <1>6 DEF IInv

LEMMA AcceptPressKeeps ==
    ASSUME IInv, NEW code, Scanned(code), AcceptPress(code)
    PROVE  IInv'
<1>1. TypeOK /\ LongFlagOK /\ PaceOK
  BY DEF IInv
<1>2. /\ code # NONE /\ code = PreKeyCode /\ PressedKey = NONE
      /\ PressedKey' = code /\ KeyPressCount' = 1
      /\ Quiet /\ event' = evNON
      /\ UNCHANGED <<PreKeyCode, key_3s>>
      /\ \A i \in 1 .. KeyFilterLen : SCodeBuf'[i] = code
  BY DEF AcceptPress, Nothing, Push, Quiet, Stable, Scanned
<1>3. /\ quiet' \in 0 .. MIN_GAP
      /\ Since(1) => Since(1 + 1)'
  BY <1>1, <1>2, QuietStep
<1>4. ~key_3s /\ Since(2)'
  BY <1>1, <1>2, <1>3 DEF LongFlagOK, PaceOK
<1>5. TypeOK'
  BY <1>1, <1>2, <1>3, BoundsHold DEF TypeOK, Scanned, Bounds
<1>6. LongFlagOK'
  BY <1>2, <1>4, BoundsHold DEF LongFlagOK, Bounds
<1>7. PaceOK'
  BY <1>2, <1>4 DEF PaceOK
<1> QED
  BY <1>5, <1>6, <1>7 DEF IInv

\* The pressed key is counted on: an event when the count of a long press is
\* reached, again after every wrap of the counter.
LEMMA KeepHoldingKeeps ==
    ASSUME IInv, NEW code, Scanned(code), KeepHolding(code)
    PROVE  /\ IInv'
           /\ event' = evRst => quiet + 1 >= MIN_GAP
<1>1. TypeOK /\ LongFlagOK /\ PaceOK /\ Bounds
  BY BoundsHold DEF IInv
<1>2. /\ code # NONE /\ PressedKey = code /\ code = PreKeyCode
      /\ KeyPressCount' = (KeyPressCount + 1) % COUNT_WRAP
      /\ IF KeyPressCount' = LONG_SCANS THEN ReportLong ELSE Nothing
      /\ UNCHANGED <<PreKeyCode, PressedKey>>
      /\ \A i \in 1 .. KeyFilterLen : SCodeBuf'[i] = code
  BY DEF KeepHolding, Stable, Scanned
<1>3. KeyPressCount' = IF KeyPressCount + 1 = COUNT_WRAP THEN 0 ELSE KeyPressCount + 1
  BY <1>1, <1>2, CountStep DEF TypeOK
<1>4. CASE KeyPressCount' = LONG_SCANS
  <2>1. key_3s' = TRUE /\ event' = evRst /\ quiet' = 0
    BY <1>2, <1>4, EventAssumption DEF ReportLong, Push
  <2>2. TypeOK' /\ LongFlagOK'
    BY <1>1, <1>2, <1>4, <2>1 DEF TypeOK, LongFlagOK, Scanned, Bounds
  <2>3. PaceOK'
    BY <1>1, <1>2, <1>4, <2>1 DEF PaceOK, Since, Bounds
  <2>4. quiet + 1 >= MIN_GAP
    BY <1>1, <1>2, <1>3, <1>4 DEF TypeOK, LongFlagOK, PaceOK, Since, Bounds
  <2> QED
    BY <2>2, <2>3, <2>4 DEF IInv
<1>5. CASE KeyPressCount' # LONG_SCANS
  <2>1. Quiet /\ event' = evNON /\ key_3s' = key_3s
    BY <1>2, <1>5 DEF Nothing, Push, Quiet
  <2>2. \A n \in Int : /\ quiet' \in 0 .. MIN_GAP
                       /\ Since(n) => Since(n)' /\ Since(n + 1)'
    BY <1>1, <2>1, QuietStep
  <2>3. KeyPressCount' \in 0 .. COUNT_WRAP - 1
    BY <1>1, <1>3 DEF TypeOK, Bounds
  <2>4. TypeOK'
    BY <1>1, <1>2, <2>1, <2>2, <2>3 DEF TypeOK, Scanned
  <2>5. LongFlagOK'
    BY <1>1, <1>2, <1>3, <1>5, <2>1 DEF TypeOK, LongFlagOK, Bounds
  <2>6. ~key_3s => Since(KeyPressCount + 1)'
    BY <1>1, <1>2, <1>3, <1>5, <2>2 DEF TypeOK, LongFlagOK, PaceOK, Bounds
  <2>7. key_3s' => IF KeyPressCount' >= LONG_SCANS
                   THEN Since(KeyPressCount - LONG_SCANS)'
                   ELSE Since(KeyPressCount + COUNT_WRAP - LONG_SCANS)'
    BY <1>1, <1>3, <1>5, <2>1, <2>2 DEF TypeOK, PaceOK, Since, Quiet, Bounds
  <2>8. PaceOK'
    BY <1>2, <2>1, <2>6, <2>7 DEF PaceOK
  <2> QED
    BY <2>1, <2>4, <2>5, <2>8, EventAssumption DEF IInv
<1> QED
  BY <1>4, <1>5

\* The release of a key whose press no event reported is five quiet scans behind
\* any event, and its own.
LEMMA ReleaseKeeps ==
    ASSUME IInv, NEW code, Scanned(code), Release(code)
    PROVE  /\ IInv'
           /\ IF key_3s THEN Quiet /\ event' = evNON
                        ELSE quiet + 1 >= MIN_GAP /\ quiet' = 0 /\ event' = PressedKey
<1>1. TypeOK /\ LongFlagOK /\ PaceOK /\ Bounds
  BY BoundsHold DEF IInv
<1>2. /\ PressedKey # NONE /\ PressedKey # code /\ code = PreKeyCode
      /\ PreKeyCode' = NONE /\ PressedKey' = NONE /\ KeyPressCount' = 0 /\ key_3s' = FALSE
      /\ Push(IF key_3s THEN evNON ELSE PressedKey)
  BY DEF Release, ReportRelease
<1>3. PressedKey \in Codes /\ PressedKey # evNON
  BY <1>1, <1>2, EventAssumption DEF TypeOK, CodeOrNone
<1>4. /\ IF key_3s THEN Quiet /\ event' = evNON
                   ELSE quiet + 1 >= MIN_GAP /\ quiet' = 0 /\ event' = PressedKey
      /\ quiet' \in 0 .. MIN_GAP /\ event' \in Codes \cup {evNON}
  <2>1. CASE key_3s
    <3>1. Quiet /\ event' = evNON
      BY <1>2, <2>1 DEF Push, Quiet
    <3> QED
      BY <1>1, <2>1, <3>1, QuietStep
  <2>2. CASE ~key_3s
    <3>1. quiet' = 0 /\ event' = PressedKey
      BY <1>2, <1>3, <2>2 DEF Push
    <3>2. Since(5)
      BY <1>1, <1>2, <2>2 DEF PaceOK
    <3>3. quiet + 1 >= MIN_GAP
      BY <1>1, <3>2 DEF Since, TypeOK, Bounds
    <3> QED
      BY <1>1, <1>3, <2>2, <3>1, <3>3 DEF Bounds
  <2> QED
    BY <2>1, <2>2
<1>5. TypeOK'
  <2>1. /\ PreKeyCode' \in CodeOrNone /\ PressedKey' \in CodeOrNone
        /\ KeyPressCount' \in 0 .. COUNT_WRAP - 1 /\ key_3s' \in BOOLEAN
    <3>1. NONE \in CodeOrNone /\ 0 \in 0 .. COUNT_WRAP - 1
      BY <1>1 DEF CodeOrNone, Bounds
    <3> QED
      BY <1>2, <3>1
  <2>2. event' \in Codes \cup {evNON, evRst} /\ quiet' \in 0 .. MIN_GAP
    BY <1>4
  <2> QED
    BY <2>1, <2>2 DEF TypeOK, Scanned
<1>6. LongFlagOK' /\ PaceOK'
  BY <1>2 DEF LongFlagOK, PaceOK
<1> QED
  BY <1>4, <1>5, <1>6 DEF IInv

-----------------------------------------------------------------------------
\* Every step keeps the inductive invariant, and is one of the promise.

LEMMA StepCorrect == IInv /\ [Next]_vars => IInv' /\ [Stream!Next]_(Stream!vars)
<1> SUFFICES ASSUME IInv, [Next]_vars PROVE IInv' /\ [Stream!Next]_(Stream!vars)
  OBVIOUS
<1> USE DEF Stream!Next, Stream!vars, Stream!Wait, Stream!GoDown, Stream!Hold, Stream!ComeUp,
            Stream!Silent, Stream!Spoken
<1>1. CASE UNCHANGED vars
  BY <1>1 DEF vars, IInv, TypeOK, LongFlagOK, PaceOK, Since, Stable
<1>2. CASE Next
  <2>1. PICK pins \in SUBSET Codes : key_Scan(pins)
    BY <1>2 DEF Next
  <2> DEFINE code == ScanCode(pins)
  <2>2. code \in CodeOrNone
    BY ScanCodeType
  <2>3. /\ SCodeBuf' = Shifted(code)
        /\ Bouncing(code) \/ Rest \/ NoteCode(code) \/ AcceptPress(code) \/ KeepHolding(code)
             \/ Release(code)
    BY <2>1 DEF key_Scan
  <2> HIDE DEF code
  <2>4. Scanned(code)
    BY <2>2, <2>3, ShiftedIs DEF Scanned, IInv, TypeOK
  <2>5. CASE Bouncing(code)
    <3>1. Quiet /\ event' = evNON /\ UNCHANGED <<PreKeyCode, PressedKey, KeyPressCount, key_3s>>
      BY <2>5 DEF Bouncing, Nothing, Push, Quiet
    <3> QED
      BY <2>4, <3>1, StillKeeps DEF Quiet
  <2>6. CASE Rest
    <3>1. /\ Quiet /\ event' = evNON /\ PressedKey = NONE /\ UNCHANGED <<PressedKey, key_3s>>
          /\ PreKeyCode' = NONE /\ KeyPressCount' = 0
      BY <2>6 DEF Rest, Nothing, Push, Quiet
    <3>2. ~key_3s /\ quiet' \in 0 .. MIN_GAP
      BY <3>1, QuietStep DEF IInv, LongFlagOK
    <3>3. TypeOK' /\ LongFlagOK' /\ PaceOK'
      BY <2>4, <3>1, <3>2, BoundsHold
         DEF IInv, TypeOK, LongFlagOK, PaceOK, Scanned, CodeOrNone, Bounds
    <3> QED
      BY <3>1, <3>3 DEF IInv, Quiet
  <2>7. CASE NoteCode(code)
    <3>1. Quiet /\ event' = evNON /\ UNCHANGED <<PressedKey, key_3s>>
      BY <2>7 DEF NoteCode, Nothing, Push, Quiet
    <3> QED
      BY <2>4, <2>7, <3>1, NoteCodeKeeps DEF Quiet
  <2>8. CASE AcceptPress(code)
    <3>1. /\ Quiet /\ event' = evNON /\ UNCHANGED key_3s
          /\ PressedKey = NONE /\ PressedKey' = code /\ code # NONE
      BY <2>8 DEF AcceptPress, Nothing, Push, Quiet
    <3> QED
      BY <2>2, <2>4, <2>8, <3>1, AcceptPressKeeps DEF Quiet, CodeOrNone
  <2>9. CASE KeepHolding(code)
    <3>1. IInv' /\ (event' = evRst => quiet + 1 >= MIN_GAP)
      BY <2>4, <2>9, KeepHoldingKeeps
    <3>2. PressedKey # NONE /\ UNCHANGED PressedKey
      BY <2>9 DEF KeepHolding
    <3>3. CASE KeyPressCount' = LONG_SCANS
      BY <2>9, <3>1, <3>2, <3>3, EventAssumption DEF KeepHolding, ReportLong, Push
    <3>4. CASE KeyPressCount' # LONG_SCANS
      BY <2>9, <3>1, <3>2, <3>4 DEF KeepHolding, Nothing, Push
    <3> QED
      BY <3>3, <3>4
  <2>10. CASE Release(code)
    <3>1. PressedKey # NONE /\ PressedKey' = NONE /\ key_3s' = FALSE
      BY <2>10 DEF Release, ReportRelease
    <3> QED
      BY <2>4, <2>10, <3>1, ReleaseKeeps DEF Quiet
  <2> QED
    BY <2>3, <2>5, <2>6, <2>7, <2>8, <2>9, <2>10
<1> QED
  BY <1>1, <1>2

\* The key that is down, its count, the mark of a long press and the pace of the
\* events fit together after every scan.
THEOREM Invariance == Spec => []IInv
<1>1. IInv /\ [Next]_vars => IInv'
  BY StepCorrect
<1> QED
  BY <1>1, InitEstablishes, PTL DEF Spec

\* The 16-bit counter and the scan codes stay in range.
THEOREM TypeCorrect == Spec => []TypeOK
<1>1. IInv => TypeOK
  BY DEF IInv
<1> QED
  BY <1>1, Invariance, PTL

\* The mark that silences a release lives exactly as long as the key that earned it.
THEOREM LongFlagCorrect == Spec => []LongFlagOK
<1>1. IInv => LongFlagOK
  BY DEF IInv
<1> QED
  BY <1>1, Invariance, PTL

\* key_Scan implements KeyStream: presses and releases pair up, a long press
\* silences its own release, and no two events are closer than MIN_GAP scans.
THEOREM StreamCorrect == Spec => KeyStreamSpec
<1>1. Init => Stream!Init
  BY DEF Init, Stream!Init
<1>2. IInv /\ [Next]_vars => [Stream!Next]_(Stream!vars)
  BY StepCorrect
<1> QED
  BY <1>1, <1>2, Invariance, PTL DEF Spec, KeyStreamSpec, Stream!Spec
=============================================================================
