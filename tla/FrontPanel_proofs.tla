-------------------------- MODULE FrontPanel_proofs --------------------------
(***************************************************************************)
(* What holds of the panel for every menu, every size of the queue and     *)
(* every setting of the software timers: the key event that leaves an Exit *)
(* finds it, the queue never overflows, and a key acts on what is shown.   *)
(***************************************************************************)
EXTENDS FrontPanel, Menu_proofs

-----------------------------------------------------------------------------
\* A key that opens an item runs the callback of that very item.
LEMMA OpenedRuns ==
    ASSUME IInv, OpenCallback
    PROVE  /\ current_state' = CALLBACK
           /\ Running' = Selected
           /\ Top' = current_state
           /\ Rendered(menu_states', Top') = Rendered(menu_states, current_state)
<1> DEFINE c == current_state
<1>1. /\ c \in ListLevels /\ current_state' = CALLBACK
      /\ menu_states' = [menu_states EXCEPT
                           ![c].item = Selected,
                           ![CALLBACK] = [prev |-> c, item |-> Selected,
                                          idx |-> menu_states[c].idx, cursor |-> 0]]
  BY DEF OpenCallback
<1>2. menu_states \in [Levels -> MenuState] /\ c \in Levels /\ c # CALLBACK /\ CALLBACK \in Levels
  BY <1>1, AtList DEF IInv, TypeOK, Levels, ListLevels, LEVEL_1, LAST_LEVEL, CALLBACK
<1>3. /\ menu_states'[CALLBACK].prev = c
      /\ menu_states'[c] = [menu_states[c] EXCEPT !.item = Selected]
      /\ \A k \in Levels \ {c, CALLBACK} : menu_states'[k] = menu_states[k]
  BY <1>1, <1>2
<1>4. menu_states[c] \in MenuState
  BY <1>2
<1>5. /\ menu_states'[c].item = Selected /\ menu_states'[c].idx = menu_states[c].idx
      /\ menu_states'[c].prev = menu_states[c].prev
      /\ menu_states'[c].cursor = menu_states[c].cursor
  BY <1>3, <1>4 DEF MenuState
<1>6. Running' = Selected /\ Top' = c
  BY <1>1, <1>3, <1>5 DEF Running, Top
<1>7. ListIn(menu_states', c) = ListIn(menu_states, c)
  <2>1. CASE c = LEVEL_1
    BY <2>1 DEF ListIn
  <2>2. CASE c # LEVEL_1
    <3>1. menu_states[c].prev = c - 1 /\ c - 1 \in Levels \ {c, CALLBACK}
      BY <1>1, <2>2, AtList DEF Chain, ListLevels, Levels, LEVEL_1, LAST_LEVEL, CALLBACK
    <3> QED
      BY <1>3, <1>5, <2>2, <3>1 DEF ListIn
  <2> QED
    BY <2>1, <2>2
<1> QED
  BY <1>1, <1>5, <1>6, <1>7 DEF Rendered

\* A key never leads from a list past the last level, nor out of a callback
\* into another one.
LEMMA EntersList ==
    ASSUME IInv, EnterSubmenu
    PROVE  current_state' \in ListLevels
<1>1. current_state' = current_state + 1 /\ current_state \in ListLevels
  BY DEF EnterSubmenu
<1>2. Target(Selected) \in Lists /\ ListAt(current_state) \in Lists
  BY <1>1, AtList DEF EnterSubmenu
<1>3. menu_states[current_state].idx \in Nat
  BY <1>1 DEF IInv, TypeOK, MenuState, Levels, ListLevels, LEVEL_1, LAST_LEVEL, CALLBACK
<1>6. current_state \in LEVEL_1 .. current_state
  BY <1>1 DEF ListLevels, LEVEL_1, LAST_LEVEL
<1>7. menu_states[current_state].idx < Len(Tree[ListAt(current_state)])
  <2>1. RowOK(menu_states[current_state], Len(Tree[ListIn(menu_states, current_state)]))
    BY <1>1, <1>6, AtList DEF Rows
  <2> QED
    BY <2>1 DEF RowOK, RowAt, ListAt
<1>8. Depth[ListAt(current_state)] = current_state
  BY <1>1, <1>6, AtList DEF Chain, ListAt
<1>4. Depth[Target(Selected)] = current_state + 1
  BY <1>2, <1>3, <1>7, <1>8, RowTarget DEF Selected
<1>5. Depth[Target(Selected)] \in ListLevels
  BY <1>2, DepthInRange
<1> QED
  BY <1>1, <1>4, <1>5

LEMMA CancelsToList ==
    ASSUME IInv, PressCancel
    PROVE  current_state' \in ListLevels
<1>1. current_state \in ListLevels
  BY DEF PressCancel
<1>2. current_state # LEVEL_1 => menu_states[current_state].prev = current_state - 1
  BY <1>1, AtList DEF Chain, ListLevels, LEVEL_1, LAST_LEVEL
<1> QED
  BY <1>1, <1>2 DEF PressCancel, ListLevels, LEVEL_1, LAST_LEVEL

LEMMA ReturnsToList ==
    ASSUME IInv, NEW b \in Buttons, LeaveCallback(b) \/ ExitList
    PROVE  /\ current_state' \in ListLevels \cup {WILD}
           /\ current_state' # WILD => screen' = Rendered(menu_states', current_state')
<1>1. current_state = CALLBACK
  BY DEF LeaveCallback, ExitList, InCallback
<1>2. Top = menu_states[CALLBACK].prev /\ Top \in ListLevels /\ Chain(menu_states, Top)
  BY <1>1, AtCallback
<1>3. menu_states[Top].prev = NULL \/ (menu_states[Top].prev = Top - 1 /\ Top # LEVEL_1)
  BY <1>2 DEF Chain, ListLevels, LEVEL_1, LAST_LEVEL
<1>4. PrevOf(Top) \subseteq ListLevels \cup {WILD}
  BY <1>2, <1>3 DEF PrevOf, ListLevels, LEVEL_1, LAST_LEVEL
<1>5. PICK k \in ListLevels \cup {WILD} : MoveTo(k)
  BY <1>2, <1>4 DEF LeaveCallback, ExitList
<1> QED
  BY <1>5 DEF MoveTo

\* Which keys lead into an Exit callback, and which leave it.
LEMMA PressAndExit ==
    ASSUME IInv, NEW b \in Buttons, Press(b)
    PROVE  /\ ~InExit /\ (Opens(Exit) \/ Opens(Exit2Main)) => InExit'
           /\ ~InExit /\ ~Opens(Exit) /\ ~Opens(Exit2Main) => ~InExit'
           /\ InExit /\ b = "CANCEL" => ~InExit' /\ ~Opens(Exit) /\ ~Opens(Exit2Main)
<1>1. CASE current_state # CALLBACK
  <2>1. ~InExit
    BY <1>1 DEF InExit, InCallback
  <2>2. CASE OpenCallback
    <3>1. current_state' = CALLBACK /\ Running' = Selected
      BY <2>2, OpenedRuns
    <3>2. Target(Running)' = Target(Selected)
      BY <3>1 DEF Target
    <3> QED
      BY <1>1, <2>1, <3>1, <3>2 DEF InExit, InCallback, Opens
  <2>3. CASE ~OpenCallback
    <3>1. current_state' # CALLBACK
      <4>1. CASE PressUp \/ PressDown \/ ConfirmDead \/ PressWild
        BY <1>1, <4>1 DEF PressUp, PressDown, Scroll, ConfirmDead, PressWild
      <4>2. CASE EnterSubmenu
        BY <4>2, EntersList DEF ListLevels, LEVEL_1, LAST_LEVEL, CALLBACK
      <4>3. CASE PressCancel
        BY <4>3, CancelsToList DEF ListLevels, LEVEL_1, LAST_LEVEL, CALLBACK
      <4> QED
        BY <1>1, <2>3, <4>1, <4>2, <4>3
           DEF Press, PressConfirm, LeaveCallback, StayInCallback, ExitList, IgnoreInExit, InCallback
    <3> QED
      BY <2>1, <3>1 DEF InExit, InCallback, Opens
  <2> QED
    BY <2>2, <2>3
<1>2. CASE current_state = CALLBACK
  <2>1. ~Opens(Exit) /\ ~Opens(Exit2Main)
    BY <1>2 DEF Opens
  <2>3. LeaveCallback(b) \/ ExitList => current_state' # CALLBACK
    BY ReturnsToList DEF ListLevels, LEVEL_1, LAST_LEVEL, CALLBACK, WILD
  <2>5. \/ LeaveCallback(b)
        \/ StayInCallback(b)
        \/ b = "CANCEL" /\ ExitList
        \/ b # "CANCEL" /\ IgnoreInExit
    BY <1>2 DEF Press, PressUp, PressDown, Scroll, PressConfirm, EnterSubmenu, OpenCallback,
       ConfirmDead, PressCancel, PressWild, ListLevels, LEVEL_1, LAST_LEVEL, CALLBACK, WILD
  <2>6. StayInCallback(b) \/ IgnoreInExit => UNCHANGED <<menu_states, current_state>>
    BY DEF StayInCallback, IgnoreInExit, vars
  <2>7. InExit => ~LeaveCallback(b) /\ ~StayInCallback(b)
    BY DEF InExit, InCallback, LeaveCallback, StayInCallback, Exit, Exit2Main
  <2>8. UNCHANGED <<menu_states, current_state>> => (InExit' <=> InExit)
    BY DEF InExit, InCallback, Running, Target
  <2>9. current_state' # CALLBACK => ~InExit'
    BY DEF InExit, InCallback
  <2> QED
    BY <2>1, <2>3, <2>5, <2>6, <2>7, <2>8, <2>9 DEF IgnoreInExit
<1> QED
  BY <1>1, <1>2

-----------------------------------------------------------------------------
\* What the OLED shows of the state the next key changes.
Shown ==
    /\ screen \notin {MainDisplay, Blank} \/ current_state = WILD
    /\ current_state \in ListLevels => screen = Rendered(menu_states, current_state)
    /\ InCallback({"Edit"}) => screen = [kind |-> "item", item |-> Running]
    /\ InExit => screen = Rendered(menu_states, Top)

\* A list or an item on the OLED is neither the main display nor nothing.
LEMMA Distinct ==
    /\ \A st, k : Rendered(st, k) \notin {MainDisplay, Blank}
    /\ \A i : [kind |-> "item", item |-> i] \notin {MainDisplay, Blank}
<1>1. MainDisplay.kind = "main" /\ Blank.kind = "blank"
  BY DEF MainDisplay, Blank
<1>2. ASSUME NEW st, NEW k PROVE Rendered(st, k).kind = "list"
  BY DEF Rendered
<1>3. ASSUME NEW i PROVE [kind |-> "item", item |-> i].kind = "item"
  OBVIOUS
<1>4. "list" # "main" /\ "list" # "blank" /\ "item" # "main" /\ "item" # "blank"
  OBVIOUS
<1>5. \A s : s.kind = "list" \/ s.kind = "item" => s \notin {MainDisplay, Blank}
  BY <1>1, <1>4
<1> QED
  BY <1>2, <1>3, <1>5

\* A list that was drawn as it is shows what the keys change.
LEMMA DrawnList ==
    ASSUME current_state' \in ListLevels, screen' = Rendered(menu_states', current_state')
    PROVE  Shown'
<1>1. current_state' # CALLBACK
  BY DEF ListLevels, LEVEL_1, LAST_LEVEL, CALLBACK
<1>2. screen' \notin {MainDisplay, Blank}
  BY Distinct
<1>3. ~InCallback({"Edit"})' /\ ~InExit'
  BY <1>1 DEF InCallback, InExit
<1> QED
  BY <1>2, <1>3 DEF Shown

\* Every key leaves the OLED with what the next key will change.
LEMMA PressShown ==
    ASSUME IInv, Shown, NEW b \in Buttons, Press(b)
    PROVE  Shown'
<1>1. CASE PressUp \/ PressDown
  BY <1>1, DrawnList DEF PressUp, PressDown, Scroll
<1>2. CASE EnterSubmenu
  BY <1>2, EntersList, DrawnList DEF EnterSubmenu
<1>3. CASE OpenCallback
  <2>1. /\ current_state' = CALLBACK /\ Running' = Selected
        /\ Rendered(menu_states', Top') = screen
    BY <1>3, OpenedRuns DEF Shown, OpenCallback
  <2>2. screen \notin {MainDisplay, Blank}
    BY <2>1, Distinct
  <2>3. screen' \in DrawnBy(Selected)
    BY <1>3 DEF OpenCallback
  <2>4. Target(Running)' = Target(Selected)
    BY <2>1 DEF Target
  <2>5. screen' = screen \/ screen' = [kind |-> "item", item |-> Selected]
    BY <2>3 DEF DrawnBy
  <2>6. screen' \notin {MainDisplay, Blank}
    BY <2>2, <2>5, Distinct
  <2>7. InCallback({"Edit"})' => screen' = [kind |-> "item", item |-> Selected]
    BY <2>3, <2>4 DEF InCallback, DrawnBy, Exit, Exit2Main
  <2>8. InExit' => screen' = screen
    BY <2>3, <2>4 DEF InExit, InCallback, DrawnBy, Exit, Exit2Main
  <2>9. current_state' \notin ListLevels
    BY <2>1 DEF ListLevels, LEVEL_1, LAST_LEVEL, CALLBACK
  <2> QED
    BY <2>1, <2>6, <2>7, <2>8, <2>9 DEF Shown
<1>4. CASE ConfirmDead
  BY <1>4, DrawnList DEF ConfirmDead
<1>5. CASE PressCancel
  BY <1>5, CancelsToList, DrawnList DEF PressCancel
<1>6. CASE LeaveCallback(b) \/ ExitList
  <2>1. CASE current_state' = WILD
    BY <2>1 DEF Shown, InCallback, InExit, ListLevels, LEVEL_1, LAST_LEVEL, CALLBACK, WILD
  <2>2. CASE current_state' # WILD
    BY <1>6, <2>2, ReturnsToList, DrawnList
  <2> QED
    BY <2>1, <2>2
<1>7. CASE StayInCallback(b)
  <2>1. /\ current_state' = CALLBACK /\ Running' = Running
        /\ screen' = [kind |-> "item", item |-> Running] /\ Target(Running)' = "Edit"
    BY <1>7 DEF StayInCallback, InCallback, Running, Target
  <2>2. current_state' \notin ListLevels
    BY <2>1 DEF ListLevels, LEVEL_1, LAST_LEVEL, CALLBACK
  <2>3. screen' \notin {MainDisplay, Blank} /\ ~InExit'
    BY <2>1, Distinct DEF InExit, InCallback, Exit, Exit2Main
  <2> QED
    BY <2>1, <2>2, <2>3 DEF Shown
<1>8. CASE IgnoreInExit
  <2>1. UNCHANGED <<menu_states, current_state, screen>>
    BY <1>8 DEF IgnoreInExit, vars
  <2> QED
    BY <2>1 DEF Shown, InCallback, InExit, Running, Top, Target, Rendered, ListIn
<1>9. CASE PressWild
  BY <1>9 DEF PressWild, Shown, InCallback, InExit, ListLevels, LEVEL_1, LAST_LEVEL, CALLBACK, WILD
<1> QED
  BY <1>1, <1>2, <1>3, <1>4, <1>5, <1>6, <1>7, <1>8, <1>9 DEF Press, PressConfirm

-----------------------------------------------------------------------------
\* The types of PanelTypeOK that are not the menu's.
Counters ==
    /\ msCount \in 0 .. TICKS - 1
    /\ tenMsCount \in 0 .. SLOTS - 1
    /\ cnt_down \in 0 .. UINT16_MAX

Flags ==
    /\ enable_key_feature \in BOOLEAN
    /\ clear_Oled_Flag \in BOOLEAN
    /\ workMode \in {"ON", "KEY"}
    /\ pc \in {"poll", "dispatch"}

PanelTypes == Driver!TypeOK /\ Counters /\ Flags

\* The loop reads events faster than the keys make them: at most one is waiting,
\* either a key's, before the next tick, or the one that leaves an Exit.
QueueOK ==
    /\ queue = <<>> \/ \E e \in PanelEvents : queue = <<e>>
    /\ InExit <=> queue = <<"CANCEL">>
    /\ queue # <<>> /\ (pc = "poll" \/ queue # <<"CANCEL">>) => msCount = SCAN_TICK
    /\ queue # <<>> /\ pc = "poll" => queue = <<"CANCEL">>
    /\ InExit => workMode = "KEY" /\ enable_key_feature

\* Before the first display slot nothing is drawn, and no key can have made an
\* event yet.
ScansDone == tenMsCount + (IF msCount >= SCAN_TICK THEN 1 ELSE 0)

Fresh ==
    /\ cnt_down = 0 /\ ~enable_key_feature
    /\ workMode = "ON" /\ queue = <<>>
    /\ tenMsCount < DISPLAY_SLOT
    /\ quiet <= ScansDone

ShownOK ==
    /\ enable_key_feature => clear_Oled_Flag
    /\ clear_Oled_Flag => Fresh \/ Shown

PanelInv == IInv /\ PanelTypes /\ QueueOK /\ ShownOK

LEMMA CounterMax == UINT16_MAX \in Nat
BY DEF UINT16_MAX

\* The start.
LEMMA PanelStarts == PanelInit => PanelInv
<1> SUFFICES ASSUME PanelInit
             PROVE  PanelInv
  OBVIOUS
<1>1. IInv
  BY InitInv DEF PanelInit
<1>2. PanelTypes
  <2>1. /\ 0 \in 0 .. TICKS - 1 /\ 0 \in 0 .. SLOTS - 1
        /\ 0 \in 0 .. UINT16_MAX /\ 0 \in 0 .. MIN_GAP
    BY TimerAssumption, CounterMax
  <2>2. /\ msCount = 0 /\ tenMsCount = 0 /\ cnt_down = 0
        /\ workMode = "ON" /\ pc = "poll"
        /\ down = NULL /\ quiet = 0 /\ keyEvent = evNON
    BY DEF PanelInit, Driver!Init
  <2>3. long \in BOOLEAN /\ enable_key_feature \in BOOLEAN /\ clear_Oled_Flag \in BOOLEAN
    BY DEF PanelInit, Driver!Init
  <2>4. Driver!TypeOK
    BY <2>1, <2>2, <2>3 DEF Driver!TypeOK
  <2> QED
    BY <2>1, <2>2, <2>3, <2>4 DEF PanelTypes, Counters, Flags
<1>3. ~InExit /\ queue = <<>>
  BY DEF PanelInit, Init, InExit, InCallback, LEVEL_1, CALLBACK, Fifo!Init
<1>4. QueueOK
  BY <1>3 DEF QueueOK
<1>5. ShownOK
  <2>1. /\ cnt_down = 0 /\ enable_key_feature = FALSE /\ workMode = "ON"
        /\ tenMsCount = 0 /\ msCount = 0 /\ quiet = 0
    BY DEF PanelInit, Driver!Init
  <2>2. tenMsCount < DISPLAY_SLOT /\ quiet <= ScansDone
    BY <2>1, TimerAssumption DEF ScansDone
  <2> QED
    BY <1>3, <2>1, <2>2 DEF ShownOK, Fresh
<1> QED
  BY <1>1, <1>2, <1>4, <1>5 DEF PanelInv

\* A step that leaves the menu and the OLED alone.
LEMMA MenuUnchanged ==
    ASSUME IInv, UNCHANGED menuVars
    PROVE  IInv' /\ (InExit' <=> InExit) /\ (Shown' <=> Shown)
<1>1. UNCHANGED <<menu_states, current_state, screen>>
  BY DEF menuVars
<1>2. IInv'
  BY <1>1, NextInv DEF vars
<1> QED
  BY <1>1, <1>2 DEF Shown, InCallback, InExit, Running, Top, Target, Rendered, ListIn

\* The keys.
LEMMA ScanTypes ==
    ASSUME Driver!TypeOK, Driver!Next
    PROVE  Driver!TypeOK' /\ (keyEvent' = evNON \/ keyEvent' \in Keys \/ keyEvent' = evRst)
<1>1. CASE Driver!Wait
  BY <1>1, TimerAssumption DEF Driver!Wait, Driver!Silent, Driver!TypeOK
<1>2. CASE Driver!GoDown
  BY <1>2, TimerAssumption DEF Driver!GoDown, Driver!Silent, Driver!TypeOK
<1>3. CASE Driver!Hold
  <2>1. /\ down' = down /\ keyEvent' = evRst /\ quiet' = 0
    BY <1>3 DEF Driver!Hold, Driver!Spoken
  <2>2. long' \in BOOLEAN
    BY <1>3 DEF Driver!Hold
  <2> QED
    BY <2>1, <2>2, TimerAssumption DEF Driver!TypeOK
<1>4. CASE Driver!ComeUp
  <2>1. long' \in BOOLEAN
    BY <1>4 DEF Driver!ComeUp
  <2>2. /\ down' = NULL /\ down \in Keys
        /\ \/ keyEvent' = evNON /\ quiet' = (IF quiet < MIN_GAP THEN quiet + 1 ELSE MIN_GAP)
           \/ keyEvent' = down /\ quiet' = 0
    BY <1>4 DEF Driver!ComeUp, Driver!Silent, Driver!Spoken, Driver!TypeOK
  <2> QED
    BY <2>1, <2>2, TimerAssumption DEF Driver!TypeOK
<1> QED
  BY <1>1, <1>2, <1>3, <1>4 DEF Driver!Next

\* A scan counts towards the next event, or makes one that is due.
LEMMA ScanPace ==
    ASSUME Driver!TypeOK, Driver!Next
    PROVE  \/ keyEvent' = evNON /\ quiet' <= quiet + 1
           \/ quiet + 1 >= MIN_GAP
<1>1. \/ Driver!Silent
      \/ \E e : Driver!Spoken(e)
  BY DEF Driver!Next, Driver!Wait, Driver!GoDown, Driver!Hold, Driver!ComeUp
<1> QED
  BY <1>1, TimerAssumption DEF Driver!Silent, Driver!Spoken, Driver!TypeOK

-----------------------------------------------------------------------------
\* The clock of the panel moves on, within its range.
LEMMA ClockTypes ==
    ASSUME Counters, Tick
    PROVE  /\ msCount' \in 0 .. TICKS - 1 /\ tenMsCount' \in 0 .. SLOTS - 1
           /\ pc' = "dispatch"
           /\ msCount' = 0 => tenMsCount' = (IF tenMsCount = SLOTS - 1 THEN 0 ELSE tenMsCount + 1)
           /\ msCount' # 0 => msCount' = msCount + 1 /\ tenMsCount' = tenMsCount
<1>1. /\ msCount' = (msCount + 1) % TICKS
      /\ tenMsCount' = (IF msCount' = 0 THEN (tenMsCount + 1) % SLOTS ELSE tenMsCount)
      /\ pc' = "dispatch"
  BY DEF Tick
<1>2. /\ TICKS \in Nat /\ TICKS > 0 /\ SLOTS \in Nat /\ SLOTS > 0
      /\ msCount \in 0 .. TICKS - 1 /\ tenMsCount \in 0 .. SLOTS - 1
  BY TimerAssumption DEF Counters
<1>3. ASSUME NEW n \in Nat, n > 0, NEW x \in 0 .. n - 1
      PROVE  (x + 1) % n = IF x = n - 1 THEN 0 ELSE x + 1
  <2>1. CASE x = n - 1
    <3>1. n % n = 0
      BY <1>3
    <3> QED
      BY <1>3, <2>1, <3>1
  <2>2. CASE x # n - 1
    <3>1. \A y \in 0 .. n - 1 : y % n = y
      BY <1>3
    <3> QED
      BY <1>3, <2>2, <3>1
  <2> QED
    BY <2>1, <2>2
<1>4. /\ msCount' = (IF msCount = TICKS - 1 THEN 0 ELSE msCount + 1)
      /\ msCount' = 0 => tenMsCount' = (IF tenMsCount = SLOTS - 1 THEN 0 ELSE tenMsCount + 1)
  BY <1>1, <1>2, <1>3
<1> QED
  BY <1>1, <1>2, <1>4

\* A tick that finds an event waiting finds the one that leaves an Exit, right
\* after the key scan: neither the scan nor the display slot is due.
LEMMA OtherTickInv ==
    ASSUME PanelInv, Tick, OtherTick, ~ScanDue, ~DisplayDue
    PROVE  PanelInv'
<1>1. IInv' /\ (InExit' <=> InExit) /\ (Shown' <=> Shown)
  BY MenuUnchanged DEF PanelInv, OtherTick
<1>2. UNCHANGED <<queue, down, long, quiet, keyEvent, cnt_down, enable_key_feature, clear_Oled_Flag, workMode>>
  BY DEF OtherTick, keyVars, displayVars
<1>3. PanelTypes'
  <2>1. Driver!TypeOK'
    BY <1>2 DEF PanelInv, PanelTypes, Driver!TypeOK
  <2>2. Counters'
    <3>1. msCount' \in 0 .. TICKS - 1 /\ tenMsCount' \in 0 .. SLOTS - 1
      BY ClockTypes DEF PanelInv, PanelTypes
    <3> QED
      BY <1>2, <3>1 DEF PanelInv, PanelTypes, Counters
  <2>3. Flags'
    BY <1>2, ClockTypes DEF PanelInv, PanelTypes, Flags
  <2> QED
    BY <2>1, <2>2, <2>3 DEF PanelTypes
<1>4. QueueOK'
  <2>1. pc = "poll" /\ pc' = "dispatch"
    BY DEF Tick
  <2>2. queue # <<>> => queue = <<"CANCEL">>
    BY <2>1 DEF PanelInv, QueueOK
  <2> QED
    BY <1>1, <1>2, <2>1, <2>2 DEF PanelInv, QueueOK
<1>5. ShownOK'
  <2>1. ASSUME Fresh PROVE Fresh'
    <3>1. /\ tenMsCount < DISPLAY_SLOT /\ quiet <= ScansDone
      BY <2>1 DEF Fresh
    <3>2. /\ msCount \in 0 .. TICKS - 1 /\ tenMsCount \in 0 .. SLOTS - 1 /\ quiet \in 0 .. MIN_GAP
      BY DEF PanelInv, PanelTypes, Counters, Driver!TypeOK
    <3>3. tenMsCount' < DISPLAY_SLOT
      BY <3>1, <3>2, ClockTypes, TimerAssumption DEF DisplayDue, PanelInv, PanelTypes
    <3>4. quiet <= ScansDone'
      <4>3. Counters
        BY DEF PanelInv, PanelTypes
      <4>4. SCAN_TICK \in Nat /\ SCAN_TICK > 0 /\ DISPLAY_SLOT <= SLOTS - 1 /\ TICKS \in Nat /\ SLOTS \in Nat
            /\ DISPLAY_SLOT \in Nat
        BY TimerAssumption
      <4>1. CASE msCount' = 0
        <5>1. tenMsCount' = tenMsCount + 1
          BY <3>1, <3>2, <4>1, <4>3, <4>4, ClockTypes
        <5> QED
          BY <3>1, <3>2, <4>1, <4>4, <5>1 DEF ScansDone
      <4>2. CASE msCount' # 0
        <5>1. tenMsCount' = tenMsCount /\ msCount' = msCount + 1
          BY <4>2, <4>3, ClockTypes
        <5> QED
          BY <3>1, <3>2, <4>4, <5>1 DEF ScansDone
      <4> QED
        BY <4>1, <4>2
    <3> QED
      BY <1>2, <2>1, <3>3, <3>4 DEF Fresh
  <2> QED
    BY <1>1, <1>2, <2>1 DEF PanelInv, ShownOK
<1> QED
  BY <1>1, <1>3, <1>4, <1>5 DEF PanelInv

\* The scan finds no event waiting, so the one it makes is the only one.
LEMMA ScanQueue ==
    ASSUME PanelInv, Tick, ScanDue \/ DisplayDue
    PROVE  queue = <<>> /\ ~InExit
<1>1. pc = "poll"
  BY DEF Tick
<1>2. msCount' = SCAN_TICK \/ msCount' = 0
  BY DEF ScanDue, DisplayDue
<1>3. msCount # SCAN_TICK
  <2>1. Counters
    BY DEF PanelInv, PanelTypes
  <2>2. ASSUME msCount = SCAN_TICK PROVE msCount' = SCAN_TICK + 1
    <3>1. msCount' = (SCAN_TICK + 1) % TICKS
      BY <2>2 DEF Tick
    <3>2. SCAN_TICK + 1 \in 0 .. TICKS - 1 /\ TICKS \in Nat
      BY TimerAssumption
    <3> QED
      BY <3>1, <3>2
  <2> QED
    BY <1>2, <2>2, TimerAssumption
<1> QED
  BY <1>1, <1>3 DEF PanelInv, QueueOK

LEMMA ScanInv ==
    ASSUME PanelInv, Tick, ScanDue, key_Scan
    PROVE  PanelInv'
<1>1. IInv' /\ (InExit' <=> InExit) /\ (Shown' <=> Shown)
  BY MenuUnchanged DEF PanelInv, key_Scan
<1>2. queue = <<>> /\ ~InExit
  BY ScanQueue
<1>3. /\ UNCHANGED <<enable_key_feature, clear_Oled_Flag>>
      /\ Driver!Next /\ Driver!TypeOK
  BY DEF key_Scan, PanelInv, PanelTypes
<1>4. Driver!TypeOK' /\ (keyEvent' = evNON \/ keyEvent' \in Keys \/ keyEvent' = evRst)
  BY <1>3, ScanTypes
<1>5. msCount' = SCAN_TICK /\ pc' = "dispatch"
  BY DEF ScanDue, Tick
<1>6. /\ keyEvent' = evNON => cnt_down' = cnt_down /\ workMode' = workMode
      /\ keyEvent' \in Keys => cnt_down' = CNT_DOWN /\ workMode' = "KEY"
      /\ keyEvent' = evRst => cnt_down' = LONG_CNT_DOWN /\ workMode' = workMode
  BY DEF key_Scan, Keys, evNON, evRst
<1>11. Counters'
  <2>1. cnt_down \in 0 .. UINT16_MAX
    BY DEF PanelInv, PanelTypes, Counters
  <2>3. CNT_DOWN \in 0 .. UINT16_MAX /\ LONG_CNT_DOWN \in 0 .. UINT16_MAX
    BY TimerAssumption
  <2>2. cnt_down' \in 0 .. UINT16_MAX
    BY <1>4, <1>6, <2>1, <2>3
  <2>4. msCount' \in 0 .. TICKS - 1 /\ tenMsCount' \in 0 .. SLOTS - 1
    BY ClockTypes DEF PanelInv, PanelTypes
  <2> QED
    BY <2>2, <2>4 DEF Counters
<1>12. Flags'
  <2>1. workMode' \in {"ON", "KEY"}
    BY <1>4, <1>6 DEF PanelInv, PanelTypes, Flags
  <2> QED
    BY <1>3, <1>5, <2>1 DEF PanelInv, PanelTypes, Flags
<1>7. PanelTypes'
  BY <1>4, <1>11, <1>12 DEF PanelTypes
<1>8. /\ keyEvent' = evNON => queue' = <<>>
      /\ keyEvent' # evNON => queue' = <<keyEvent'>> /\ keyEvent' \in PanelEvents /\ keyEvent' # "CANCEL"
  <2>1. keyEvent' = evNON => queue' = <<>>
    BY <1>2 DEF key_Scan
  <2>2. ASSUME keyEvent' # evNON
        PROVE  queue' = <<keyEvent'>> /\ keyEvent' \in PanelEvents /\ keyEvent' # "CANCEL"
    <3>1. queue' = Fifo!Pushed(<<>>, keyEvent')
      BY <1>2, <2>2 DEF key_Scan
    <3>2. queue' = Append(<<>>, keyEvent')
      <4>1. Len(<<>>) = 0 /\ 0 < EVENTBUFLEN
        BY TimerAssumption
      <4> QED
        BY <3>1, <4>1 DEF Fifo!Pushed
    <3> QED
      BY <1>4, <2>2, <3>2 DEF Keys, PanelEvents, Buttons, evRst
  <2> QED
    BY <2>1, <2>2
<1>9. QueueOK'
  <2>1. queue' # <<"CANCEL">>
    BY <1>8
  <2> QED
    BY <1>1, <1>2, <1>5, <1>8, <2>1 DEF QueueOK
<1>10. ShownOK'
  <2>1. ASSUME Fresh PROVE Fresh'
    <3>1. /\ tenMsCount < DISPLAY_SLOT /\ quiet <= ScansDone
          /\ cnt_down = 0 /\ ~enable_key_feature /\ workMode = "ON"
      BY <2>1 DEF Fresh
    <3>2. /\ msCount \in 0 .. TICKS - 1 /\ tenMsCount \in 0 .. SLOTS - 1 /\ quiet \in 0 .. MIN_GAP
          /\ quiet' \in 0 .. MIN_GAP
      BY <1>4 DEF PanelInv, PanelTypes, Counters, Driver!TypeOK
    <3>3. tenMsCount' = tenMsCount /\ msCount' = msCount + 1 /\ msCount' = SCAN_TICK
      BY <1>5, ClockTypes, TimerAssumption DEF PanelInv, PanelTypes
    <3>4. quiet <= tenMsCount
      BY <3>1, <3>2, <3>3, TimerAssumption DEF ScansDone
    <3>5. keyEvent' = evNON /\ quiet' <= quiet + 1
      BY <1>3, <3>1, <3>2, <3>4, ScanPace, TimerAssumption
    <3>6. ScansDone' = tenMsCount + 1
      BY <3>2, <3>3, TimerAssumption DEF ScansDone
    <3>7. quiet' <= ScansDone'
      BY <3>2, <3>4, <3>5, <3>6
    <3> QED
      BY <1>3, <1>6, <1>8, <3>1, <3>3, <3>5, <3>7 DEF Fresh
  <2> QED
    BY <1>1, <1>3, <2>1 DEF PanelInv, ShownOK
<1> QED
  BY <1>1, <1>7, <1>9, <1>10 DEF PanelInv

\* The display slot: the menu is left or drawn anew, never inside an Exit.
LEMMA DisplayInv ==
    ASSUME PanelInv, Tick, DisplayDue, Pollint_Display_Main_menu
    PROVE  PanelInv'
<1>1. queue = <<>> /\ ~InExit
  BY ScanQueue
<1>2. UNCHANGED <<down, long, quiet, keyEvent, workMode>>
  BY DEF Pollint_Display_Main_menu, keyVars
<1>3. Driver!TypeOK'
  BY <1>2 DEF PanelInv, PanelTypes, Driver!TypeOK
<1>4. tenMsCount' = DISPLAY_SLOT /\ pc' = "dispatch"
  BY DEF DisplayDue, Tick
<1>5. Counters'
  <2>1. cnt_down' = cnt_down \/ (cnt_down # 0 /\ cnt_down' = cnt_down - 1)
    BY DEF Pollint_Display_Main_menu, CountDown, ShowMain
  <2>3. cnt_down \in 0 .. UINT16_MAX
    BY DEF PanelInv, PanelTypes, Counters
  <2>2. cnt_down' \in 0 .. UINT16_MAX
    BY <2>1, <2>3, CounterMax
  <2>4. msCount' \in 0 .. TICKS - 1 /\ tenMsCount' \in 0 .. SLOTS - 1
    BY ClockTypes DEF PanelInv, PanelTypes
  <2> QED
    BY <2>2, <2>4 DEF Counters
<1>6. Flags'
  <2>1. clear_Oled_Flag' = TRUE \/ clear_Oled_Flag' = FALSE
    BY DEF Pollint_Display_Main_menu, CountDown, ShowMain
  <2>2. enable_key_feature' = TRUE \/ enable_key_feature' = FALSE
    BY DEF Pollint_Display_Main_menu, CountDown, ShowMain
  <2>3. clear_Oled_Flag' \in BOOLEAN /\ enable_key_feature' \in BOOLEAN
    BY <2>1, <2>2
  <2> QED
    BY <1>2, <1>4, <2>3 DEF PanelInv, PanelTypes, Flags
<1>7. PanelTypes'
  BY <1>3, <1>5, <1>6 DEF PanelTypes
<1>8. CASE CountDown /\ clear_Oled_Flag
  <2>1. /\ UNCHANGED menuVars /\ queue' = <<>>
        /\ enable_key_feature' = TRUE /\ clear_Oled_Flag' = TRUE
        /\ cnt_down # 0
    BY <1>1, <1>8 DEF CountDown
  <2>2. IInv' /\ ~InExit' /\ (Shown' <=> Shown)
    BY <1>1, <2>1, MenuUnchanged DEF PanelInv
  <2>3. QueueOK'
    BY <2>1, <2>2 DEF QueueOK
  <2>4. Shown
    BY <1>8, <2>1 DEF PanelInv, ShownOK, Fresh
  <2> QED
    BY <1>7, <2>1, <2>2, <2>3, <2>4 DEF PanelInv, ShownOK
<1>9. CASE CountDown /\ ~clear_Oled_Flag
  <2>1. /\ menuReset /\ queue' = <<>> /\ enable_key_feature' = FALSE
    BY <1>9 DEF CountDown
  <2>2. IInv'
    BY <2>1, HomeStateInv DEF PanelInv
  <2>3. current_state' = LEVEL_1 /\ screen' = Rendered(menu_states', current_state')
    BY <2>1 DEF menuReset, Home_State
  <2>4. Shown'
    BY <2>3, DrawnList DEF ListLevels, LEVEL_1, LAST_LEVEL
  <2>5. ~InExit'
    BY <2>3 DEF InExit, InCallback, LEVEL_1, CALLBACK
  <2>6. QueueOK'
    BY <2>1, <2>5 DEF QueueOK
  <2> QED
    BY <1>7, <2>1, <2>2, <2>4, <2>6 DEF PanelInv, ShownOK
<1>10. CASE ShowMain
  <2>1. /\ queue' = <<>> /\ enable_key_feature' = FALSE /\ clear_Oled_Flag' = FALSE
        /\ \/ menuReset_No_RenderMenu
           \/ screen' = MainDisplay /\ UNCHANGED <<menu_states, current_state>>
    BY <1>1, <1>10 DEF ShowMain
  <2>2. IInv'
    <3>1. screen' = MainDisplay => screen' \in Screens
      BY DEF Screens
    <3> QED
      BY <2>1, <3>1, HomeStateInv, OnlyDraws DEF PanelInv
  <2>3. ~InExit'
    <3>1. CASE menuReset_No_RenderMenu
      BY <3>1 DEF menuReset_No_RenderMenu, Home_State, InExit, InCallback, LEVEL_1, CALLBACK
    <3>2. CASE UNCHANGED <<menu_states, current_state>>
      BY <1>1, <3>2 DEF InExit, InCallback, Running, Target
    <3> QED
      BY <2>1, <3>1, <3>2
  <2>4. QueueOK'
    BY <2>1, <2>3 DEF QueueOK
  <2> QED
    BY <1>7, <2>1, <2>2, <2>4 DEF PanelInv, ShownOK
<1> QED
  BY <1>8, <1>9, <1>10 DEF Pollint_Display_Main_menu

LEMMA TickInv == PanelInv /\ Tick => PanelInv'
BY OtherTickInv, ScanInv, DisplayInv DEF Tick

\* An interrupt that is not the tick changes nothing.
LEMMA NoTickInv == PanelInv /\ NoTick => PanelInv'
<1> SUFFICES ASSUME PanelInv, NoTick
             PROVE  PanelInv'
  OBVIOUS
<1>1. IInv' /\ (InExit' <=> InExit) /\ (Shown' <=> Shown)
  BY MenuUnchanged DEF PanelInv, NoTick
<1>2. /\ UNCHANGED <<queue, down, long, quiet, keyEvent, msCount, tenMsCount, cnt_down,
                     enable_key_feature, clear_Oled_Flag, workMode>>
      /\ pc = "poll" /\ pc' = "dispatch"
  BY DEF NoTick, keyVars, timeVars, displayVars
<1>3. PanelTypes'
  BY <1>2 DEF PanelInv, PanelTypes, Driver!TypeOK, Counters, Flags
<1>4. QueueOK'
  BY <1>1, <1>2 DEF PanelInv, QueueOK
<1>5. ShownOK'
  BY <1>1, <1>2 DEF PanelInv, ShownOK, Fresh, ScansDone
<1> QED
  BY <1>1, <1>3, <1>4, <1>5 DEF PanelInv

-----------------------------------------------------------------------------
\* What the dispatcher leaves alone, and the counters it may clear.
LEMMA DispatchTypes ==
    ASSUME PanelTypes, Dispatched, cnt_down' = cnt_down \/ cnt_down' = 0
    PROVE  PanelTypes'
<1>1. /\ UNCHANGED <<down, long, quiet, keyEvent, msCount, tenMsCount,
                     enable_key_feature, clear_Oled_Flag, workMode>>
      /\ pc' = "poll"
  BY DEF Dispatched, keyVars, timeVars
<1>2. Driver!TypeOK' /\ Flags'
  BY <1>1 DEF PanelTypes, Driver!TypeOK, Flags
<1>3. Counters'
  BY <1>1, CounterMax DEF PanelTypes, Counters
<1> QED
  BY <1>2, <1>3 DEF PanelTypes

\* A pass without a menu operation ends with an empty queue, and starts outside
\* every Exit.
LEMMA IdleDispatchInv ==
    ASSUME PanelInv, Dispatched, UNCHANGED <<menuVars, cnt_down>>, ~InExit, queue' = <<>>
    PROVE  PanelInv'
<1>1. IInv' /\ ~InExit' /\ (Shown' <=> Shown)
  BY MenuUnchanged DEF PanelInv
<1>2. PanelTypes'
  BY DispatchTypes DEF PanelInv
<1>3. QueueOK'
  BY <1>1 DEF QueueOK
<1>4. UNCHANGED <<quiet, tenMsCount, msCount, cnt_down, enable_key_feature, clear_Oled_Flag, workMode>>
  BY DEF Dispatched, keyVars, timeVars
<1>5. ShownOK'
  BY <1>1, <1>4 DEF PanelInv, ShownOK, Fresh, ScansDone
<1> QED
  BY <1>1, <1>2, <1>3, <1>5 DEF PanelInv

\* A key operates the menu: it opens an Exit and leaves that callback's event in
\* the queue, or it is that event and leaves the Exit, or it does neither.
LEMMA OperateInv == PanelInv /\ OperateMenu => PanelInv'
<1> SUFFICES ASSUME PanelInv, OperateMenu
             PROVE  PanelInv'
  OBVIOUS
<1>1. PICK e \in PanelEvents : queue = <<e>>
  BY DEF PanelInv, QueueOK, OperateMenu, Waiting
<1>2. Head(queue) = e /\ Tail(queue) = <<>>
  BY <1>1
<1>3. /\ e \in Buttons /\ Press(e)
      /\ queue' = AfterRender(<<>>)
      /\ cnt_down' = cnt_down \/ cnt_down' = 0
      /\ workMode = "KEY" /\ enable_key_feature
      /\ Dispatched
  BY <1>2 DEF OperateMenu
<1>4. /\ UNCHANGED <<quiet, tenMsCount, msCount, enable_key_feature, clear_Oled_Flag, workMode>>
      /\ pc' = "poll"
  BY <1>3 DEF Dispatched, keyVars, timeVars
<1>5. IInv'
  BY <1>3, NextInv DEF PanelInv, Next
<1>6. PanelTypes'
  BY <1>3, DispatchTypes DEF PanelInv
<1>7. AfterRender(<<>>) = IF Opens(Exit) \/ Opens(Exit2Main) THEN <<"CANCEL">> ELSE <<>>
  <2>1. Len(<<>>) = 0 /\ 0 < EVENTBUFLEN /\ Append(<<>>, "CANCEL") = <<"CANCEL">>
    BY TimerAssumption
  <2> QED
    BY <2>1 DEF AfterRender, Fifo!Pushed
<1>8. QueueOK'
  <2>1. CASE InExit
    <3>1. e = "CANCEL"
      BY <1>1, <2>1 DEF PanelInv, QueueOK
    <3>2. ~InExit' /\ ~Opens(Exit) /\ ~Opens(Exit2Main)
      BY <1>3, <2>1, <3>1, PressAndExit DEF PanelInv
    <3>3. queue' = <<>>
      BY <1>3, <1>7, <3>2
    <3> QED
      BY <3>2, <3>3 DEF QueueOK
  <2>2. CASE ~InExit /\ (Opens(Exit) \/ Opens(Exit2Main))
    <3>1. InExit' /\ queue' = <<"CANCEL">>
      BY <1>3, <1>7, <2>2, PressAndExit DEF PanelInv
    <3>2. queue # <<"CANCEL">> /\ queue # <<>>
      BY <1>1, <2>2 DEF PanelInv, QueueOK
    <3>3. msCount' = SCAN_TICK
      BY <1>4, <3>2 DEF PanelInv, QueueOK
    <3>4. "CANCEL" \in PanelEvents
      BY DEF PanelEvents, Buttons
    <3> QED
      BY <1>3, <1>4, <3>1, <3>3, <3>4 DEF QueueOK
  <2>3. CASE ~InExit /\ ~Opens(Exit) /\ ~Opens(Exit2Main)
    <3>1. ~InExit' /\ queue' = <<>>
      BY <1>3, <1>7, <2>3, PressAndExit DEF PanelInv
    <3> QED
      BY <3>1 DEF QueueOK
  <2> QED
    BY <2>1, <2>2, <2>3
<1>9. ShownOK'
  <2>1. Shown
    BY <1>3 DEF PanelInv, ShownOK, Fresh
  <2>2. Shown'
    BY <1>3, <2>1, PressShown DEF PanelInv
  <2> QED
    BY <1>4, <2>2 DEF PanelInv, ShownOK
<1> QED
  BY <1>5, <1>6, <1>8, <1>9 DEF PanelInv

LEMMA DispatchInv == PanelInv /\ Dispatch => PanelInv'
<1> SUFFICES ASSUME PanelInv, Dispatch
             PROVE  PanelInv'
  OBVIOUS
<1>1. CASE NoEvent
  <2>1. queue' = <<>> /\ ~InExit
    BY <1>1 DEF NoEvent, PanelInv, QueueOK
  <2> QED
    BY <1>1, <2>1, IdleDispatchInv DEF NoEvent
<1>2. CASE OperateMenu
  BY <1>2, OperateInv
<1>3. CASE DropEvents
  BY <1>3, IdleDispatchInv DEF DropEvents, PanelInv, QueueOK
<1>4. CASE IgnoreEvent
  <2>1. PICK e \in PanelEvents : queue = <<e>>
    BY <1>4 DEF PanelInv, QueueOK, IgnoreEvent, Waiting
  <2>2. Head(queue) = e /\ Tail(queue) = <<>>
    BY <2>1
  <2>3. ~InExit
    <3>1. InExit => workMode = "KEY" /\ e = "CANCEL"
      BY <2>1 DEF PanelInv, QueueOK
    <3> QED
      BY <1>4, <2>2, <3>1 DEF IgnoreEvent, evRst
  <2> QED
    BY <1>4, <2>2, <2>3, IdleDispatchInv DEF IgnoreEvent
<1> QED
  BY <1>1, <1>2, <1>3, <1>4 DEF Dispatch

\* Every step of the panel.
LEMMA PanelNextInv == PanelInv /\ [PanelNext]_panelVars => PanelInv'
<1> SUFFICES ASSUME PanelInv, [PanelNext]_panelVars
             PROVE  PanelInv'
  OBVIOUS
<1>1. CASE PanelNext
  BY <1>1, TickInv, NoTickInv, DispatchInv DEF PanelNext
<1>2. CASE UNCHANGED panelVars
  <2>1. IInv' /\ (InExit' <=> InExit) /\ (Shown' <=> Shown)
    BY <1>2, MenuUnchanged DEF PanelInv, panelVars
  <2>2. UNCHANGED <<queue, down, long, quiet, keyEvent, msCount, tenMsCount, cnt_down,
                    enable_key_feature, clear_Oled_Flag, workMode, pc>>
    BY <1>2 DEF panelVars, keyVars, timeVars, displayVars
  <2>3. PanelTypes'
    BY <2>2 DEF PanelInv, PanelTypes, Driver!TypeOK, Counters, Flags
  <2>4. QueueOK'
    BY <2>1, <2>2 DEF PanelInv, QueueOK
  <2>5. ShownOK'
    BY <2>1, <2>2 DEF PanelInv, ShownOK, Fresh, ScansDone
  <2> QED
    BY <2>1, <2>3, <2>4, <2>5 DEF PanelInv
<1> QED
  BY <1>1, <1>2

-----------------------------------------------------------------------------
\* The panel, with its loop, timers, keys, queue and menu, keeps PanelInv.
THEOREM PanelInvariance == PanelSpec => []PanelInv
<1>1. PanelInit => PanelInv
  BY PanelStarts
<1>2. PanelInv /\ [PanelNext]_panelVars => PanelInv'
  BY PanelNextInv
<1> QED
  BY <1>1, <1>2, PTL DEF PanelSpec

\* The menu's records, the queue, the software timers and the flags of
\* main_meau.c stay in the range of their types.
THEOREM PanelTypeCorrect == PanelSpec => []PanelTypeOK
<1>1. PanelInv => PanelTypeOK
  <2> SUFFICES ASSUME PanelInv
               PROVE  PanelTypeOK
    OBVIOUS
  <2>1. TypeOK /\ PanelTypes
    BY DEF PanelInv, IInv
  <2>2. queue \in Seq(PanelEvents)
    <3>1. queue = <<>> \/ \E e \in PanelEvents : queue = <<e>>
      BY DEF PanelInv, QueueOK
    <3>2. <<>> \in Seq(PanelEvents)
      OBVIOUS
    <3>3. ASSUME NEW e \in PanelEvents PROVE <<e>> \in Seq(PanelEvents)
      OBVIOUS
    <3> QED
      BY <3>1, <3>2, <3>3
  <2> QED
    BY <2>1, <2>2 DEF PanelTypeOK, PanelTypes, Counters, Flags
<1> QED
  BY <1>1, PanelInvariance, PTL

\* The cancel event that an Exit item pushes always finds the callback it is
\* meant for, no key overtakes it, and no Exit waits without it.
THEOREM ExitProtocolCorrect == PanelSpec => []ExitProtocol
<1>1. PanelInv => ExitProtocol
  <2> SUFFICES ASSUME PanelInv
               PROVE  ExitProtocol
    OBVIOUS
  <2>1. /\ queue = <<>> \/ \E e \in PanelEvents : queue = <<e>>
        /\ InExit <=> queue = <<"CANCEL">>
    BY DEF PanelInv, QueueOK
  <2>2. CASE queue = <<>>
    <3>1. DOMAIN queue = {}
      BY <2>2
    <3>2. ~InExit
      BY <2>1, <2>2
    <3> QED
      BY <3>1, <3>2 DEF ExitProtocol, Queued
  <2>3. ASSUME NEW e \in PanelEvents, queue = <<e>> PROVE ExitProtocol
    <3>1. DOMAIN queue = {1} /\ queue[1] = e
      BY <2>3
    <3>2. InExit <=> e = "CANCEL"
      BY <2>1, <2>3
    <3> QED
      BY <3>1, <3>2 DEF ExitProtocol, Queued
  <2> QED
    BY <2>1, <2>2, <2>3
<1> QED
  BY <1>1, PanelInvariance, PTL

\* No event of a key or of an Exit is ever pushed to a full queue.
THEOREM QueueCorrect == PanelSpec => []QueueNeverFull
<1>1. PanelInv => QueueNeverFull
  <2> SUFFICES ASSUME PanelInv
               PROVE  QueueNeverFull
    OBVIOUS
  <2>1. queue = <<>> \/ \E e \in PanelEvents : queue = <<e>>
    BY DEF PanelInv, QueueOK
  <2>2. Len(queue) = 0 \/ Len(queue) = 1
    BY <2>1
  <2> QED
    BY <2>2, TimerAssumption DEF QueueNeverFull
<1> QED
  BY <1>1, PanelInvariance, PTL

\* While the keys are enabled the OLED shows what the next key will change.
THEOREM ShownCorrect == PanelSpec => []ActsOnWhatIsShown
<1>1. PanelInv => ActsOnWhatIsShown
  BY DEF PanelInv, ShownOK, Fresh, Shown, ActsOnWhatIsShown
<1> QED
  BY <1>1, PanelInvariance, PTL
=============================================================================
