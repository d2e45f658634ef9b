----------------------------- MODULE FrontPanel -----------------------------
(***************************************************************************)
(* The front panel: three keys, the event queue, the menu and the OLED,    *)
(* tied together by the main loop of app/main.c, the software timers of    *)
(* app/pollint.c, the dispatcher of app/power.c and the idle timer of      *)
(* driver/oled_meau/main_meau.c.                                           *)
(*                                                                         *)
(* One pass of main()'s loop is two steps: Poll (pollint) and Dispatch     *)
(* (ReadEvent and the switch on workMode).  The menu is the module Menu,   *)
(* the queue and the keys are the promises EventFifo and KeyStream, which  *)
(* EventQueue and Key keep.                                                *)
(***************************************************************************)
EXTENDS Menu

CONSTANTS
    TICKS,          \* milliseconds per key scan (10)
    SLOTS,          \* key scans per run of the display slot (10)
    SCAN_TICK,      \* the _msCount that runs key_Scan (2)
    DISPLAY_SLOT,   \* the _10msCount that runs Pollint_Display_Main_menu (2)
    CNT_DOWN,       \* display slots without a key until the menu is left (300)
    LONG_CNT_DOWN,  \* the same after a long press (120)
    MIN_GAP,        \* scans between two key events, of KeyStream
    EVENTBUFLEN     \* the capacity of the event queue (32)

UINT16_MAX == 65535     \* the timers are unsigned short

\* The display slot never follows the key scan at once, comes before the first
\* event the keys can make, and the idle times fit their counter.
ASSUME TimerAssumption ==
    /\ TICKS \in Nat /\ SLOTS \in Nat
    /\ SCAN_TICK \in 1 .. TICKS - 2
    /\ DISPLAY_SLOT \in 1 .. SLOTS - 1
    /\ MIN_GAP \in Nat /\ DISPLAY_SLOT < MIN_GAP
    /\ CNT_DOWN \in 0 .. UINT16_MAX /\ LONG_CNT_DOWN \in 0 .. UINT16_MAX
    /\ EVENTBUFLEN \in Nat /\ EVENTBUFLEN >= 2

VARIABLES
    queue,              \* the event queue
    down, long, quiet, keyEvent,    \* the keys: the state of KeyStream
    msCount,            \* r_pollint._msCount
    tenMsCount,         \* r_pollint._10msCount
    cnt_down,           \* display slots left until the menu is left
    enable_key_feature, \* keys operate the menu
    clear_Oled_Flag,    \* the menu, not the main display, owns the OLED
    workMode,           \* "ON" until the first key, then "KEY"
    pc                  \* which half of main()'s loop comes next

menuVars == <<menu_states, current_state, screen>>
keyVars == <<down, long, quiet, keyEvent>>
timeVars == <<msCount, tenMsCount>>
displayVars == <<cnt_down, enable_key_feature, clear_Oled_Flag>>
panelVars == <<menuVars, queue, keyVars, timeVars, displayVars, workMode, pc>>

Keys == {"UP", "DOWN", "CONFIRM"}
evRst == "Rst"
evNON == "None"
PanelEvents == Buttons \cup {evRst}

Fifo == INSTANCE EventFifo WITH Events <- PanelEvents, event <- evNON
Driver == INSTANCE KeyStream WITH NoKey <- NULL, event <- keyEvent

\* Types of the menu, the keys, the queue, the software timers and the flags.
PanelTypeOK ==
    /\ TypeOK
    /\ queue \in Seq(PanelEvents)
    /\ Driver!TypeOK
    /\ msCount \in 0 .. TICKS - 1
    /\ tenMsCount \in 0 .. SLOTS - 1
    /\ cnt_down \in 0 .. UINT16_MAX
    /\ enable_key_feature \in BOOLEAN
    /\ clear_Oled_Flag \in BOOLEAN
    /\ workMode \in {"ON", "KEY"}
    /\ pc \in {"poll", "dispatch"}

\* After HardWare_Init, ClearAllEvent and SetWorkMode(MODE_ON).
PanelInit ==
    /\ Init
    /\ Fifo!Init
    /\ Driver!Init
    /\ msCount = 0 /\ tenMsCount = 0
    /\ cnt_down = 0
    /\ enable_key_feature = FALSE
    /\ clear_Oled_Flag = TRUE
    /\ workMode = "ON"
    /\ pc = "poll"

-----------------------------------------------------------------------------
\* The panel's part of pollint, once per millisecond.

\* key_Scan: a key's event restarts the idle timer and
\* selects MODE_KEY, a long press only restarts the timer, with less time.
key_Scan ==
    /\ Driver!Next
    /\ queue' = IF keyEvent' = evNON THEN queue ELSE Fifo!Pushed(queue, keyEvent')
    /\ cnt_down' = CASE keyEvent' \in Keys -> CNT_DOWN
                     [] keyEvent' = evRst -> LONG_CNT_DOWN
                     [] OTHER -> cnt_down
    /\ workMode' = IF keyEvent' \in Keys THEN "KEY" ELSE workMode
    /\ UNCHANGED <<menuVars, enable_key_feature, clear_Oled_Flag>>

\* Mutant: the idle time stands still inside a callback.
CountDownOutsideCallbacks ==
    /\ cnt_down # 0
    /\ cnt_down' = IF current_state = CALLBACK THEN cnt_down ELSE cnt_down - 1
    /\ clear_Oled_Flag' = TRUE
    /\ IF clear_Oled_Flag
       THEN enable_key_feature' = TRUE /\ UNCHANGED <<menuVars, queue>>
       ELSE enable_key_feature' = FALSE /\ queue' = <<>> /\ menuReset

\* Mutant: the OLED is taken from the main display, and the menu not drawn.
CountDownUndrawn ==
    /\ cnt_down # 0
    /\ cnt_down' = cnt_down - 1
    /\ clear_Oled_Flag' = TRUE
    /\ IF clear_Oled_Flag
       THEN enable_key_feature' = TRUE /\ UNCHANGED queue
       ELSE enable_key_feature' = FALSE /\ queue' = <<>>
    /\ UNCHANGED menuVars

\* Pollint_Display_Main_menu while cnt_down runs: the first slot takes the OLED
\* from the main display, the next ones let the keys work.
CountDown ==
    /\ cnt_down # 0
    /\ cnt_down' = cnt_down - 1
    /\ clear_Oled_Flag' = TRUE
    /\ IF clear_Oled_Flag
       THEN enable_key_feature' = TRUE /\ UNCHANGED <<menuVars, queue>>
       ELSE enable_key_feature' = FALSE /\ queue' = <<>> /\ menuReset

\* Mutant: the keys stay enabled on the main display.
ShowMainKeysOn ==
    /\ cnt_down = 0
    /\ clear_Oled_Flag' = FALSE
    /\ IF clear_Oled_Flag THEN menuReset_No_RenderMenu
                          ELSE screen' = MainDisplay /\ UNCHANGED <<menu_states, current_state>>
    /\ UNCHANGED <<queue, cnt_down, enable_key_feature>>

\* Pollint_Display_Main_menu at cnt_down = 0: the main display owns the OLED.
ShowMain ==
    /\ cnt_down = 0
    /\ enable_key_feature' = FALSE
    /\ clear_Oled_Flag' = FALSE
    /\ IF clear_Oled_Flag THEN menuReset_No_RenderMenu
                          ELSE screen' = MainDisplay /\ UNCHANGED <<menu_states, current_state>>
    /\ UNCHANGED <<queue, cnt_down>>

Pollint_Display_Main_menu ==
    /\ CountDown \/ ShowMain
    /\ UNCHANGED <<keyVars, workMode>>

OtherTick == UNCHANGED <<menuVars, queue, keyVars, displayVars, workMode>>

ScanDue == msCount' = SCAN_TICK
DisplayDue == msCount' = 0 /\ tenMsCount' = DISPLAY_SLOT

\* ChangeTimeCount_OK saw Pollintack: ChangeTime1mSec, then Pollint10mSec.
Tick ==
    /\ pc = "poll"
    /\ msCount' = (msCount + 1) % TICKS
    /\ tenMsCount' = IF msCount' = 0 THEN (tenMsCount + 1) % SLOTS ELSE tenMsCount
    /\ \/ ScanDue /\ key_Scan
       \/ DisplayDue /\ Pollint_Display_Main_menu
       \/ ~ScanDue /\ ~DisplayDue /\ OtherTick
    /\ pc' = "dispatch"

\* Another interrupt ended the __WFI: no millisecond has passed.
NoTick ==
    /\ pc = "poll"
    /\ pc' = "dispatch"
    /\ UNCHANGED <<menuVars, queue, keyVars, timeVars, displayVars, workMode>>

-----------------------------------------------------------------------------
\* ReadEvent and ModeKey: one event per pass of the loop.

Waiting == pc = "dispatch" /\ queue # <<>>

Dispatched ==
    /\ pc' = "poll"
    /\ UNCHANGED <<keyVars, timeVars, enable_key_feature, clear_Oled_Flag, workMode>>

NoEvent ==
    /\ pc = "dispatch" /\ queue = <<>>
    /\ Dispatched
    /\ UNCHANGED <<menuVars, queue, cnt_down>>

\* Render callbacks that Press may open: both Exits push the key that leaves
\* them, Exit2Main also ends the idle time.
Opens(kind) == current_state # CALLBACK /\ current_state' = CALLBACK /\ Target(Selected) = kind

\* Mutant: the < Exit of a submenu pushes no key.
AfterRenderHomeOnly(q) == IF Opens(Exit2Main) THEN Fifo!Pushed(q, "CANCEL") ELSE q

AfterRender(q) == IF Opens(Exit) \/ Opens(Exit2Main) THEN Fifo!Pushed(q, "CANCEL") ELSE q

\* ModeKey -> menuPollButtons.
OperateMenu ==
    /\ Waiting
    /\ workMode = "KEY" /\ enable_key_feature
    /\ Head(queue) \in Buttons
    /\ Press(Head(queue))
    /\ queue' = AfterRender(Tail(queue))
    /\ cnt_down' = IF Opens(Exit2Main) THEN 0 ELSE cnt_down
    /\ Dispatched

\* ModeKey without the key feature: ClearAllEvent.
DropEvents ==
    /\ Waiting
    /\ workMode = "KEY" /\ ~enable_key_feature
    /\ queue' = <<>>
    /\ Dispatched
    /\ UNCHANGED <<menuVars, cnt_down>>

\* Mutant: an event without a handler is not taken from the queue.
IgnoreEventUnread ==
    /\ Waiting
    /\ workMode = "ON" \/ (enable_key_feature /\ Head(queue) = evRst)
    /\ Dispatched
    /\ UNCHANGED <<menuVars, queue, cnt_down>>

\* An event no handler of the current mode knows.
IgnoreEvent ==
    /\ Waiting
    /\ \/ workMode = "ON"
       \/ enable_key_feature /\ Head(queue) = evRst
    /\ queue' = Tail(queue)
    /\ Dispatched
    /\ UNCHANGED <<menuVars, cnt_down>>

Dispatch == NoEvent \/ OperateMenu \/ DropEvents \/ IgnoreEvent

PanelNext == Tick \/ NoTick \/ Dispatch

PanelSpec == PanelInit /\ [][PanelNext]_panelVars

\* The loop never blocks (a __WFI ends at the next SysTick at the latest), and
\* Pollintack stays set until a pass sees it, so ticks are not put off for ever.
PanelFairSpec == PanelSpec /\ WF_panelVars(PanelNext) /\ SF_panelVars(Tick)

-----------------------------------------------------------------------------
InExit == InCallback({Exit, Exit2Main})
Queued(e) == \E i \in DOMAIN queue : queue[i] = e

\* The Exit items work by pushing a key event to the menu they belong to, to be
\* read one pass later.  That event always finds the Exit callback it was meant
\* for, no key overtakes it, and no Exit is left without it: the cancel key
\* does not exist on the panel, so the menu would hang in the callback, or a
\* stray one would abandon an edit or leave a list unasked.
ExitProtocol ==
    /\ Queued("CANCEL") => InExit
    /\ InExit => \E i \in DOMAIN queue :
                    /\ queue[i] = "CANCEL"
                    /\ \A j \in DOMAIN queue : queue[j] \in Buttons => j = i

\* A push to the full queue is silently ignored (eventManage.c:32).  The loop
\* reads one event per pass and the pushers are paced by the timers, so that
\* never happens to a key or to the Exit of a menu.
QueueNeverFull == Len(queue) < EVENTBUFLEN

\* A key acts only on what the user sees: while the keys are enabled the OLED
\* shows the very rows, cursor or page of the state the next key will change.
\* The display slot, the menu and the main display all draw on it.
ActsOnWhatIsShown ==
    enable_key_feature =>
      /\ clear_Oled_Flag
      /\ screen \notin {MainDisplay, Blank} \/ current_state = WILD
      /\ current_state \in ListLevels => screen = Rendered(menu_states, current_state)
      /\ InCallback({"Edit"}) => screen = [kind |-> "item", item |-> Running]
      /\ InExit => screen = Rendered(menu_states, Top)

\* However the menu is left, with the keys at rest the OLED is back at the main
\* display in the end: the timer is never stopped short of it.
IdleReturnsToMain == []<>(keyEvent # evNON) \/ <>[](screen = MainDisplay)

\* A key that ends the main display brings up the menu, although the event of
\* the key itself is dropped.
KeyWakesMenu == (screen = MainDisplay /\ cnt_down > 0) ~> screen.kind = "list"

\* Whoever selects an Exit gets out of it.
ExitLeaves == InExit ~> ~InExit

\* menu.h:47-50: "Works like a state machine and indicates/caches the actual and
\* previous state of menu": the previous state that menu.c:324 follows exists.
PreviousStateExists == current_state # WILD
=============================================================================
