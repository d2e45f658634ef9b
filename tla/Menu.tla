-------------------------------- MODULE Menu --------------------------------
(***************************************************************************)
(* The OLED menu engine: driver/oled_meau/menu.c over the tree of          *)
(* driver/oled_meau/menu_items.c.                                          *)
(*                                                                         *)
(* The engine keeps one record per nesting level in a static array and a   *)
(* pointer into it.  A C pointer to menu_states[k] is the level k here; a   *)
(* pointer to a MENU_ITEM is the pair <<list, index>> it points at.        *)
(***************************************************************************)
EXTENDS Integers, Sequences

CONSTANTS
    Lists,      \* the MENU_ITEM arrays of menu_items.c
    Home,       \* home_items, the list of MENU_LEVEL_1
    Tree,       \* Tree[l]: the targets of the items of list l, in order
    Depth,      \* Depth[l]: how many submenus lead from Home to l
    OLED_LINES, \* rows of the display (8)
    NULL

(***************************************************************************)
(* What an item leads to: a submenu, or the pair of callbacks it carries.  *)
(*   Exit      Exit_ActionCallback, "< Exit" of every list but Home        *)
(*   Exit2Main Exit2MainMenu_ActionCallback, "< Exit" of Home              *)
(*   Select    left by any key (Format, Video, Audio, SRC, Display, System,*)
(*             Status)                                                     *)
(*   Edit      UP and DOWN stay (IP, MAC, GPS and the Synch status pages)  *)
(*   Dead      neither a callback nor a submenu (Feature, Audio)           *)
(***************************************************************************)
Exit == "Exit"
Exit2Main == "Exit2Main"
Callbacks == {Exit, Exit2Main, "Select", "Edit"}
Dead == "Dead"

LEVEL_1 == 0
LAST_LEVEL == 3         \* MENU_LEVEL_4
CALLBACK == 4           \* MENU_CALLBACK
ListLevels == LEVEL_1 .. LAST_LEVEL
Levels == LEVEL_1 .. CALLBACK
WILD == -1              \* a pointer computed from a read through NULL
Buttons == {"UP", "DOWN", "CONFIRM", "CANCEL"}

Items == {<<l, i>> : l \in Lists, i \in 0 .. 254}
Target(item) == Tree[item[1]][item[2] + 1]

ASSUME LinesAssumption == OLED_LINES \in 1 .. 255

\* submenu_length and current_item_idx are unsigned char, a list is not empty,
\* and the deepest list still has a level of its own.
ASSUME TreeAssumption ==
    /\ Home \in Lists
    /\ Lists \cap (Callbacks \cup {Dead}) = {}
    /\ Tree \in [Lists -> Seq(Lists \cup Callbacks \cup {Dead})]
    /\ Depth \in [Lists -> ListLevels]
    /\ Depth[Home] = LEVEL_1
    /\ \A l \in Lists :
         /\ Len(Tree[l]) \in 1 .. 255
         /\ \A i \in 1 .. Len(Tree[l]) :
              Tree[l][i] \in Lists => Depth[Tree[l][i]] = Depth[l] + 1

ASSUME NullAssumption == NULL \notin ListLevels /\ NULL \notin Items

VARIABLES
    menu_states,    \* the five MENU_STATE records
    current_state,  \* the level current_state points to
    screen          \* what was last drawn on the OLED

vars == <<menu_states, current_state, screen>>

MenuState ==
    [prev   : ListLevels \cup {NULL},   \* prev_state
     item   : Items \cup {NULL},        \* current_item
     idx    : 0 .. 254,                 \* current_item_idx
     cursor : 0 .. 254]                 \* cursor_line

Blank == [kind |-> "blank"]
MainDisplay == [kind |-> "main"]

Screens ==
    {Blank, MainDisplay}
      \cup [kind : {"list"}, list : Lists, first : 0 .. 254, cursor : 0 .. 254]
      \cup [kind : {"item"}, item : Items]

\* Types of the five records and the pointer of menu.c; every unsigned char of
\* them stays a row number, also where the code adds to it or subtracts from it.
TypeOK ==
    /\ menu_states \in [Levels -> MenuState]
    /\ current_state \in Levels \cup {WILD}
    /\ screen \in Screens

-----------------------------------------------------------------------------
\* The list level k shows: `items` and `max_options` of scrollMenu and
\* renderMenu, looked up through the previous level's current_item.
ListIn(states, k) ==
    IF k = LEVEL_1 THEN Home ELSE Target(states[states[k].prev].item)

ListAt(k) == ListIn(menu_states, k)
MaxOptions(k) == Len(Tree[ListAt(k)])

\* renderMenu: the rows drawn start at idx - cursor, an unsigned char.
Rendered(states, k) ==
    [kind   |-> "list",
     list   |-> ListIn(states, k),
     first  |-> (states[k].idx - states[k].cursor) % 256,
     cursor |-> states[k].cursor]

ResetState == [prev |-> NULL, item |-> NULL, idx |-> 0, cursor |-> 0]

-----------------------------------------------------------------------------
\* Mutant: case MENU_UP without its test for the first row.
MovedUpUnchecked(s, max) ==
    [s EXCEPT !.idx = (@ - 1) % 256, !.cursor = IF @ = 0 THEN 0 ELSE @ - 1]

\* scrollMenu, case MENU_UP.
MovedUp(s, max) ==
    IF s.idx # 0
    THEN [s EXCEPT !.idx = @ - 1, !.cursor = IF @ = 0 THEN 0 ELSE @ - 1]
    ELSE [s EXCEPT !.idx = max - 1,
                   !.cursor = IF OLED_LINES - 1 > max - 1 THEN max - 1 ELSE OLED_LINES - 1]

\* Mutant: case MENU_DOWN lets the cursor go one row too far.
MovedDownPastScreen(s, max) ==
    IF s.idx < max - 1
    THEN [s EXCEPT !.idx = @ + 1, !.cursor = IF @ = OLED_LINES THEN @ ELSE @ + 1]
    ELSE [s EXCEPT !.idx = 0, !.cursor = 0]

\* scrollMenu, case MENU_DOWN.
MovedDown(s, max) ==
    IF s.idx < max - 1
    THEN [s EXCEPT !.idx = @ + 1,
                   !.cursor = IF @ = OLED_LINES - 1 THEN @ ELSE @ + 1]
    ELSE [s EXCEPT !.idx = 0, !.cursor = 0]

Scroll(Moved(_, _)) ==
    /\ current_state \in ListLevels
    /\ menu_states' = [menu_states EXCEPT
                         ![current_state] = Moved(@, MaxOptions(current_state))]
    /\ screen' = Rendered(menu_states', current_state)
    /\ UNCHANGED current_state

PressUp == Scroll(MovedUp)
PressDown == Scroll(MovedDown)

Selected == <<ListAt(current_state), menu_states[current_state].idx>>

\* scrollMenu, case MENU_CONFIRM on an item with a submenu.
EnterSubmenu ==
    /\ current_state \in ListLevels
    /\ Target(Selected) \in Lists
    /\ current_state' = current_state + 1
    /\ menu_states' = [menu_states EXCEPT
                         ![current_state].item = Selected,
                         ![current_state + 1] = [ResetState EXCEPT !.prev = current_state]]
    /\ screen' = Rendered(menu_states', current_state')

\* What render_callback draws: Exit and Exit2Main draw nothing, and a
\* selection whose item is NON_OPERATE returns before it clears the screen.
DrawnBy(item) ==
    CASE Target(item) \in {Exit, Exit2Main} -> {screen}
      [] Target(item) = "Select" -> {screen, [kind |-> "item", item |-> item]}
      [] OTHER -> {[kind |-> "item", item |-> item]}

\* Mutant: the list does not remember the item whose callback it opened.
OpenCallbackForgetful ==
    /\ current_state \in ListLevels
    /\ Target(Selected) \in Callbacks
    /\ current_state' = CALLBACK
    /\ menu_states' = [menu_states EXCEPT
                         ![CALLBACK] = [prev |-> current_state, item |-> Selected,
                                        idx |-> menu_states[current_state].idx, cursor |-> 0]]
    /\ screen' \in DrawnBy(Selected)

\* scrollMenu, case MENU_CONFIRM on an item with a render_callback.
OpenCallback ==
    /\ current_state \in ListLevels
    /\ Target(Selected) \in Callbacks
    /\ current_state' = CALLBACK
    /\ menu_states' = [menu_states EXCEPT
                         ![current_state].item = Selected,
                         ![CALLBACK] = [prev |-> current_state, item |-> Selected,
                                        idx |-> menu_states[current_state].idx, cursor |-> 0]]
    /\ screen' \in DrawnBy(Selected)

\* scrollMenu, case MENU_CONFIRM on an item with neither: only redrawn.
ConfirmDead ==
    /\ current_state \in ListLevels
    /\ Target(Selected) = Dead
    /\ screen' = Rendered(menu_states, current_state)
    /\ UNCHANGED <<menu_states, current_state>>

PressConfirm == EnterSubmenu \/ OpenCallback \/ ConfirmDead

\* Mutant: MENU_CANCEL always leads to the first level.
PressCancelHome ==
    /\ current_state \in ListLevels
    /\ current_state' = LEVEL_1
    /\ screen' = Rendered(menu_states, current_state')
    /\ UNCHANGED menu_states

\* scrollMenu, case MENU_CANCEL, outside a callback.
PressCancel ==
    /\ current_state \in ListLevels
    /\ current_state' = IF current_state = LEVEL_1 THEN LEVEL_1
                        ELSE menu_states[current_state].prev
    /\ screen' = Rendered(menu_states, current_state')
    /\ UNCHANGED menu_states

-----------------------------------------------------------------------------
\* The item whose callback is running, prev_state->current_item.
Running == menu_states[menu_states[CALLBACK].prev].item
InCallback(kinds) == current_state = CALLBACK /\ Target(Running) \in kinds

\* menuPollButtons: current_state = &menu_states[current_state->prev_state->level].
\* A NULL prev_state is read through, which may yield any level or none:
\* LEVEL_1 is the outcome that goes unnoticed, WILD stands for the others.
PrevOf(k) ==
    IF menu_states[k].prev = NULL THEN {LEVEL_1, WILD} ELSE {menu_states[k].prev}

MoveTo(k) ==
    /\ current_state' = k
    /\ IF k = WILD THEN screen' \in {screen, Blank}
                   ELSE screen' = Rendered(menu_states, k)
    /\ UNCHANGED menu_states

\* The callback of a Select or Edit item returned TRUE.
LeaveCallback(button) ==
    /\ \/ InCallback({"Select"})
       \/ InCallback({"Edit"}) /\ button \in {"CONFIRM", "CANCEL"}
    /\ MoveTo(menu_states[CALLBACK].prev)

\* The callback of an Edit item returned FALSE: it redrew its own page.
StayInCallback(button) ==
    /\ InCallback({"Edit"})
    /\ button \in {"UP", "DOWN"}
    /\ screen' = [kind |-> "item", item |-> Running]
    /\ UNCHANGED <<menu_states, current_state>>

\* Exit_ActionCallback and Exit2MainMenu_ActionCallback on MENU_CANCEL:
\* scrollMenu(button) moves to the list that holds the item, TRUE makes
\* menuPollButtons move once more, to that list's parent.
ExitList ==
    /\ InCallback({Exit, Exit2Main})
    /\ \E k \in PrevOf(menu_states[CALLBACK].prev) : MoveTo(k)

\* The Exit callbacks on any other button return FALSE and draw nothing.
IgnoreInExit ==
    /\ InCallback({Exit, Exit2Main})
    /\ UNCHANGED vars

\* menuPollButtons on a wild current_state: what is drawn is unknown, and the
\* pointer stays untrusted until a reset.
PressWild ==
    /\ current_state = WILD
    /\ screen' \in {screen, Blank}
    /\ UNCHANGED <<menu_states, current_state>>

\* menuPollButtons(key_mode), for the role it gives menu_buttons[0].
Press(button) ==
    \/ button = "UP" /\ PressUp
    \/ button = "DOWN" /\ PressDown
    \/ button = "CONFIRM" /\ PressConfirm
    \/ button = "CANCEL" /\ PressCancel
    \/ LeaveCallback(button)
    \/ StayInCallback(button)
    \/ button = "CANCEL" /\ ExitList
    \/ button # "CANCEL" /\ IgnoreInExit
    \/ PressWild

Home_State ==
    /\ current_state' = LEVEL_1
    /\ menu_states' = [menu_states EXCEPT ![LEVEL_1] = ResetState]

menuReset ==
    /\ Home_State
    /\ screen' = Rendered(menu_states', LEVEL_1)

\* menuReset_No_RenderMenu; its caller clears the OLED and draws the main display.
menuReset_No_RenderMenu ==
    /\ Home_State
    /\ screen' = MainDisplay

Init ==
    /\ menu_states = [k \in Levels |-> ResetState]
    /\ current_state = LEVEL_1
    /\ screen = Blank

Next ==
    \/ \E b \in Buttons : Press(b)
    \/ menuReset
    \/ menuReset_No_RenderMenu

Spec == Init /\ [][Next]_vars

-----------------------------------------------------------------------------
\* The deepest level whose list is in use: the current one, or the one that
\* a running callback returns to.
Top == IF current_state = CALLBACK THEN menu_states[CALLBACK].prev ELSE current_state

Smaller(a, b) == IF a < b THEN a ELSE b

\* Every level in use is chained to the one above it through prev_state, its
\* parent remembers the very item that was confirmed, and the list it shows is
\* the one that item opens, at its own depth.  menu.c follows these pointers
\* without a check on every key press.
ChainOK ==
    current_state # WILD =>
      /\ Top \in ListLevels
      /\ menu_states[LEVEL_1].prev = NULL
      /\ \A k \in 1 .. Top :
           /\ menu_states[k].prev = k - 1
           /\ menu_states[k - 1].item = <<ListAt(k - 1), menu_states[k - 1].idx>>
      /\ \A k \in LEVEL_1 .. Top : ListAt(k) \in Lists /\ Depth[ListAt(k)] = k
      /\ current_state = CALLBACK =>
           /\ menu_states[Top].item = <<ListAt(Top), menu_states[Top].idx>>
           /\ Target(Running) \in Callbacks

\* On every level in use the rows renderMenu draws lie inside the list:
\* current_item_idx and cursor_line are two counters updated apart, and
\* items[first_item + i] reads past the array as soon as they disagree.
WindowOK ==
    current_state # WILD =>
      \A k \in LEVEL_1 .. Top :
        LET s == menu_states[k]
            max == MaxOptions(k)
        IN  /\ s.cursor < OLED_LINES
            /\ s.cursor <= s.idx
            /\ s.idx < max
            /\ (s.idx - s.cursor) + Smaller(max, OLED_LINES) <= max

\* The lists of the levels 0 .. top, each with its selected row.
Stack(states, top) ==
    [k \in 1 .. top + 1 |-> <<ListIn(states, k - 1), states[k - 1].idx>>]

NavPath == IF current_state = WILD THEN <<>> ELSE Stack(menu_states, Top)

NavMode ==
    CASE current_state = WILD -> "lost"
      [] current_state = CALLBACK -> "open"
      [] OTHER -> "browsing"

\* The engine implements the stack of lists of MenuNav: a row is reached again
\* where it was left, Exit leads to the list that opened this one, and the
\* selection goes round each list one row at a time.
Nav == INSTANCE MenuNav WITH
    path <- NavPath, mode <- NavMode, Exits <- {Exit, Exit2Main}

NavSpec == Nav!Spec
=============================================================================
