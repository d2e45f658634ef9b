----------------------------- MODULE Menu_proofs -----------------------------
(***************************************************************************)
(* Proofs about the menu, for every tree of lists, every display height,   *)
(* every set of editable rows and every sequence of keys and resets:       *)
(*   - the inductive invariant of the menu engine;                         *)
(*   - the engine implements the stack of lists of MenuNav;                *)
(*   - CONFIRM saves what the page of a number editor shows.               *)
(*                                                                         *)
(* ChainOK and WindowOK speak of the levels in use through the variables;  *)
(* here they are restated for any array of records `st` and any deepest    *)
(* level `top`, so that one lemma serves the steps that change both.       *)
(***************************************************************************)
EXTENDS MenuEdit, SequenceTheorems, TLAPS

\* What ChainOK says of the levels 0 .. top.
Chain(st, top) ==
    /\ st[LEVEL_1].prev = NULL
    /\ \A k \in 1 .. top :
         /\ st[k].prev = k - 1
         /\ st[k - 1].item = <<ListIn(st, k - 1), st[k - 1].idx>>
    /\ \A k \in LEVEL_1 .. top : ListIn(st, k) \in Lists /\ Depth[ListIn(st, k)] = k

\* What WindowOK says of one row pointer in a list of max items.
RowAt(idx, cursor, max) ==
    /\ cursor < OLED_LINES
    /\ cursor <= idx
    /\ idx < max
    /\ (idx - cursor) + Smaller(max, OLED_LINES) <= max

RowOK(s, max) == RowAt(s.idx, s.cursor, max)

Rows(st, top) == \A k \in LEVEL_1 .. top : RowOK(st[k], Len(Tree[ListIn(st, k)]))

\* What is left of ChainOK: the callback that runs is the selected item's.
Opened(st, c) ==
    c = CALLBACK =>
      LET top == st[CALLBACK].prev
      IN  /\ st[top].item = <<ListIn(st, top), st[top].idx>>
          /\ Target(st[top].item) \in Callbacks

IInv ==
    /\ TypeOK
    /\ current_state # WILD =>
         /\ Top \in ListLevels
         /\ Chain(menu_states, Top)
         /\ Rows(menu_states, Top)
         /\ Opened(menu_states, current_state)

\* The restatement is equivalent to the invariants TLC checks.
LEMMA Restated == IInv <=> TypeOK /\ ChainOK /\ WindowOK
BY DEF IInv, ChainOK, WindowOK, Chain, Rows, RowOK, RowAt, Opened, ListAt, MaxOptions, Running, Top

-----------------------------------------------------------------------------
\* A list is never empty and its length fits the unsigned char counters.
LEMMA ListLength ==
    ASSUME NEW l \in Lists
    PROVE  Len(Tree[l]) \in 1 .. 255
BY TreeAssumption

\* A list lies at a level that has a record of its own.
LEMMA DepthInRange ==
    ASSUME NEW l \in Lists
    PROVE  Depth[l] \in ListLevels
<1>1. Depth \in [Lists -> ListLevels]
  BY TreeAssumption
<1> QED
  BY <1>1

\* An entry of a list's row is a list, a callback or nothing; a list it opens
\* lies one level deeper.
LEMMA RowTarget ==
    ASSUME NEW l \in Lists, NEW i \in Nat, i < Len(Tree[l]), Target(<<l, i>>) \in Lists
    PROVE  Depth[Target(<<l, i>>)] = Depth[l] + 1
<1>1. i + 1 \in 1 .. Len(Tree[l])
  <2>1. Len(Tree[l]) \in 1 .. 255
    BY ListLength
  <2>2. \A n \in 1 .. 255 : i < n => i + 1 \in 1 .. n
    OBVIOUS
  <2> QED
    BY <2>1, <2>2
<1>2. \A j \in 1 .. Len(Tree[l]) : Tree[l][j] \in Lists => Depth[Tree[l][j]] = Depth[l] + 1
  BY TreeAssumption
<1>3. Target(<<l, i>>) = Tree[l][i + 1]
  BY DEF Target
<1> QED
  BY <1>1, <1>2, <1>3

\* The two counters of scrollMenu after MENU_UP and after MENU_DOWN.
UpIdx(idx, max) == IF idx # 0 THEN idx - 1 ELSE max - 1
UpCursor(idx, cursor, max) ==
    IF idx # 0 THEN IF cursor = 0 THEN 0 ELSE cursor - 1
    ELSE IF OLED_LINES - 1 > max - 1 THEN max - 1 ELSE OLED_LINES - 1
DownIdx(idx, max) == IF idx < max - 1 THEN idx + 1 ELSE 0
DownCursor(idx, cursor, max) ==
    IF idx < max - 1 THEN IF cursor = OLED_LINES - 1 THEN cursor ELSE cursor + 1 ELSE 0

\* They keep the rows drawn inside the list, at its ends and between them.
LEMMA UpArithmetic ==
    ASSUME NEW max \in 1 .. 255, NEW idx \in 0 .. 254, NEW cursor \in 0 .. 254,
           RowAt(idx, cursor, max)
    PROVE  /\ UpIdx(idx, max) \in 0 .. 254
           /\ UpCursor(idx, cursor, max) \in 0 .. 254
           /\ RowAt(UpIdx(idx, max), UpCursor(idx, cursor, max), max)
<1>1. CASE idx # 0
  BY <1>1, LinesAssumption DEF RowAt, UpIdx, UpCursor, Smaller
<1>2. CASE idx = 0
  BY <1>2, LinesAssumption DEF RowAt, UpIdx, UpCursor, Smaller
<1> QED
  BY <1>1, <1>2

\* Moving down keeps them inside the list as well.
LEMMA DownArithmetic ==
    ASSUME NEW max \in 1 .. 255, NEW idx \in 0 .. 254, NEW cursor \in 0 .. 254,
           RowAt(idx, cursor, max)
    PROVE  /\ DownIdx(idx, max) \in 0 .. 254
           /\ DownCursor(idx, cursor, max) \in 0 .. 254
           /\ RowAt(DownIdx(idx, max), DownCursor(idx, cursor, max), max)
<1>1. CASE idx < max - 1
  BY <1>1, LinesAssumption DEF RowAt, DownIdx, DownCursor, Smaller
<1>2. CASE ~(idx < max - 1)
  BY <1>2, LinesAssumption DEF RowAt, DownIdx, DownCursor, Smaller
<1> QED
  BY <1>1, <1>2

\* MENU_UP and MENU_DOWN keep the rows drawn inside the list, and nothing else
\* of the record changes.
LEMMA MovedRow ==
    ASSUME NEW s \in MenuState, NEW max \in 1 .. 255, RowOK(s, max)
    PROVE  /\ MovedUp(s, max) \in MenuState /\ RowOK(MovedUp(s, max), max)
           /\ MovedDown(s, max) \in MenuState /\ RowOK(MovedDown(s, max), max)
           /\ MovedUp(s, max).prev = s.prev /\ MovedUp(s, max).item = s.item
           /\ MovedDown(s, max).prev = s.prev /\ MovedDown(s, max).item = s.item
<1>1. /\ s.idx \in 0 .. 254 /\ s.cursor \in 0 .. 254
      /\ s.prev \in ListLevels \cup {NULL} /\ s.item \in Items \cup {NULL}
  BY DEF MenuState
<1>2. RowAt(s.idx, s.cursor, max)
  BY DEF RowOK
<1>3. MovedUp(s, max) = [prev |-> s.prev, item |-> s.item, idx |-> UpIdx(s.idx, max),
                         cursor |-> UpCursor(s.idx, s.cursor, max)]
  BY DEF MovedUp, MenuState, UpIdx, UpCursor
<1>4. MovedDown(s, max) = [prev |-> s.prev, item |-> s.item, idx |-> DownIdx(s.idx, max),
                           cursor |-> DownCursor(s.idx, s.cursor, max)]
  BY DEF MovedDown, MenuState, DownIdx, DownCursor
<1>5. MovedUp(s, max) \in MenuState /\ RowOK(MovedUp(s, max), max)
  <2>1. /\ UpIdx(s.idx, max) \in 0 .. 254
        /\ UpCursor(s.idx, s.cursor, max) \in 0 .. 254
        /\ RowAt(UpIdx(s.idx, max), UpCursor(s.idx, s.cursor, max), max)
    BY <1>1, <1>2, UpArithmetic
  <2> QED
    BY <1>1, <1>3, <2>1 DEF MenuState, RowOK
<1>6. MovedDown(s, max) \in MenuState /\ RowOK(MovedDown(s, max), max)
  <2>1. /\ DownIdx(s.idx, max) \in 0 .. 254
        /\ DownCursor(s.idx, s.cursor, max) \in 0 .. 254
        /\ RowAt(DownIdx(s.idx, max), DownCursor(s.idx, s.cursor, max), max)
    BY <1>1, <1>2, DownArithmetic
  <2> QED
    BY <1>1, <1>4, <2>1 DEF MenuState, RowOK
<1> QED
  BY <1>3, <1>4, <1>5, <1>6

\* A list that was just opened shows its first row.
LEMMA ResetRow ==
    ASSUME NEW max \in 1 .. 255
    PROVE  ResetState \in MenuState /\ RowOK(ResetState, max)
BY LinesAssumption DEF ResetState, RowOK, RowAt, MenuState, Smaller

\* What renderMenu draws is a list's rows from a first row that does exist.
LEMMA RenderedType ==
    ASSUME NEW st, NEW k, ListIn(st, k) \in Lists, st[k] \in MenuState,
           RowOK(st[k], Len(Tree[ListIn(st, k)]))
    PROVE  Rendered(st, k) \in Screens
<1>1. /\ st[k].idx \in 0 .. 254
      /\ st[k].cursor \in 0 .. 254
      /\ st[k].cursor <= st[k].idx
  BY DEF MenuState, RowOK, RowAt
<1>2. \A x \in 0 .. 254 : x % 256 = x
  OBVIOUS
<1>5. \A i, c \in 0 .. 254 : c <= i => i - c \in 0 .. 254
  OBVIOUS
<1>3. st[k].idx - st[k].cursor \in 0 .. 254
  BY <1>1, <1>5
<1>4. (st[k].idx - st[k].cursor) % 256 \in 0 .. 254
  BY <1>2, <1>3
<1> QED
  BY <1>1, <1>4 DEF Rendered, Screens

-----------------------------------------------------------------------------
\* What holds of the levels 0 .. top holds of the first of them.
LEMMA Shorter ==
    ASSUME NEW st, NEW top \in ListLevels, NEW k \in LEVEL_1 .. top,
           Chain(st, top), Rows(st, top)
    PROVE  Chain(st, k) /\ Rows(st, k) /\ k \in ListLevels
BY DEF Chain, Rows, ListLevels, LEVEL_1, LAST_LEVEL

\* A step that leaves the levels above `top` alone and, at `top`, the pointer to
\* the level above, changes neither the chain nor the lists shown.
LEMMA SameLists ==
    ASSUME NEW st, NEW st2, NEW top \in ListLevels, Chain(st, top), Rows(st, top),
           st2[top].prev = st[top].prev,
           \A k \in LEVEL_1 .. top - 1 : st2[k] = st[k],
           RowOK(st2[top], Len(Tree[ListIn(st, top)]))
    PROVE  /\ \A k \in LEVEL_1 .. top : ListIn(st2, k) = ListIn(st, k)
           /\ Chain(st2, top)
           /\ Rows(st2, top)
<1> USE DEF ListLevels, LEVEL_1, LAST_LEVEL
<1>1. \A k \in 0 .. top : st2[k].prev = st[k].prev
  OBVIOUS
<1>2. ASSUME NEW k \in 0 .. top PROVE ListIn(st2, k) = ListIn(st, k)
  <2>1. CASE k = 0
    BY <2>1 DEF ListIn
  <2>2. CASE k # 0
    <3>1. st[k].prev = k - 1 /\ k - 1 \in 0 .. top - 1
      BY <2>2 DEF Chain
    <3> QED
      BY <1>1, <2>2, <3>1 DEF ListIn
  <2> QED
    BY <2>1, <2>2
<1>3. Chain(st2, top)
  <2>1. st2[0].prev = NULL
    BY <1>1 DEF Chain
  <2>2. ASSUME NEW k \in 1 .. top
        PROVE  st2[k].prev = k - 1 /\ st2[k - 1].item = <<ListIn(st2, k - 1), st2[k - 1].idx>>
    <3>1. k - 1 \in 0 .. top - 1 /\ k \in 0 .. top /\ k - 1 \in 0 .. top
      OBVIOUS
    <3> QED
      BY <1>1, <1>2, <3>1 DEF Chain
  <2>3. \A k \in 0 .. top : ListIn(st2, k) \in Lists /\ Depth[ListIn(st2, k)] = k
    BY <1>2 DEF Chain
  <2> QED
    BY <2>1, <2>2, <2>3 DEF Chain
<1>4. Rows(st2, top)
  <2> SUFFICES ASSUME NEW k \in 0 .. top
               PROVE  RowOK(st2[k], Len(Tree[ListIn(st2, k)]))
    BY DEF Rows
  <2>1. CASE k = top
    BY <1>2, <2>1
  <2>2. CASE k # top
    BY <1>2, <2>2 DEF Rows
  <2> QED
    BY <2>1, <2>2
<1> QED
  BY <1>2, <1>3, <1>4

\* A list that an item of the last list opens continues the chain.
LEMMA Longer ==
    ASSUME NEW st, NEW top \in ListLevels, Chain(st, top), Rows(st, top),
           st[top].idx \in Nat,
           st[top].item = <<ListIn(st, top), st[top].idx>>,
           Target(st[top].item) \in Lists,
           st[top + 1] = [ResetState EXCEPT !.prev = top]
    PROVE  top + 1 \in ListLevels /\ Chain(st, top + 1) /\ Rows(st, top + 1)
<1> DEFINE l == ListIn(st, top)
           sub == Target(st[top].item)
<1>1. ListIn(st, top + 1) = sub
  <2>1. st[top + 1].prev = top
    BY DEF ResetState
  <2> QED
    BY <2>1 DEF ListIn, ListLevels, LEVEL_1, LAST_LEVEL
<1>2. l \in Lists /\ Depth[l] = top
  BY DEF Chain, ListLevels, LEVEL_1, LAST_LEVEL
<1>3. st[top].idx < Len(Tree[l])
  BY DEF Rows, RowOK, RowAt, ListLevels, LEVEL_1, LAST_LEVEL
<1>4. Depth[sub] = top + 1
  BY <1>2, <1>3, RowTarget
<1>5. top + 1 \in ListLevels
  BY <1>4, DepthInRange
<1>6. Chain(st, top + 1)
  <2>1. st[top + 1].prev = top
    BY DEF ResetState
  <2>2. ASSUME NEW k \in 1 .. top + 1
        PROVE  st[k].prev = k - 1 /\ st[k - 1].item = <<ListIn(st, k - 1), st[k - 1].idx>>
    <3>1. CASE k = top + 1
      <4>1. k - 1 = top
        BY <3>1 DEF ListLevels, LEVEL_1, LAST_LEVEL
      <4> QED
        BY <2>1, <3>1, <4>1
    <3>2. CASE k # top + 1
      BY <3>2 DEF Chain, ListLevels, LEVEL_1, LAST_LEVEL
    <3> QED
      BY <3>1, <3>2
  <2>3. ASSUME NEW k \in LEVEL_1 .. top + 1
        PROVE  ListIn(st, k) \in Lists /\ Depth[ListIn(st, k)] = k
    <3>1. CASE k = top + 1
      BY <1>1, <1>4, <3>1
    <3>2. CASE k # top + 1
      BY <3>2 DEF Chain, ListLevels, LEVEL_1, LAST_LEVEL
    <3> QED
      BY <3>1, <3>2
  <2> QED
    BY <2>2, <2>3 DEF Chain
<1>7. Rows(st, top + 1)
  <2> SUFFICES ASSUME NEW k \in LEVEL_1 .. top + 1
               PROVE  RowOK(st[k], Len(Tree[ListIn(st, k)]))
    BY DEF Rows
  <2>1. CASE k = top + 1
    <3>1. RowOK(ResetState, Len(Tree[sub]))
      BY ListLength, ResetRow
    <3>2. st[k].idx = ResetState.idx /\ st[k].cursor = ResetState.cursor
      BY <2>1 DEF ResetState
    <3> QED
      BY <1>1, <2>1, <3>1, <3>2 DEF RowOK
  <2>2. CASE k # top + 1
    BY <2>2 DEF Rows, ListLevels, LEVEL_1, LAST_LEVEL
  <2> QED
    BY <2>1, <2>2
<1> QED
  BY <1>5, <1>6, <1>7

\* The first level after a reset: Home, at its first row.
LEMMA HomeLevel ==
    ASSUME NEW st, st[LEVEL_1] = ResetState
    PROVE  LEVEL_1 \in ListLevels /\ Chain(st, LEVEL_1) /\ Rows(st, LEVEL_1)
<1>1. ListIn(st, LEVEL_1) = Home
  BY DEF ListIn
<1>2. Home \in Lists /\ Depth[Home] = LEVEL_1
  BY TreeAssumption
<1>5. RowOK(ResetState, Len(Tree[Home]))
  BY <1>2, ListLength, ResetRow
<1>3. Chain(st, LEVEL_1)
  BY <1>1, <1>2 DEF Chain, ResetState, LEVEL_1
<1>4. Rows(st, LEVEL_1)
  BY <1>1, <1>5 DEF Rows, LEVEL_1
<1> QED
  BY <1>3, <1>4 DEF ListLevels, LEVEL_1, LAST_LEVEL

-----------------------------------------------------------------------------
\* The zeroed records and the pointer to the first level satisfy the invariant.
LEMMA InitInv == Init => IInv
<1> SUFFICES ASSUME Init
             PROVE  IInv
  OBVIOUS
<1>1. ResetState \in MenuState
  BY ResetRow
<1>2. TypeOK
  BY <1>1 DEF Init, TypeOK, Levels, LEVEL_1, CALLBACK, Screens, Blank
<1>3. Top = LEVEL_1 /\ current_state # CALLBACK
  BY DEF Init, Top, LEVEL_1, CALLBACK
<1>4. menu_states[LEVEL_1] = ResetState
  BY DEF Init, Levels, LEVEL_1, CALLBACK
<1> QED
  BY <1>2, <1>3, <1>4, HomeLevel DEF IInv, Opened

\* Facts about the list on display that the steps of scrollMenu start from.
LEMMA AtList ==
    ASSUME IInv, current_state \in ListLevels
    PROVE  /\ current_state # WILD /\ current_state # CALLBACK /\ Top = current_state
           /\ current_state \in Levels
           /\ Chain(menu_states, current_state) /\ Rows(menu_states, current_state)
           /\ ListAt(current_state) \in Lists
           /\ menu_states[current_state] \in MenuState
           /\ RowOK(menu_states[current_state], MaxOptions(current_state))
           /\ MaxOptions(current_state) \in 1 .. 255
           /\ menu_states[current_state].idx \in 0 .. 254
           /\ Selected \in Items
<1> DEFINE c == current_state
<1>1. c # WILD /\ c # CALLBACK /\ Top = c /\ c \in Levels /\ c \in LEVEL_1 .. c
  BY DEF ListLevels, LEVEL_1, LAST_LEVEL, CALLBACK, WILD, Top, Levels
<1>2. Chain(menu_states, c) /\ Rows(menu_states, c)
  BY <1>1 DEF IInv
<1>3. ListAt(c) \in Lists
  BY <1>1, <1>2 DEF Chain, ListAt
<1>4. menu_states[c] \in MenuState
  BY <1>1 DEF IInv, TypeOK
<1>5. RowOK(menu_states[c], MaxOptions(c))
  BY <1>1, <1>2 DEF Rows, MaxOptions, ListAt
<1>6. MaxOptions(c) \in 1 .. 255
  BY <1>3, ListLength DEF MaxOptions
<1>7. menu_states[c].idx \in 0 .. 254
  BY <1>4 DEF MenuState
<1>8. Selected \in Items
  BY <1>3, <1>7 DEF Selected, Items
<1> QED
  BY <1>1, <1>2, <1>3, <1>4, <1>5, <1>6, <1>7, <1>8

\* A key press that shows a list: IInv holds of it when its levels are chained.
LEMMA ShowsList ==
    ASSUME current_state' \in ListLevels,
           menu_states' \in [Levels -> MenuState],
           screen' = Rendered(menu_states', current_state') \/ screen' \in Screens,
           Chain(menu_states', current_state'),
           Rows(menu_states', current_state')
    PROVE  IInv'
<1> DEFINE c == current_state'
           st == menu_states'
<1>1. c # WILD /\ c # CALLBACK /\ c \in Levels /\ c \in LEVEL_1 .. c
  BY DEF ListLevels, LEVEL_1, LAST_LEVEL, CALLBACK, WILD, Levels
<1>2. Top' = c
  BY <1>1 DEF Top
<1>3. Rendered(st, c) \in Screens
  <2>1. ListIn(st, c) \in Lists
    BY <1>1 DEF Chain
  <2>2. RowOK(st[c], Len(Tree[ListIn(st, c)]))
    BY <1>1 DEF Rows
  <2>3. st[c] \in MenuState
    BY <1>1
  <2> QED
    BY <2>1, <2>2, <2>3, RenderedType
<1>4. TypeOK'
  BY <1>1, <1>3 DEF TypeOK
<1> QED
  BY <1>1, <1>2, <1>4 DEF IInv, Opened

-----------------------------------------------------------------------------
\* MENU_UP and MENU_DOWN change one record and draw its level again.
LEMMA ScrollInv == IInv /\ (PressUp \/ PressDown) => IInv'
<1> SUFFICES ASSUME IInv, PressUp \/ PressDown
             PROVE  IInv'
  OBVIOUS
<1> DEFINE c == current_state
           s == menu_states[c]
           moved == menu_states'[c]
<1>1. c \in ListLevels
  BY DEF PressUp, PressDown, Scroll
<1>2. /\ current_state' = c
      /\ \/ menu_states' = [menu_states EXCEPT ![c] = MovedUp(s, MaxOptions(c))]
         \/ menu_states' = [menu_states EXCEPT ![c] = MovedDown(s, MaxOptions(c))]
      /\ screen' = Rendered(menu_states', c)
  BY DEF PressUp, PressDown, Scroll
<1>3. /\ menu_states \in [Levels -> MenuState]
      /\ c \in Levels
      /\ s \in MenuState
      /\ RowOK(s, MaxOptions(c))
      /\ MaxOptions(c) \in 1 .. 255
  BY <1>1, AtList DEF IInv, TypeOK
<1>4. moved = MovedUp(s, MaxOptions(c)) \/ moved = MovedDown(s, MaxOptions(c))
  BY <1>2, <1>3
<1>5. moved \in MenuState /\ RowOK(moved, MaxOptions(c)) /\ moved.prev = s.prev
  <2>1. /\ MovedUp(s, MaxOptions(c)) \in MenuState
        /\ RowOK(MovedUp(s, MaxOptions(c)), MaxOptions(c))
        /\ MovedUp(s, MaxOptions(c)).prev = s.prev
    BY <1>3, MovedRow
  <2>2. /\ MovedDown(s, MaxOptions(c)) \in MenuState
        /\ RowOK(MovedDown(s, MaxOptions(c)), MaxOptions(c))
        /\ MovedDown(s, MaxOptions(c)).prev = s.prev
    BY <1>3, MovedRow
  <2> QED
    BY <1>4, <2>1, <2>2
<1>6. menu_states' = [menu_states EXCEPT ![c] = moved]
  BY <1>2, <1>3
<1>7. menu_states' \in [Levels -> MenuState]
  BY <1>3, <1>5, <1>6
<1>8. \A k \in LEVEL_1 .. c - 1 : menu_states'[k] = menu_states[k]
  BY <1>1, <1>3, <1>6 DEF Levels, ListLevels, LEVEL_1, LAST_LEVEL, CALLBACK
<1>9. Chain(menu_states', c) /\ Rows(menu_states', c)
  BY <1>1, <1>5, <1>8, AtList, SameLists DEF MaxOptions, ListAt
<1> QED
  BY <1>1, <1>2, <1>7, <1>9, ShowsList

\* MENU_CONFIRM on a submenu chains one more level to the current one.
LEMMA EnterSubmenuInv == IInv /\ EnterSubmenu => IInv'
<1> SUFFICES ASSUME IInv, EnterSubmenu
             PROVE  IInv'
  OBVIOUS
<1> DEFINE c == current_state
           s == menu_states[c]
           st == menu_states'
<1>1. /\ c \in ListLevels
      /\ Target(Selected) \in Lists
      /\ current_state' = c + 1
      /\ screen' = Rendered(menu_states', current_state')
  BY DEF EnterSubmenu
<1>2. /\ menu_states \in [Levels -> MenuState]
      /\ c \in Levels /\ c + 1 \in Levels
      /\ s \in MenuState
      /\ Selected \in Items
      /\ s.idx \in 0 .. 254
  BY <1>1, AtList DEF IInv, TypeOK, Levels, ListLevels, LEVEL_1, LAST_LEVEL, CALLBACK
<1>3. /\ st[c] = [s EXCEPT !.item = Selected]
      /\ st[c + 1] = [ResetState EXCEPT !.prev = c]
      /\ \A k \in Levels : k # c /\ k # c + 1 => st[k] = menu_states[k]
  BY <1>2 DEF EnterSubmenu, Levels, LEVEL_1, CALLBACK
<1>4. /\ st[c].prev = s.prev /\ st[c].idx = s.idx /\ st[c].cursor = s.cursor
      /\ st[c].item = Selected
      /\ st[c] \in MenuState
  BY <1>2, <1>3 DEF MenuState
<1>5. [ResetState EXCEPT !.prev = c] \in MenuState
  BY <1>1 DEF ResetState, MenuState
<1>6. st \in [Levels -> MenuState]
  BY <1>2, <1>4, <1>5 DEF EnterSubmenu
<1>7. \A k \in LEVEL_1 .. c - 1 : st[k] = menu_states[k]
  BY <1>1, <1>3 DEF Levels, ListLevels, LEVEL_1, LAST_LEVEL, CALLBACK
<1>8. RowOK(st[c], Len(Tree[ListIn(menu_states, c)]))
  BY <1>1, <1>4, AtList DEF RowOK, MaxOptions, ListAt
<1>9. ListIn(st, c) = ListAt(c) /\ Chain(st, c) /\ Rows(st, c)
  <2>1. c \in LEVEL_1 .. c
    BY <1>1 DEF ListLevels, LEVEL_1, LAST_LEVEL
  <2>2. Chain(menu_states, c) /\ Rows(menu_states, c)
    BY <1>1, AtList
  <2>3. /\ \A k \in LEVEL_1 .. c : ListIn(st, k) = ListIn(menu_states, k)
        /\ Chain(st, c) /\ Rows(st, c)
    BY <1>1, <1>4, <1>7, <1>8, <2>2, SameLists
  <2> QED
    BY <2>1, <2>3 DEF ListAt
<1>10. st[c].item = <<ListIn(st, c), st[c].idx>>
  BY <1>4, <1>9 DEF Selected
<1>11. c + 1 \in ListLevels /\ Chain(st, c + 1) /\ Rows(st, c + 1)
  <2>1. st[c].idx \in Nat
    BY <1>2, <1>4
  <2>2. Target(st[c].item) \in Lists
    BY <1>1, <1>4
  <2> QED
    BY <1>1, <1>3, <1>9, <1>10, <2>1, <2>2, Longer
<1> QED
  BY <1>1, <1>6, <1>11, ShowsList

\* MENU_CONFIRM on a render_callback leaves the lists and their rows as they are.
LEMMA OpenCallbackInv == IInv /\ OpenCallback => IInv'
<1> SUFFICES ASSUME IInv, OpenCallback
             PROVE  IInv'
  OBVIOUS
<1> DEFINE c == current_state
           s == menu_states[c]
           st == menu_states'
<1>1. /\ c \in ListLevels
      /\ Target(Selected) \in Callbacks
      /\ current_state' = CALLBACK
      /\ screen' \in DrawnBy(Selected)
  BY DEF OpenCallback
<1>2. /\ menu_states \in [Levels -> MenuState]
      /\ c \in Levels /\ CALLBACK \in Levels /\ c # CALLBACK
      /\ s \in MenuState
      /\ Selected \in Items
      /\ s.idx \in 0 .. 254
  BY <1>1, AtList DEF IInv, TypeOK, Levels, LEVEL_1, CALLBACK
<1>3. /\ st[c] = [s EXCEPT !.item = Selected]
      /\ st[CALLBACK] = [prev |-> c, item |-> Selected, idx |-> s.idx, cursor |-> 0]
      /\ \A k \in Levels : k # c /\ k # CALLBACK => st[k] = menu_states[k]
  BY <1>2 DEF OpenCallback, Levels, LEVEL_1, CALLBACK
<1>4. /\ st[c].prev = s.prev /\ st[c].idx = s.idx /\ st[c].cursor = s.cursor
      /\ st[c].item = Selected
      /\ st[c] \in MenuState
  BY <1>2, <1>3 DEF MenuState
<1>5. st[CALLBACK] \in MenuState /\ st[CALLBACK].prev = c
  BY <1>1, <1>2, <1>3 DEF MenuState
<1>6. st \in [Levels -> MenuState]
  BY <1>2, <1>3, <1>4, <1>5 DEF OpenCallback
<1>7. \A k \in LEVEL_1 .. c - 1 : st[k] = menu_states[k]
  BY <1>1, <1>3 DEF Levels, ListLevels, LEVEL_1, LAST_LEVEL, CALLBACK
<1>8. RowOK(st[c], Len(Tree[ListIn(menu_states, c)]))
  BY <1>1, <1>4, AtList DEF RowOK, MaxOptions, ListAt
<1>9. ListIn(st, c) = ListAt(c) /\ Chain(st, c) /\ Rows(st, c)
  <2>1. c \in LEVEL_1 .. c
    BY <1>1 DEF ListLevels, LEVEL_1, LAST_LEVEL
  <2>2. Chain(menu_states, c) /\ Rows(menu_states, c)
    BY <1>1, AtList
  <2>3. /\ \A k \in LEVEL_1 .. c : ListIn(st, k) = ListIn(menu_states, k)
        /\ Chain(st, c) /\ Rows(st, c)
    BY <1>1, <1>4, <1>7, <1>8, <2>2, SameLists
  <2> QED
    BY <2>1, <2>3 DEF ListAt
<1>10. Opened(st, CALLBACK)
  BY <1>1, <1>4, <1>5, <1>9 DEF Opened, Selected
<1>11. screen' \in Screens
  <2>1. [kind |-> "item", item |-> Selected] \in Screens /\ screen \in Screens
    BY <1>2 DEF Screens, IInv, TypeOK
  <2> QED
    BY <1>1, <2>1 DEF DrawnBy
<1>12. Top' = c
  BY <1>1, <1>5 DEF Top
<1>13. TypeOK'
  BY <1>1, <1>2, <1>6, <1>11 DEF TypeOK
<1> QED
  BY <1>1, <1>9, <1>10, <1>12, <1>13 DEF IInv, WILD, CALLBACK

\* Facts about a running callback, for the steps that end it.
LEMMA AtCallback ==
    ASSUME IInv, current_state = CALLBACK
    PROVE  /\ Top = menu_states[CALLBACK].prev /\ Top \in ListLevels
           /\ Chain(menu_states, Top) /\ Rows(menu_states, Top)
           /\ menu_states \in [Levels -> MenuState]
           /\ Running \in Items
<1>1. Top = menu_states[CALLBACK].prev /\ current_state # WILD
  BY DEF Top, WILD, CALLBACK
<1>2. /\ Top \in ListLevels
      /\ Chain(menu_states, Top) /\ Rows(menu_states, Top)
      /\ menu_states[Top].item = <<ListIn(menu_states, Top), menu_states[Top].idx>>
      /\ menu_states \in [Levels -> MenuState]
  BY <1>1 DEF IInv, Opened, TypeOK
<1>3. ListIn(menu_states, Top) \in Lists
  BY <1>2 DEF Chain, ListLevels, LEVEL_1, LAST_LEVEL
<1>4. menu_states[Top].idx \in 0 .. 254
  BY <1>2 DEF Levels, ListLevels, LEVEL_1, LAST_LEVEL, CALLBACK, MenuState
<1>5. Running \in Items
  <2>1. Running = <<ListIn(menu_states, Top), menu_states[Top].idx>>
    BY <1>1, <1>2 DEF Running
  <2> QED
    BY <1>3, <1>4, <2>1 DEF Items
<1> QED
  BY <1>1, <1>2, <1>5

\* Moving to a level in use keeps the chain.
LEMMA MoveToInv ==
    ASSUME IInv, current_state # WILD, NEW k \in LEVEL_1 .. Top, MoveTo(k)
    PROVE  IInv'
<1>1. Top \in ListLevels /\ Chain(menu_states, Top) /\ Rows(menu_states, Top)
  BY DEF IInv
<1>2. k \in ListLevels /\ Chain(menu_states, k) /\ Rows(menu_states, k)
  BY <1>1, Shorter
<1>3. current_state' = k /\ menu_states' = menu_states
  BY DEF MoveTo
<1>4. k # WILD
  BY <1>2 DEF ListLevels, LEVEL_1, LAST_LEVEL, WILD
<1>5. screen' = Rendered(menu_states', current_state')
  BY <1>3, <1>4 DEF MoveTo
<1>6. menu_states' \in [Levels -> MenuState]
  BY <1>3 DEF IInv, TypeOK
<1> QED
  BY <1>2, <1>3, <1>5, <1>6, ShowsList

\* MENU_CANCEL goes to the previous level, which is in use.
LEMMA PressCancelInv == IInv /\ PressCancel => IInv'
<1> SUFFICES ASSUME IInv, PressCancel
             PROVE  IInv'
  OBVIOUS
<1>1. current_state \in ListLevels /\ current_state # WILD /\ Top = current_state
  BY AtList DEF PressCancel
<1>2. Chain(menu_states, Top)
  BY <1>1 DEF IInv
<1>3. current_state' \in LEVEL_1 .. Top
  <2>1. CASE current_state = LEVEL_1
    BY <1>1, <2>1 DEF PressCancel, ListLevels, LEVEL_1, LAST_LEVEL
  <2>2. CASE current_state # LEVEL_1
    <3>1. menu_states[current_state].prev = current_state - 1
      BY <1>1, <1>2, <2>2 DEF Chain, ListLevels, LEVEL_1, LAST_LEVEL
    <3> QED
      BY <1>1, <2>2, <3>1 DEF PressCancel, ListLevels, LEVEL_1, LAST_LEVEL
  <2> QED
    BY <2>1, <2>2
<1>4. current_state' # WILD
  BY <1>3, <1>1 DEF ListLevels, LEVEL_1, LAST_LEVEL, WILD
<1>5. MoveTo(current_state')
  BY <1>4 DEF PressCancel, MoveTo
<1> QED
  BY <1>1, <1>3, <1>5, MoveToInv

\* A callback that returned TRUE goes back to the list it was opened from.
LEMMA LeaveCallbackInv == IInv /\ (\E b \in Buttons : LeaveCallback(b)) => IInv'
<1> SUFFICES ASSUME IInv, NEW b \in Buttons, LeaveCallback(b)
             PROVE  IInv'
  OBVIOUS
<1>1. current_state = CALLBACK /\ MoveTo(menu_states[CALLBACK].prev)
  BY DEF LeaveCallback, InCallback
<1>2. menu_states[CALLBACK].prev = Top /\ Top \in ListLevels /\ current_state # WILD
  BY <1>1, AtCallback DEF CALLBACK, WILD
<1>3. Top \in LEVEL_1 .. Top
  BY <1>2 DEF ListLevels, LEVEL_1, LAST_LEVEL
<1> QED
  BY <1>1, <1>2, <1>3, MoveToInv

\* Exit goes to the parent of its list; Home has none, and the pointer may be lost.
LEMMA ExitListInv == IInv /\ ExitList => IInv'
<1> SUFFICES ASSUME IInv, ExitList
             PROVE  IInv'
  OBVIOUS
<1>1. current_state = CALLBACK /\ current_state # WILD
  BY DEF ExitList, InCallback, CALLBACK, WILD
<1>2. Top = menu_states[CALLBACK].prev /\ Top \in ListLevels /\ Chain(menu_states, Top)
  BY <1>1, AtCallback
<1>3. PICK k \in PrevOf(Top) : MoveTo(k)
  BY <1>2 DEF ExitList
<1>4. CASE k = WILD
  <2>1. /\ current_state' = WILD
        /\ menu_states' = menu_states
        /\ screen' \in {screen, Blank}
    BY <1>3, <1>4 DEF MoveTo
  <2> QED
    BY <2>1 DEF IInv, TypeOK, Screens
<1>5. CASE k # WILD
  <2>1. k \in LEVEL_1 .. Top
    <3>1. CASE Top = LEVEL_1
      <4>1. menu_states[Top].prev = NULL
        BY <1>2, <3>1 DEF Chain
      <4> QED
        BY <1>3, <1>5, <3>1, <4>1 DEF PrevOf, LEVEL_1
    <3>2. CASE Top # LEVEL_1
      <4>1. menu_states[Top].prev = Top - 1 /\ Top - 1 \in ListLevels
        BY <1>2, <3>2 DEF Chain, ListLevels, LEVEL_1, LAST_LEVEL
      <4>2. k = Top - 1
        BY <1>3, <4>1, NullAssumption DEF PrevOf
      <4> QED
        BY <1>2, <3>2, <4>2 DEF ListLevels, LEVEL_1, LAST_LEVEL
    <3> QED
      BY <3>1, <3>2
  <2> QED
    BY <1>1, <1>3, <2>1, MoveToInv
<1> QED
  BY <1>4, <1>5

\* menuReset and menuReset_No_RenderMenu leave the first level alone in use.
LEMMA HomeStateInv == IInv /\ (menuReset \/ menuReset_No_RenderMenu) => IInv'
<1> SUFFICES ASSUME IInv, menuReset \/ menuReset_No_RenderMenu
             PROVE  IInv'
  OBVIOUS
<1>1. /\ current_state' = LEVEL_1
      /\ menu_states' = [menu_states EXCEPT ![LEVEL_1] = ResetState]
      /\ screen' = Rendered(menu_states', current_state') \/ screen' = MainDisplay
  BY DEF menuReset, menuReset_No_RenderMenu, Home_State
<1>2. menu_states \in [Levels -> MenuState] /\ ResetState \in MenuState
  BY ResetRow DEF IInv, TypeOK
<1>3. LEVEL_1 \in Levels
  BY DEF Levels, LEVEL_1, CALLBACK
<1>4. menu_states' \in [Levels -> MenuState] /\ menu_states'[LEVEL_1] = ResetState
  BY <1>1, <1>2, <1>3
<1>5. LEVEL_1 \in ListLevels /\ Chain(menu_states', LEVEL_1) /\ Rows(menu_states', LEVEL_1)
  BY <1>4, HomeLevel
<1>6. MainDisplay \in Screens
  BY DEF Screens
<1> QED
  BY <1>1, <1>4, <1>5, <1>6, ShowsList

\* A step that only draws.
LEMMA OnlyDraws ==
    ASSUME IInv, UNCHANGED <<menu_states, current_state>>, screen' \in Screens
    PROVE  IInv'
<1>1. Top' = Top
  BY DEF Top
<1>2. TypeOK'
  BY DEF IInv, TypeOK
<1> QED
  BY <1>1, <1>2 DEF IInv

\* The button presses that only draw, or do nothing.
LEMMA DrawingInv ==
    IInv /\ (ConfirmDead \/ (\E b \in Buttons : StayInCallback(b)) \/ PressWild
               \/ UNCHANGED vars)
      => IInv'
<1> SUFFICES ASSUME IInv
             PROVE  /\ ConfirmDead => IInv'
                    /\ \A b \in Buttons : StayInCallback(b) => IInv'
                    /\ PressWild => IInv'
                    /\ UNCHANGED vars => IInv'
  OBVIOUS
<1>1. screen \in Screens /\ Blank \in Screens
  BY DEF IInv, TypeOK, Screens
<1>2. ASSUME ConfirmDead PROVE IInv'
  <2>1. current_state \in ListLevels /\ UNCHANGED <<menu_states, current_state>>
    BY <1>2 DEF ConfirmDead
  <2>2. Chain(menu_states, current_state) /\ Rows(menu_states, current_state)
    BY <2>1, AtList
  <2>3. screen' = Rendered(menu_states', current_state')
    BY <1>2, <2>1 DEF ConfirmDead
  <2> QED
    BY <2>1, <2>2, <2>3, ShowsList DEF IInv, TypeOK
<1>3. ASSUME NEW b \in Buttons, StayInCallback(b) PROVE IInv'
  <2>1. current_state = CALLBACK /\ UNCHANGED <<menu_states, current_state>>
    BY <1>3 DEF StayInCallback, InCallback
  <2>2. screen' = [kind |-> "item", item |-> Running] /\ Running \in Items
    BY <1>3, <2>1, AtCallback DEF StayInCallback
  <2>3. screen' \in Screens
    BY <2>2 DEF Screens
  <2> QED
    BY <2>1, <2>3, OnlyDraws
<1>4. ASSUME PressWild PROVE IInv'
  BY <1>1, <1>4, OnlyDraws DEF PressWild
<1>5. ASSUME UNCHANGED vars PROVE IInv'
  BY <1>1, <1>5, OnlyDraws DEF vars
<1> QED
  BY <1>2, <1>3, <1>4, <1>5

\* Every step of the menu keeps the invariant: one case per operation.
LEMMA NextInv == IInv /\ [Next]_vars => IInv'
<1> SUFFICES ASSUME IInv, [Next]_vars
             PROVE  IInv'
  OBVIOUS
<1>1. CASE UNCHANGED vars
  BY <1>1, DrawingInv
<1>2. CASE menuReset \/ menuReset_No_RenderMenu
  BY <1>2, HomeStateInv
<1>3. CASE \E b \in Buttons : Press(b)
  <2> PICK b \in Buttons : Press(b)
    BY <1>3
  <2>1. CASE PressUp \/ PressDown
    BY <2>1, ScrollInv
  <2>2. CASE PressConfirm
    BY <2>2, EnterSubmenuInv, OpenCallbackInv, DrawingInv DEF PressConfirm
  <2>3. CASE PressCancel
    BY <2>3, PressCancelInv
  <2>4. CASE LeaveCallback(b)
    BY <2>4, LeaveCallbackInv
  <2>5. CASE StayInCallback(b)
    BY <2>5, DrawingInv
  <2>6. CASE ExitList
    BY <2>6, ExitListInv
  <2>7. CASE IgnoreInExit
    BY <2>7, DrawingInv DEF IgnoreInExit
  <2>8. CASE PressWild
    BY <2>8, DrawingInv
  <2> QED
    BY <2>1, <2>2, <2>3, <2>4, <2>5, <2>6, <2>7, <2>8 DEF Press
<1> QED
  BY <1>1, <1>2, <1>3 DEF Next

-----------------------------------------------------------------------------
\* The menu keeps its levels chained, its selected rows drawn and its records in
\* the range of their C types, whatever tree it is given and whatever is pressed:
\* the pointers scrollMenu and menuPollButtons follow without a check are valid,
\* except after the Exit of the first level (current_state = WILD).
THEOREM Invariance == Spec => []IInv
<1>1. Init => IInv
  BY InitInv
<1>2. IInv /\ [Next]_vars => IInv'
  BY NextInv
<1> QED
  BY <1>1, <1>2, PTL DEF Spec

\* Every record, the pointer and the drawn rows are in range.
THEOREM TypeCorrect == Spec => []TypeOK
<1>1. IInv => TypeOK
  BY DEF IInv
<1> QED
  BY <1>1, Invariance, PTL

\* The chain of prev_state and current_item is intact on every level in use.
THEOREM ChainCorrect == Spec => []ChainOK
<1>1. IInv => ChainOK
  BY Restated
<1> QED
  BY <1>1, Invariance, PTL

\* Every row that renderMenu draws exists in its list.
THEOREM WindowCorrect == Spec => []WindowOK
<1>1. IInv => WindowOK
  BY Restated
<1> QED
  BY <1>1, Invariance, PTL

(*****************************************************************************)
(* The menu engine implements MenuNav: each operation on the five records    *)
(* is one operation on the stack of lists, or none.                          *)
(*****************************************************************************)

\* The rows of the stack are pairs of a list and a row number.
Rungs == Lists \X Nat

\* Two sequences of the same length with the same elements are equal.
LEMMA SameSeq ==
    ASSUME NEW S, NEW a \in Seq(S), NEW b \in Seq(S), Len(a) = Len(b),
           \A i \in 1 .. Len(a) : a[i] = b[i]
    PROVE  a = b
OBVIOUS

\* Going up one row of a ring of max rows is going round it backwards.
LEMMA UpGoesRound ==
    ASSUME NEW max \in 1 .. 255, NEW idx \in 0 .. max - 1
    PROVE  UpIdx(idx, max) = (idx - 1) % max
<1>1. CASE idx = 0
  <2>1. idx - 1 = max * (-1) + (max - 1)
    BY <1>1
  <2> QED
    BY <1>1, <2>1, SMT DEF UpIdx
<1>2. CASE idx # 0
  BY <1>2, SMT DEF UpIdx
<1> QED
  BY <1>1, <1>2

\* Going down likewise.
LEMMA DownGoesRound ==
    ASSUME NEW max \in 1 .. 255, NEW idx \in 0 .. max - 1
    PROVE  DownIdx(idx, max) = (idx + 1) % max
<1>1. CASE idx < max - 1
  BY <1>1, SMT DEF DownIdx
<1>2. CASE idx = max - 1
  <2>1. idx + 1 = max * 1 + 0
    BY <1>2
  <2> QED
    BY <1>2, <2>1, SMT DEF DownIdx
<1> QED
  BY <1>1, <1>2

-----------------------------------------------------------------------------
\* The stack of the levels 0 .. top is a sequence of top + 1 rungs.
LEMMA StackType ==
    ASSUME NEW st, NEW top \in ListLevels, Chain(st, top),
           \A k \in LEVEL_1 .. top : st[k].idx \in Nat
    PROVE  /\ Stack(st, top) \in Seq(Rungs)
           /\ Len(Stack(st, top)) = top + 1
           /\ \A k \in LEVEL_1 .. top : Stack(st, top)[k + 1] = <<ListIn(st, k), st[k].idx>>
<1> USE DEF ListLevels, LEVEL_1, LAST_LEVEL
<1>1. ASSUME NEW k \in 1 .. top + 1 PROVE <<ListIn(st, k - 1), st[k - 1].idx>> \in Rungs
  <2>1. k - 1 \in 0 .. top
    OBVIOUS
  <2> QED
    BY <2>1 DEF Chain, Rungs
<1>2. Stack(st, top) \in [1 .. top + 1 -> Rungs]
  BY <1>1 DEF Stack
<1>3. Stack(st, top) \in Seq(Rungs) /\ Len(Stack(st, top)) = top + 1
  BY <1>2
<1>4. ASSUME NEW k \in 0 .. top PROVE Stack(st, top)[k + 1] = <<ListIn(st, k), st[k].idx>>
  <2>1. k + 1 \in 1 .. top + 1 /\ (k + 1) - 1 = k
    OBVIOUS
  <2> QED
    BY <2>1 DEF Stack
<1> QED
  BY <1>3, <1>4

\* Facts about the stack of a state that satisfies the invariant.
LEMMA AtTop ==
    ASSUME IInv, current_state # WILD
    PROVE  /\ Top \in ListLevels /\ Chain(menu_states, Top) /\ Rows(menu_states, Top)
           /\ menu_states \in [Levels -> MenuState]
           /\ \A k \in LEVEL_1 .. Top : menu_states[k].idx \in Nat
           /\ NavPath = Stack(menu_states, Top)
           /\ NavPath \in Seq(Rungs)
           /\ Len(NavPath) = Top + 1
           /\ Nav!Last = <<ListAt(Top), menu_states[Top].idx>>
           /\ Nav!Chosen = Target(<<ListAt(Top), menu_states[Top].idx>>)
<1> USE DEF ListLevels, LEVEL_1, LAST_LEVEL
<1>1. /\ Top \in ListLevels /\ Chain(menu_states, Top) /\ Rows(menu_states, Top)
      /\ menu_states \in [Levels -> MenuState]
  BY DEF IInv, TypeOK
<1>2. \A k \in LEVEL_1 .. Top : menu_states[k].idx \in Nat
  BY <1>1 DEF Levels, CALLBACK, MenuState
<1>3. NavPath = Stack(menu_states, Top)
  BY DEF NavPath
<1>4. /\ NavPath \in Seq(Rungs) /\ Len(NavPath) = Top + 1
      /\ \A k \in LEVEL_1 .. Top :
           NavPath[k + 1] = <<ListIn(menu_states, k), menu_states[k].idx>>
  BY <1>1, <1>2, <1>3, StackType
<1>5. Nav!Last = <<ListAt(Top), menu_states[Top].idx>>
  <2>1. Top \in LEVEL_1 .. Top
    BY <1>1
  <2> QED
    BY <1>4, <2>1 DEF Nav!Last, ListAt
<1>6. Nav!Chosen = Target(<<ListAt(Top), menu_states[Top].idx>>)
  BY <1>5 DEF Nav!Chosen, Target
<1> QED
  BY <1>1, <1>2, <1>3, <1>4, <1>5, <1>6

\* A step that leaves the rows and the lists of the levels in use alone leaves
\* the stack alone.
LEMMA SameStack ==
    ASSUME NEW st, NEW st2, NEW top \in ListLevels,
           \A k \in LEVEL_1 .. top : ListIn(st2, k) = ListIn(st, k) /\ st2[k].idx = st[k].idx
    PROVE  Stack(st2, top) = Stack(st, top)
<1>1. \A k \in 1 .. top + 1 : k - 1 \in LEVEL_1 .. top
  BY DEF ListLevels, LEVEL_1, LAST_LEVEL
<1> QED
  BY <1>1 DEF Stack

\* Leaving the last list shortens the stack by it.
LEMMA OuterStack ==
    ASSUME NEW st, NEW top \in ListLevels, top # LEVEL_1, Chain(st, top), Rows(st, top),
           \A k \in LEVEL_1 .. top : st[k].idx \in Nat
    PROVE  Stack(st, top - 1) = SubSeq(Stack(st, top), 1, top)
<1> USE DEF ListLevels, LEVEL_1, LAST_LEVEL
<1> DEFINE a == Stack(st, top - 1)
           b == SubSeq(Stack(st, top), 1, top)
<1>1. top - 1 \in ListLevels /\ top - 1 \in LEVEL_1 .. top
  OBVIOUS
<1>2. Chain(st, top - 1)
  BY <1>1, Shorter
<1>3. /\ a \in Seq(Rungs) /\ Len(a) = top
      /\ \A k \in LEVEL_1 .. top - 1 : a[k + 1] = <<ListIn(st, k), st[k].idx>>
  <2>1. \A k \in LEVEL_1 .. top - 1 : st[k].idx \in Nat
    OBVIOUS
  <2>2. /\ a \in Seq(Rungs) /\ Len(a) = (top - 1) + 1
        /\ \A k \in LEVEL_1 .. top - 1 : a[k + 1] = <<ListIn(st, k), st[k].idx>>
    BY <1>1, <1>2, <2>1, StackType
  <2> QED
    BY <2>2
<1>4. /\ Stack(st, top) \in Seq(Rungs) /\ Len(Stack(st, top)) = top + 1
      /\ \A k \in LEVEL_1 .. top : Stack(st, top)[k + 1] = <<ListIn(st, k), st[k].idx>>
  BY StackType
<1>5. /\ b \in Seq(Rungs) /\ Len(b) = top
      /\ \A i \in 1 .. top : b[i] = Stack(st, top)[i]
  <2>1. \A i \in 1 .. top : Stack(st, top)[i] \in Rungs
    BY <1>4
  <2> QED
    BY <2>1, SubSeqProperties
<1>6. ASSUME NEW i \in 1 .. top PROVE a[i] = b[i]
  <2>1. i - 1 \in LEVEL_1 .. top - 1 /\ i - 1 \in LEVEL_1 .. top /\ (i - 1) + 1 = i
    OBVIOUS
  <2> QED
    BY <1>3, <1>4, <1>5, <2>1
<1> HIDE DEF a, b
<1> QED
  BY <1>3, <1>5, <1>6, SameSeq DEF a, b

\* A list that is entered makes the stack longer by its first row.
LEMMA InnerStack ==
    ASSUME NEW st, NEW top \in ListLevels, top + 1 \in ListLevels,
           Chain(st, top), Rows(st, top), Chain(st, top + 1),
           \A k \in LEVEL_1 .. top + 1 : st[k].idx \in Nat
    PROVE  Stack(st, top + 1)
             = Append(Stack(st, top), <<ListIn(st, top + 1), st[top + 1].idx>>)
<1> USE DEF ListLevels, LEVEL_1, LAST_LEVEL
<1> DEFINE new == <<ListIn(st, top + 1), st[top + 1].idx>>
           old == Stack(st, top)
           a == Stack(st, top + 1)
           b == Append(old, new)
<1>1. \A k \in LEVEL_1 .. top : k \in LEVEL_1 .. top + 1
  OBVIOUS
<1>2. /\ old \in Seq(Rungs) /\ Len(old) = top + 1
      /\ \A k \in LEVEL_1 .. top : old[k + 1] = <<ListIn(st, k), st[k].idx>>
  BY <1>1, StackType
<1>3. /\ a \in Seq(Rungs) /\ Len(a) = top + 2
      /\ \A k \in LEVEL_1 .. top + 1 : a[k + 1] = <<ListIn(st, k), st[k].idx>>
  <2>1. /\ a \in Seq(Rungs) /\ Len(a) = (top + 1) + 1
        /\ \A k \in LEVEL_1 .. top + 1 : a[k + 1] = <<ListIn(st, k), st[k].idx>>
    BY StackType
  <2> QED
    BY <2>1
<1>4. new \in Rungs
  <2>1. top + 1 \in LEVEL_1 .. top + 1
    OBVIOUS
  <2> QED
    BY <2>1 DEF Chain, Rungs
<1> HIDE DEF old, a, new
<1>5. /\ b \in Seq(Rungs) /\ Len(b) = top + 2
      /\ \A i \in 1 .. top + 1 : b[i] = old[i]
      /\ b[top + 2] = new
  <2>1. /\ b \in Seq(Rungs) /\ Len(b) = Len(old) + 1
        /\ \A i \in 1 .. Len(old) : b[i] = old[i]
        /\ b[Len(old) + 1] = new
    BY <1>2, <1>4, AppendProperties
  <2>2. Len(old) + 1 = top + 2
    BY <1>2
  <2> QED
    BY <1>2, <2>1, <2>2
<1>6. ASSUME NEW i \in 1 .. top + 2 PROVE a[i] = b[i]
  <2>1. CASE i = top + 2
    <3>1. top + 1 \in LEVEL_1 .. top + 1 /\ (top + 1) + 1 = i
      BY <2>1
    <3>2. a[(top + 1) + 1] = new
      BY <1>3, <3>1 DEF new
    <3>3. b[i] = new
      BY <1>5, <2>1
    <3> QED
      BY <3>1, <3>2, <3>3
  <2>2. CASE i # top + 2
    <3>1. i - 1 \in LEVEL_1 .. top /\ i - 1 \in LEVEL_1 .. top + 1 /\ (i - 1) + 1 = i
      BY <2>2
    <3>2. a[(i - 1) + 1] = old[(i - 1) + 1]
      BY <1>2, <1>3, <3>1
    <3>3. i \in 1 .. top + 1
      BY <2>2
    <3> QED
      BY <1>5, <3>1, <3>2, <3>3
  <2> QED
    BY <2>1, <2>2
<1> HIDE DEF b
<1>7. a = b
  BY <1>3, <1>5, <1>6, SameSeq
<1> QED
  BY <1>7 DEF a, b, new, old

-----------------------------------------------------------------------------
\* MENU_UP and MENU_DOWN turn the ring of the innermost list by one row.
LEMMA ScrollMoves ==
    ASSUME IInv, PressUp \/ PressDown
    PROVE  Nav!Move(1) \/ Nav!Move(-1)
<1> USE DEF ListLevels, LEVEL_1, LAST_LEVEL
<1> DEFINE c == current_state
           s == menu_states[c]
           st == menu_states'
           max == MaxOptions(c)
<1>1. /\ c \in ListLevels
      /\ c' = c
      /\ \/ st = [menu_states EXCEPT ![c] = MovedUp(s, max)]
         \/ st = [menu_states EXCEPT ![c] = MovedDown(s, max)]
  BY DEF PressUp, PressDown, Scroll
<1>2. /\ c # WILD /\ c # CALLBACK /\ Top = c /\ c \in Levels
      /\ s \in MenuState /\ RowOK(s, max) /\ max \in 1 .. 255
      /\ menu_states \in [Levels -> MenuState]
  BY <1>1, AtList DEF IInv, TypeOK
<1>3. Top' = c /\ c' # WILD /\ c' # CALLBACK
  BY <1>1, <1>2 DEF Top
<1>4. NavMode = "browsing" /\ NavMode' = "browsing"
  BY <1>2, <1>3 DEF NavMode
<1>5. s.idx \in 0 .. max - 1
  <2>1. s.idx \in 0 .. 254 /\ s.idx < max
    BY <1>2 DEF RowOK, RowAt, MenuState
  <2>2. max \in 1 .. 255
    BY <1>2
  <2>3. \A i \in 0 .. 254, m \in 1 .. 255 : i < m => i \in 0 .. m - 1
    OBVIOUS
  <2> QED
    BY <2>1, <2>2, <2>3
<1>6. PICK by \in {1, -1} :
        /\ st[c].idx = (s.idx + by) % max
        /\ st[c].prev = s.prev
        /\ \A k \in Levels : k # c => st[k] = menu_states[k]
  <2>1. ASSUME st = [menu_states EXCEPT ![c] = MovedUp(s, max)]
        PROVE  /\ st[c].idx = (s.idx - 1) % max
               /\ st[c].prev = s.prev
               /\ \A k \in Levels : k # c => st[k] = menu_states[k]
    <3>1. st[c] = MovedUp(s, max) /\ \A k \in Levels : k # c => st[k] = menu_states[k]
      BY <1>2, <2>1
    <3>2. MovedUp(s, max).idx = UpIdx(s.idx, max) /\ MovedUp(s, max).prev = s.prev
      BY <1>2 DEF MovedUp, MenuState, UpIdx
    <3> QED
      BY <1>2, <1>5, <3>1, <3>2, UpGoesRound
  <2>2. ASSUME st = [menu_states EXCEPT ![c] = MovedDown(s, max)]
        PROVE  /\ st[c].idx = (s.idx + 1) % max
               /\ st[c].prev = s.prev
               /\ \A k \in Levels : k # c => st[k] = menu_states[k]
    <3>1. st[c] = MovedDown(s, max) /\ \A k \in Levels : k # c => st[k] = menu_states[k]
      BY <1>2, <2>2
    <3>2. MovedDown(s, max).idx = DownIdx(s.idx, max) /\ MovedDown(s, max).prev = s.prev
      BY <1>2 DEF MovedDown, MenuState, DownIdx
    <3> QED
      BY <1>2, <1>5, <3>1, <3>2, DownGoesRound
  <2>3. s.idx - 1 = s.idx + (-1)
    BY <1>5
  <2> QED
    BY <1>1, <2>1, <2>2, <2>3
<1>7. ASSUME NEW k \in LEVEL_1 .. c PROVE ListIn(st, k) = ListIn(menu_states, k)
  <2>1. st[k].prev = menu_states[k].prev
    BY <1>1, <1>6 DEF Levels, CALLBACK
  <2>2. k # LEVEL_1 => menu_states[k].prev = k - 1 /\ k - 1 \in Levels /\ k - 1 # c
    BY <1>1, <1>2, AtTop DEF Chain, Levels, CALLBACK
  <2>3. k # LEVEL_1 => st[k - 1] = menu_states[k - 1]
    BY <1>6, <2>2
  <2> QED
    BY <2>1, <2>2, <2>3 DEF ListIn
<1>8. NavPath' = Stack(st, c)
  BY <1>1, <1>3 DEF NavPath
<1>9. /\ NavPath = Stack(menu_states, c) /\ Len(NavPath) = c + 1
      /\ NavPath[c + 1] = <<ListAt(c), s.idx>>
  BY <1>2, AtTop DEF Nav!Last
<1>10. Stack(st, c) = [Stack(menu_states, c) EXCEPT
                         ![c + 1] = <<ListAt(c), (s.idx + by) % max>>]
  <2>1. ASSUME NEW k \in 1 .. c + 1
        PROVE  <<ListIn(st, k - 1), st[k - 1].idx>>
                 = IF k = c + 1 THEN <<ListAt(c), (s.idx + by) % max>>
                   ELSE <<ListIn(menu_states, k - 1), menu_states[k - 1].idx>>
    <3>1. k - 1 \in LEVEL_1 .. c /\ k - 1 \in Levels
      BY <1>1 DEF Levels, CALLBACK
    <3>2. CASE k = c + 1
      <4>1. k - 1 = c
        BY <1>1, <3>2
      <4> QED
        BY <1>6, <1>7, <3>1, <3>2, <4>1 DEF ListAt
    <3>3. CASE k # c + 1
      <4>1. k - 1 # c
        BY <1>1, <3>3
      <4> QED
        BY <1>6, <1>7, <3>1, <3>3, <4>1
    <3> QED
      BY <3>2, <3>3
  <2> QED
    BY <2>1 DEF Stack
<1>11. Nav!Move(by)
  <2> DEFINE new == <<ListAt(c), (s.idx + by) % max>>
             here == NavPath[c + 1]
  <2>1. Len(Tree[ListAt(c)]) = max
    BY DEF MaxOptions
  <2>2. <<here[1], (here[2] + by) % Len(Tree[here[1]])>> = new
    BY <1>9, <2>1
  <2>3. NavPath' = [NavPath EXCEPT ![Len(NavPath)] = new]
    BY <1>8, <1>9, <1>10
  <2>4. NavPath' = [NavPath EXCEPT ![Len(NavPath)]
                      = <<@[1], (@[2] + by) % Len(Tree[@[1]])>>]
    BY <1>9, <2>2, <2>3
  <2> QED
    BY <1>4, <2>4 DEF Nav!Move
<1> QED
  BY <1>11

\* A confirmed submenu becomes the innermost list, at its first row.
LEMMA EnterSubmenuEnters ==
    ASSUME IInv, EnterSubmenu
    PROVE  Nav!Enter
<1> USE DEF ListLevels, LEVEL_1, LAST_LEVEL
<1> DEFINE c == current_state
           s == menu_states[c]
           st == menu_states'
           sub == Target(Selected)
<1>1. /\ c \in ListLevels /\ sub \in Lists /\ c' = c + 1
      /\ c \in Levels /\ c + 1 \in Levels
      /\ c # WILD /\ c # CALLBACK /\ Top = c
  BY AtList DEF EnterSubmenu, Levels, CALLBACK
<1>2. /\ menu_states \in [Levels -> MenuState] /\ s \in MenuState
      /\ NavPath = Stack(menu_states, c) /\ Nav!Chosen = sub
      /\ Chain(menu_states, c) /\ Rows(menu_states, c)
  BY <1>1, AtTop, AtList DEF Selected
<1>3. /\ st[c] = [s EXCEPT !.item = Selected]
      /\ st[c + 1] = [ResetState EXCEPT !.prev = c]
      /\ \A k \in Levels : k # c /\ k # c + 1 => st[k] = menu_states[k]
  BY <1>1, <1>2 DEF EnterSubmenu
<1>4. IInv'
  BY EnterSubmenuInv
<1>5. c + 1 \in ListLevels
  <2>1. /\ ListAt(c) \in Lists /\ Depth[ListAt(c)] = c
        /\ s.idx \in Nat /\ s.idx < Len(Tree[ListAt(c)])
    <3>1. ListAt(c) \in Lists /\ RowOK(s, MaxOptions(c)) /\ s.idx \in 0 .. 254
      BY <1>1, AtList
    <3>2. s.idx < Len(Tree[ListAt(c)])
      BY <3>1 DEF MaxOptions, RowOK, RowAt
    <3>3. c \in LEVEL_1 .. c
      BY <1>1
    <3>4. Depth[ListAt(c)] = c
      BY <1>2, <3>3 DEF Chain, ListAt
    <3>5. \A i \in 0 .. 254 : i \in Nat
      OBVIOUS
    <3>6. s.idx \in Nat
      BY <3>1, <3>5
    <3> HIDE DEF c, s
    <3> QED
      BY <3>1, <3>2, <3>4, <3>6
  <2>2. Depth[sub] = c + 1
    BY <1>1, <2>1, RowTarget DEF Selected
  <2> QED
    BY <1>1, <2>2, DepthInRange
<1>6. /\ c' # WILD /\ c' # CALLBACK /\ Top' = c + 1
  BY <1>1, <1>5 DEF Top, CALLBACK, WILD
<1>7. /\ Chain(st, c + 1) /\ Rows(st, c + 1)
      /\ st \in [Levels -> MenuState]
  BY <1>4, <1>6 DEF IInv, TypeOK
<1>8. Chain(st, c) /\ Rows(st, c)
  BY <1>5, <1>7, <1>1, Shorter
<1>9. \A k \in LEVEL_1 .. c + 1 : st[k].idx \in Nat
  BY <1>5, <1>7 DEF Levels, CALLBACK, MenuState
<1>10. ASSUME NEW k \in LEVEL_1 .. c
       PROVE  ListIn(st, k) = ListIn(menu_states, k) /\ st[k].idx = menu_states[k].idx
  <2>1. st[c].idx = s.idx /\ st[c].prev = s.prev /\ st[c].item = Selected
    BY <1>2, <1>3 DEF MenuState
  <2>2. st[k].prev = menu_states[k].prev /\ st[k].idx = menu_states[k].idx
    <3>1. CASE k = c
      BY <2>1, <3>1
    <3>2. CASE k # c
      BY <1>1, <1>3, <3>2 DEF Levels, CALLBACK
    <3> QED
      BY <3>1, <3>2
  <2>3. k # LEVEL_1 => /\ menu_states[k].prev = k - 1
                       /\ k - 1 \in Levels /\ k - 1 # c /\ k - 1 # c + 1
    BY <1>1, <1>2 DEF Chain, Levels, CALLBACK
  <2>4. k # LEVEL_1 => st[k - 1] = menu_states[k - 1]
    BY <1>3, <2>3
  <2> QED
    BY <2>2, <2>3, <2>4 DEF ListIn
<1>11. Stack(st, c) = NavPath
  BY <1>1, <1>2, <1>10, SameStack
<1>12. <<ListIn(st, c + 1), st[c + 1].idx>> = <<sub, 0>>
  <2>1. st[c + 1].prev = c /\ st[c + 1].idx = 0
    BY <1>3 DEF ResetState
  <2>2. st[c].item = Selected
    BY <1>2, <1>3 DEF MenuState
  <2> QED
    BY <1>1, <2>1, <2>2 DEF ListIn
<1>13. NavPath' = Append(NavPath, <<sub, 0>>)
  <2>1. NavPath' = Stack(st, c + 1)
    BY <1>1, <1>6 DEF NavPath
  <2> QED
    BY <1>1, <1>5, <1>7, <1>8, <1>9, <1>11, <1>12, <2>1, InnerStack
<1>14. NavMode = "browsing" /\ NavMode' = "browsing"
  BY <1>1, <1>6 DEF NavMode
<1> QED
  BY <1>1, <1>2, <1>13, <1>14 DEF Nav!Enter

\* A confirmed callback sets the selected row to work.
LEMMA OpenCallbackOpens ==
    ASSUME IInv, OpenCallback
    PROVE  Nav!Open
<1> USE DEF ListLevels, LEVEL_1, LAST_LEVEL
<1> DEFINE c == current_state
           s == menu_states[c]
           st == menu_states'
<1>1. /\ c \in ListLevels /\ Target(Selected) \in Callbacks /\ c' = CALLBACK
      /\ c \in Levels /\ CALLBACK \in Levels
      /\ c # WILD /\ c # CALLBACK /\ Top = c
  BY AtList DEF OpenCallback, Levels, CALLBACK
<1>2. /\ menu_states \in [Levels -> MenuState] /\ s \in MenuState
      /\ NavPath = Stack(menu_states, c) /\ Nav!Chosen = Target(Selected)
      /\ Chain(menu_states, c)
  BY <1>1, AtTop DEF Selected
<1>3. /\ st[c] = [s EXCEPT !.item = Selected]
      /\ st[CALLBACK] = [prev |-> c, item |-> Selected, idx |-> s.idx, cursor |-> 0]
      /\ \A k \in Levels : k # c /\ k # CALLBACK => st[k] = menu_states[k]
  BY <1>1, <1>2 DEF OpenCallback
<1>4. Top' = c /\ c' # WILD
  BY <1>1, <1>3 DEF Top, CALLBACK, WILD
<1>5. ASSUME NEW k \in LEVEL_1 .. c
      PROVE  ListIn(st, k) = ListIn(menu_states, k) /\ st[k].idx = menu_states[k].idx
  <2>1. st[c].idx = s.idx /\ st[c].prev = s.prev
    BY <1>2, <1>3 DEF MenuState
  <2>2. st[k].prev = menu_states[k].prev /\ st[k].idx = menu_states[k].idx
    <3>1. CASE k = c
      BY <2>1, <3>1
    <3>2. CASE k # c
      BY <1>1, <1>3, <3>2 DEF Levels, CALLBACK
    <3> QED
      BY <3>1, <3>2
  <2>3. k # LEVEL_1 => /\ menu_states[k].prev = k - 1
                       /\ k - 1 \in Levels /\ k - 1 # c /\ k - 1 # CALLBACK
    BY <1>1, <1>2 DEF Chain, Levels, CALLBACK
  <2>4. k # LEVEL_1 => st[k - 1] = menu_states[k - 1]
    BY <1>3, <2>3
  <2> QED
    BY <2>2, <2>3, <2>4 DEF ListIn
<1>6. NavPath' = NavPath
  <2>1. NavPath' = Stack(st, c)
    BY <1>4 DEF NavPath
  <2> QED
    BY <1>1, <1>2, <1>5, <2>1, SameStack
<1>7. NavMode = "browsing" /\ NavMode' = "open"
  BY <1>1, <1>4 DEF NavMode
<1> QED
  BY <1>1, <1>2, <1>6, <1>7 DEF Nav!Open

\* Moving to the list at the top of the stack leaves the stack alone, moving to
\* the one below it takes the innermost list away.
LEMMA MoveToPath ==
    ASSUME IInv, current_state # WILD, NEW k \in LEVEL_1 .. Top, MoveTo(k)
    PROVE  /\ NavMode' = "browsing"
           /\ k = Top => NavPath' = NavPath
           /\ k = Top - 1 => Len(NavPath) > 1 /\ NavPath' = Nav!Outer
<1> USE DEF ListLevels, LEVEL_1, LAST_LEVEL
<1>1. /\ Top \in ListLevels /\ Chain(menu_states, Top) /\ Rows(menu_states, Top)
      /\ \A j \in LEVEL_1 .. Top : menu_states[j].idx \in Nat
      /\ NavPath = Stack(menu_states, Top) /\ Len(NavPath) = Top + 1
  BY AtTop
<1>2. current_state' = k /\ menu_states' = menu_states /\ k \in ListLevels
  BY <1>1 DEF MoveTo
<1>3. current_state' # WILD /\ current_state' # CALLBACK /\ Top' = k
  BY <1>2 DEF Top, CALLBACK, WILD
<1>4. NavMode' = "browsing"
  BY <1>3 DEF NavMode
<1>5. NavPath' = Stack(menu_states, k)
  BY <1>2, <1>3 DEF NavPath
<1>6. ASSUME k = Top - 1 PROVE Len(NavPath) > 1 /\ NavPath' = Nav!Outer
  <2>1. Top # LEVEL_1 /\ Len(NavPath) - 1 = Top /\ Len(NavPath) > 1
    BY <1>1, <1>6
  <2>2. Stack(menu_states, Top - 1) = SubSeq(Stack(menu_states, Top), 1, Top)
    BY <1>1, <2>1, OuterStack
  <2> QED
    BY <1>1, <1>5, <1>6, <2>1, <2>2 DEF Nav!Outer
<1> QED
  BY <1>1, <1>4, <1>5, <1>6

\* MENU_CANCEL goes back to the outer list; in Home it changes nothing.
LEMMA PressCancelGoesBack ==
    ASSUME IInv, PressCancel
    PROVE  Nav!Back \/ UNCHANGED <<NavPath, NavMode>>
<1> USE DEF ListLevels, LEVEL_1, LAST_LEVEL
<1>1. /\ current_state \in ListLevels /\ Top = current_state
      /\ current_state # WILD /\ current_state # CALLBACK
      /\ Chain(menu_states, current_state)
  BY AtList DEF PressCancel
<1>2. NavMode = "browsing"
  BY <1>1 DEF NavMode
<1>3. CASE current_state = LEVEL_1
  <2>1. current_state \in LEVEL_1 .. Top /\ MoveTo(current_state)
    BY <1>1, <1>3 DEF PressCancel, MoveTo, WILD
  <2> QED
    BY <1>1, <1>2, <2>1, MoveToPath
<1>4. CASE current_state # LEVEL_1
  <2>1. menu_states[current_state].prev = current_state - 1
    BY <1>1, <1>4 DEF Chain
  <2>2. current_state - 1 \in LEVEL_1 .. Top /\ MoveTo(current_state - 1)
    BY <1>1, <1>4, <2>1 DEF PressCancel, MoveTo, WILD
  <2>3. NavMode' = "browsing" /\ Len(NavPath) > 1 /\ NavPath' = Nav!Outer
    BY <1>1, <2>2, MoveToPath
  <2> QED
    BY <1>2, <2>3 DEF Nav!Back
<1> QED
  BY <1>3, <1>4

\* While a callback runs, the chosen row is the running one.
LEMMA AtWork ==
    ASSUME IInv, current_state = CALLBACK
    PROVE  /\ current_state # WILD /\ NavMode = "open"
           /\ Top = menu_states[CALLBACK].prev
           /\ Nav!Chosen = Target(Running)
<1>1. current_state # WILD /\ NavMode = "open" /\ Top = menu_states[CALLBACK].prev
  BY DEF NavMode, CALLBACK, WILD, Top
<1>2. menu_states[Top].item = <<ListIn(menu_states, Top), menu_states[Top].idx>>
  BY <1>1 DEF IInv, Opened
<1>3. Nav!Chosen = Target(<<ListAt(Top), menu_states[Top].idx>>)
  BY <1>1, AtTop
<1> QED
  BY <1>1, <1>2, <1>3 DEF ListAt, Running

\* A callback that returned TRUE closes its row.
LEMMA LeaveCallbackCloses ==
    ASSUME IInv, NEW b \in Buttons, LeaveCallback(b)
    PROVE  Nav!Close
<1>1. /\ current_state = CALLBACK /\ MoveTo(menu_states[CALLBACK].prev)
      /\ Target(Running) \in {"Select", "Edit"}
  BY DEF LeaveCallback, InCallback
<1>2. /\ current_state # WILD /\ NavMode = "open"
      /\ Top = menu_states[CALLBACK].prev /\ Nav!Chosen = Target(Running)
  BY <1>1, AtWork
<1>3. Top \in LEVEL_1 .. Top
  BY <1>2, AtTop DEF ListLevels, LEVEL_1, LAST_LEVEL
<1>4. NavMode' = "browsing" /\ NavPath' = NavPath
  BY <1>1, <1>2, <1>3, MoveToPath
<1>5. Nav!Chosen \notin {Exit, Exit2Main}
  BY <1>1, <1>2 DEF Exit, Exit2Main
<1> QED
  BY <1>2, <1>4, <1>5 DEF Nav!Close

\* An Exit goes back to the outer list, and from Home nobody knows where.
LEMMA ExitListLeaves ==
    ASSUME IInv, ExitList
    PROVE  Nav!Back \/ Nav!LeaveHome
<1> USE DEF ListLevels, LEVEL_1, LAST_LEVEL
<1>1. current_state = CALLBACK /\ Target(Running) \in {Exit, Exit2Main}
  BY DEF ExitList, InCallback
<1>2. /\ current_state # WILD /\ NavMode = "open"
      /\ Top = menu_states[CALLBACK].prev /\ Nav!Chosen \in {Exit, Exit2Main}
  BY <1>1, AtWork
<1>3. Top \in ListLevels /\ Chain(menu_states, Top) /\ Len(NavPath) = Top + 1
  BY <1>2, AtTop
<1>4. PICK k \in PrevOf(Top) : MoveTo(k)
  BY <1>2 DEF ExitList
<1>5. CASE Top = LEVEL_1
  <2>1. k \in {LEVEL_1, WILD} /\ Len(NavPath) = 1
    BY <1>3, <1>4, <1>5 DEF PrevOf, Chain
  <2>2. CASE k = WILD
    <3>1. NavPath' = <<>> /\ NavMode' = "lost"
      BY <1>4, <2>2 DEF MoveTo, NavPath, NavMode, CALLBACK, WILD
    <3> QED
      BY <1>2, <2>1, <3>1 DEF Nav!LeaveHome
  <2>3. CASE k = LEVEL_1
    <3>1. NavPath' = NavPath /\ NavMode' = "browsing"
      BY <1>2, <1>3, <1>4, <1>5, <2>3, MoveToPath
    <3> QED
      BY <1>2, <2>1, <3>1 DEF Nav!LeaveHome
  <2> QED
    BY <2>1, <2>2, <2>3
<1>6. CASE Top # LEVEL_1
  <2>1. menu_states[Top].prev = Top - 1 /\ Top - 1 \in ListLevels
    BY <1>3, <1>6 DEF Chain
  <2>2. k = Top - 1
    BY <1>4, <2>1, NullAssumption DEF PrevOf
  <2>3. k \in LEVEL_1 .. Top
    BY <1>3, <1>6, <2>2
  <2>4. NavMode' = "browsing" /\ Len(NavPath) > 1 /\ NavPath' = Nav!Outer
    BY <1>2, <1>4, <2>2, <2>3, MoveToPath
  <2> QED
    BY <1>2, <2>4 DEF Nav!Back
<1> QED
  BY <1>5, <1>6

\* Both resets lead to the first row of Home, wherever the menu was.
LEMMA ResetRestarts ==
    ASSUME IInv, menuReset \/ menuReset_No_RenderMenu
    PROVE  Nav!Restart
<1>1. /\ current_state' = LEVEL_1
      /\ menu_states' = [menu_states EXCEPT ![LEVEL_1] = ResetState]
      /\ menu_states \in [Levels -> MenuState]
  BY DEF menuReset, menuReset_No_RenderMenu, Home_State, IInv, TypeOK
<1>2. menu_states'[LEVEL_1].idx = 0
  BY <1>1 DEF Levels, LEVEL_1, CALLBACK, ResetState
<1>3. NavMode' = "browsing" /\ NavPath' = Stack(menu_states', LEVEL_1)
  BY <1>1 DEF NavMode, NavPath, Top, LEVEL_1, CALLBACK, WILD
<1>4. Stack(menu_states', LEVEL_1) = <<<<Home, 0>>>>
  BY <1>2 DEF Stack, ListIn, LEVEL_1
<1> QED
  BY <1>3, <1>4 DEF Nav!Restart

\* A step that moves neither the pointer nor a row does not show in the stack.
LEMMA NothingMoves ==
    ASSUME UNCHANGED <<menu_states, current_state>>
    PROVE  UNCHANGED <<NavPath, NavMode>>
BY DEF NavPath, NavMode, Top, Stack, ListIn

\* The menu engine of menu.c is the stack of lists of MenuNav: every key press is
\* one move on that stack or none (NavSpec).
THEOREM ImplementsNav == Spec => NavSpec
<1>1. Init => Nav!Init
  <2> SUFFICES ASSUME Init PROVE Nav!Init
    OBVIOUS
  <2>1. menu_states[LEVEL_1].idx = 0 /\ current_state = LEVEL_1
    BY DEF Init, Levels, LEVEL_1, CALLBACK, ResetState
  <2>2. NavMode = "browsing" /\ NavPath = Stack(menu_states, LEVEL_1)
    BY <2>1 DEF NavMode, NavPath, Top, LEVEL_1, CALLBACK, WILD
  <2>3. Stack(menu_states, LEVEL_1) = <<<<Home, 0>>>>
    BY <2>1 DEF Stack, ListIn, LEVEL_1
  <2> QED
    BY <2>2, <2>3 DEF Nav!Init
<1>2. IInv /\ [Next]_vars => [Nav!Next]_(Nav!vars)
  <2> SUFFICES ASSUME IInv, [Next]_vars PROVE Nav!Next \/ UNCHANGED <<NavPath, NavMode>>
    BY DEF Nav!vars
  <2>1. CASE UNCHANGED vars
    BY <2>1, NothingMoves DEF vars
  <2>2. CASE menuReset \/ menuReset_No_RenderMenu
    BY <2>2, ResetRestarts DEF Nav!Next
  <2>3. CASE \E b \in Buttons : Press(b)
    <3> PICK b \in Buttons : Press(b)
      BY <2>3
    <3>1. CASE PressUp \/ PressDown
      BY <3>1, ScrollMoves DEF Nav!Next
    <3>2. CASE EnterSubmenu
      BY <3>2, EnterSubmenuEnters DEF Nav!Next
    <3>3. CASE OpenCallback
      BY <3>3, OpenCallbackOpens DEF Nav!Next
    <3>4. CASE ConfirmDead \/ StayInCallback(b) \/ IgnoreInExit \/ PressWild
      BY <3>4, NothingMoves DEF ConfirmDead, StayInCallback, IgnoreInExit, PressWild, vars
    <3>5. CASE PressCancel
      BY <3>5, PressCancelGoesBack DEF Nav!Next
    <3>6. CASE LeaveCallback(b)
      BY <3>6, LeaveCallbackCloses DEF Nav!Next
    <3>7. CASE ExitList
      BY <3>7, ExitListLeaves DEF Nav!Next
    <3> QED
      BY <3>1, <3>2, <3>3, <3>4, <3>5, <3>6, <3>7 DEF Press, PressConfirm
  <2> QED
    BY <2>1, <2>2, <2>3 DEF Next
<1> QED
  BY <1>1, <1>2, Invariance, PTL DEF Spec, NavSpec, Nav!Spec

(*****************************************************************************)
(* The number editors.                                                       *)
(*****************************************************************************)

-----------------------------------------------------------------------------
\* A key was pressed on the page now open: an edit is under way there, and the
\* number drawn is the one being edited.
KeyedOK ==
    keyed => \E f \in Fields : Editing(f) /\ ~once[f[1]] /\ shown = temp[f[1]]

\* An edit that was not abandoned is under way on the page now open only.
PageOK ==
    \A p \in Pages :
      ~once[p] /\ ~abandoned[p] => keyed /\ \E f \in Fields : Editing(f) /\ f[1] = p

EditInv == EditTypeOK /\ KeyedOK /\ PageOK

LEMMA FieldPage == \A f \in Fields : f[1] \in Pages
BY DEF Pages

\* Only one row is open.
LEMMA OneOpen ==
    ASSUME NEW f, NEW g, Editing(f), Editing(g)
    PROVE  f = g
BY DEF Editing

\* UP and DOWN do not leave an editor page.
LEMMA StaysOpen ==
    ASSUME NEW f \in Fields, Editing(f), NEW b \in {"UP", "DOWN"}, Press(b)
    PROVE  Editing(f)'
<1>1. current_state = CALLBACK /\ Running = f /\ Target(Running) = "Edit"
  BY FieldsAssumption DEF Editing
<1>2. UNCHANGED <<menu_states, current_state>>
  BY <1>1 DEF Press, PressUp, PressDown, Scroll, LeaveCallback, StayInCallback, ExitList,
     IgnoreInExit, vars, PressWild, InCallback, Exit, Exit2Main, ListLevels, LEVEL_1, LAST_LEVEL, CALLBACK, WILD
<1> QED
  BY <1>1, <1>2 DEF Editing, Running

LEMMA EditStarts == EditInit => EditInv
<1> SUFFICES ASSUME EditInit
             PROVE  EditInv
  OBVIOUS
<1>1. 0 \in Values
  BY RangeAssumption DEF Values
<1>2. stored \in [Fields -> Values] /\ temp \in [Pages -> Values] /\ shown \in Values
  BY <1>1 DEF EditInit
<1>3. once \in [Pages -> BOOLEAN] /\ abandoned \in [Pages -> BOOLEAN] /\ keyed \in BOOLEAN
  BY DEF EditInit
<1>4. KeyedOK /\ PageOK
  BY DEF EditInit, KeyedOK, PageOK
<1> QED
  BY <1>2, <1>3, <1>4 DEF EditInv, EditTypeOK

\* The number the page works on is one of the field's.
LEMMA TakenType ==
    ASSUME EditTypeOK, NEW f \in Fields
    PROVE  Taken(f) \in Values
BY FieldPage DEF EditTypeOK, Taken

\* UP or DOWN starts an edit, or goes on with it.
LEMMA StepKeeps ==
    ASSUME EditInv, NEW f \in Fields, Editing(f), Editing(f)', NEW by \in {1, -1}, Step(f, by)
    PROVE  EditInv'
<1> DEFINE p == f[1]
           n == (Taken(f) + by) % RANGE
<1>1. p \in Pages
  BY FieldPage
<1>2. n \in Values
  <2>1. Taken(f) \in Int /\ RANGE \in Nat \ {0}
    BY TakenType, RangeAssumption DEF EditInv, Values
  <2>2. \A x \in Int : x % RANGE \in 0 .. RANGE - 1
    BY <2>1
  <2>3. Taken(f) + by \in Int
    BY <2>1
  <2> QED
    BY <2>2, <2>3 DEF Values
<1>3. /\ once \in [Pages -> BOOLEAN] /\ abandoned \in [Pages -> BOOLEAN]
      /\ temp \in [Pages -> Values] /\ stored \in [Fields -> Values]
  BY DEF EditInv, EditTypeOK
<1>4. /\ once' = [once EXCEPT ![p] = FALSE] /\ abandoned' = [abandoned EXCEPT ![p] = FALSE]
      /\ temp' = [temp EXCEPT ![p] = n] /\ shown' = temp'[p] /\ keyed' = TRUE
      /\ stored' = stored
  BY DEF Step
<1> HIDE DEF n
<1>5. once'[p] = FALSE /\ temp'[p] = n
  BY <1>1, <1>3, <1>4
<1>6. EditTypeOK'
  <2>1. temp' \in [Pages -> Values] /\ shown' \in Values /\ stored' \in [Fields -> Values]
    BY <1>2, <1>3, <1>4, <1>5
  <2>2. once' \in [Pages -> BOOLEAN] /\ abandoned' \in [Pages -> BOOLEAN] /\ keyed' \in BOOLEAN
    BY <1>3, <1>4
  <2> QED
    BY <2>1, <2>2 DEF EditTypeOK
<1>7. KeyedOK'
  BY <1>4, <1>5 DEF KeyedOK
<1>8. PageOK'
  <2> SUFFICES ASSUME NEW q \in Pages, ~once'[q], ~abandoned'[q], q # p
               PROVE  FALSE
    BY <1>4 DEF PageOK
  <2>1. once'[q] = once[q] /\ abandoned'[q] = abandoned[q]
    BY <1>3, <1>4
  <2>2. PICK g \in Fields : Editing(g) /\ g[1] = q
    BY <2>1 DEF EditInv, PageOK
  <2> QED
    BY <2>2, OneOpen
<1> QED
  BY <1>6, <1>7, <1>8 DEF EditInv

\* CONFIRM ends the edit of the page, MENU_CANCEL leaves it in the middle.
LEMMA EndKeeps ==
    ASSUME EditInv, NEW f \in Fields, Editing(f), Confirm(f) \/ Cancel(f)
    PROVE  EditInv'
<1> DEFINE p == f[1]
<1>1. p \in Pages
  BY FieldPage
<1>2. /\ once \in [Pages -> BOOLEAN] /\ abandoned \in [Pages -> BOOLEAN]
      /\ temp \in [Pages -> Values] /\ stored \in [Fields -> Values] /\ shown \in Values
  BY DEF EditInv, EditTypeOK
<1>3. Taken(f) \in Values /\ stored[f] \in Values
  BY <1>2, TakenType DEF EditInv
<1>4. EditTypeOK'
  <2>1. /\ stored' = stored \/ stored' = [stored EXCEPT ![f] = Taken(f)]
        /\ temp' = [temp EXCEPT ![p] = Taken(f)] \/ temp' = [temp EXCEPT ![p] = stored[f]]
        /\ shown' = shown
    BY DEF Confirm, Cancel
  <2>2. stored' \in [Fields -> Values] /\ temp' \in [Pages -> Values] /\ shown' \in Values
    BY <1>2, <1>3, <2>1
  <2>3. once' \in [Pages -> BOOLEAN] /\ abandoned' \in [Pages -> BOOLEAN] /\ keyed' \in BOOLEAN
    BY <1>2 DEF Confirm, Cancel
  <2> QED
    BY <2>2, <2>3 DEF EditTypeOK
<1>5. keyed' = FALSE
  BY DEF Confirm, Cancel
<1>6. PageOK'
  <2> SUFFICES ASSUME NEW q \in Pages, ~once'[q], ~abandoned'[q]
               PROVE  FALSE
    BY DEF PageOK
  <2>1. once'[p] \/ abandoned'[p]
    BY <1>1, <1>2 DEF Confirm, Cancel
  <2>2. q # p
    BY <2>1
  <2>3. once'[q] = once[q] /\ abandoned'[q] = abandoned[q]
    BY <1>2, <2>2 DEF Confirm, Cancel
  <2>4. PICK g \in Fields : Editing(g) /\ g[1] = q
    BY <2>3 DEF EditInv, PageOK
  <2> QED
    BY <2>2, <2>4, OneOpen
<1> QED
  BY <1>4, <1>5, <1>6 DEF EditInv, KeyedOK

\* While no page is open no key counts as pressed on one.
LEMMA ClosedPages ==
    ASSUME EditInv, ~ \E f \in Fields : Editing(f)
    PROVE  keyed = FALSE /\ \A p \in Pages : once[p] \/ abandoned[p]
BY DEF EditInv, EditTypeOK, KeyedOK, PageOK

\* A key outside the pages, which may open one.
LEMMA OutsideKeeps ==
    ASSUME EditInv, ~ \E f \in Fields : Editing(f),
           (\E f \in Fields : Editing(f)' /\ Open(f)) \/ UNCHANGED editVars
    PROVE  EditInv'
<1>1. UNCHANGED <<stored, once, temp, keyed, abandoned>>
  BY DEF Open, editVars
<1>2. keyed = FALSE /\ \A p \in Pages : once[p] \/ abandoned[p]
  BY ClosedPages
<1>3. EditTypeOK'
  <2>1. shown' = shown \/ \E f \in Fields : shown' = stored[f]
    BY DEF Open, editVars
  <2>2. shown' \in Values
    BY <2>1 DEF EditInv, EditTypeOK
  <2> QED
    BY <1>1, <2>2 DEF EditInv, EditTypeOK
<1> QED
  BY <1>1, <1>2, <1>3 DEF EditInv, KeyedOK, PageOK

LEMMA PressKeeps ==
    ASSUME EditInv, NEW b \in Buttons, EditPress(b)
    PROVE  EditInv'
<1>1. CASE \E f \in Fields : Editing(f)
  <2>1. PICK f \in Fields : Editing(f)
    BY <1>1
  <2>2. \/ b = "UP" /\ Step(f, 1)
        \/ b = "DOWN" /\ Step(f, -1)
        \/ Confirm(f) \/ Cancel(f)
    BY <1>1, <2>1, OneOpen DEF EditPress
  <2>3. b \in {"UP", "DOWN"} => Editing(f)'
    BY <2>1, StaysOpen DEF EditPress
  <2> QED
    BY <2>1, <2>2, <2>3, StepKeeps, EndKeeps
<1>2. CASE ~ \E f \in Fields : Editing(f)
  BY <1>2, OutsideKeeps DEF EditPress
<1> QED
  BY <1>1, <1>2

\* The idle timeout abandons the page it closes.
LEMMA HomeKeeps == EditInv /\ Home_Page => EditInv'
<1> SUFFICES ASSUME EditInv, Home_Page
             PROVE  EditInv'
  OBVIOUS
<1>1. /\ UNCHANGED <<stored, once, temp, shown>> /\ keyed' = FALSE
      /\ abandoned' = [p \in Pages |-> abandoned[p] \/
                         (~ once[p] /\ \E f \in Fields : Editing(f) /\ f[1] = p)]
  BY DEF Home_Page
<1>2. EditTypeOK'
  <2>1. abandoned' \in [Pages -> BOOLEAN] /\ keyed' \in BOOLEAN
    BY <1>1 DEF EditInv, EditTypeOK
  <2> QED
    BY <1>1, <2>1 DEF EditInv, EditTypeOK
<1>3. PageOK'
  BY <1>1 DEF EditInv, PageOK
<1> QED
  BY <1>1, <1>2, <1>3 DEF EditInv, KeyedOK

\* A network write changes a byte under the editor, and nothing of the editor.
LEMMA NetworkWriteKeeps == EditInv /\ NetworkWrite => EditInv'
<1> SUFFICES ASSUME EditInv, NetworkWrite
             PROVE  EditInv'
  OBVIOUS
<1>1. /\ UNCHANGED <<once, temp, shown, keyed, abandoned>>
      /\ UNCHANGED <<menu_states, current_state>>
  BY DEF NetworkWrite, vars
<1>2. PICK f \in Fields, v \in Values : stored' = [stored EXCEPT ![f] = v]
  BY DEF NetworkWrite
<1>3. stored' \in [Fields -> Values]
  BY <1>2 DEF EditInv, EditTypeOK
<1> QED
  BY <1>1, <1>3 DEF EditInv, EditTypeOK, KeyedOK, PageOK, Editing, Running

LEMMA EditStepKeeps == EditInv /\ [EditNext]_<<vars, editVars>> => EditInv'
<1>1. ASSUME EditInv, UNCHANGED <<vars, editVars>> PROVE EditInv'
  BY <1>1 DEF EditInv, EditTypeOK, KeyedOK, PageOK, Editing, Running, vars, editVars
<1> QED
  BY <1>1, PressKeeps, HomeKeeps, NetworkWriteKeeps DEF EditNext

-----------------------------------------------------------------------------
\* Editors and menu keep EditInv, whatever is pressed, timed out or written.
THEOREM EditInvariance == EditSpec => []EditInv
BY EditStarts, EditStepKeeps, PTL DEF EditSpec

\* The bytes being edited, temp and the numbers drawn stay in the width of a byte.
THEOREM EditTypeCorrect == EditSpec => []EditTypeOK
<1>1. EditInv => EditTypeOK
  BY DEF EditInv
<1> QED
  BY <1>1, EditInvariance, PTL

\* CONFIRM saves the number the page shows into the row it is open on, and
\* nothing if no key was pressed, unless the page had been left in the middle.
THEOREM ConfirmCorrect == EditSpec => ConfirmsWhatIsShown
<1>1. ASSUME EditInv, [EditNext]_<<vars, editVars>>,
             NEW f \in Fields, Editing(f), EditPress("CONFIRM")
      PROVE  IF keyed THEN stored' = [stored EXCEPT ![f] = shown]
             ELSE abandoned[f[1]] \/ stored' = stored
  <2>1. Confirm(f)
    BY <1>1, OneOpen DEF EditPress
  <2>2. stored' = [stored EXCEPT ![f] = Taken(f)]
    BY <2>1 DEF Confirm
  <2>3. CASE keyed
    <3>1. ~once[f[1]] /\ shown = temp[f[1]]
      BY <1>1, <2>3, OneOpen DEF EditInv, KeyedOK
    <3> QED
      BY <2>2, <2>3, <3>1 DEF Taken
  <2>4. CASE ~keyed /\ ~abandoned[f[1]]
    <3>1. once[f[1]]
      BY <1>1, <2>4, FieldPage DEF EditInv, PageOK
    <3>2. Taken(f) = stored[f] /\ stored \in [Fields -> Values]
      BY <1>1, <3>1 DEF Taken, EditInv, EditTypeOK
    <3> QED
      BY <1>1, <2>2, <2>4, <3>2
  <2> QED
    BY <2>3, <2>4
<1>2. EditInv /\ [EditNext]_<<vars, editVars>> =>
        [\A f \in Fields :
           Editing(f) /\ EditPress("CONFIRM") =>
             IF keyed THEN stored' = [stored EXCEPT ![f] = shown]
             ELSE abandoned[f[1]] \/ stored' = stored]_<<vars, editVars>>
  BY <1>1
<1> QED
  BY <1>2, EditInvariance, PTL DEF EditSpec, ConfirmsWhatIsShown
=============================================================================
