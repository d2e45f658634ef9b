------------------------------ MODULE MenuEdit ------------------------------
(***************************************************************************)
(* The number editors of driver/oled_meau/menu_items.c: the pages of the    *)
(* IP and MAC address bytes and of the GPS hour offset.  Each page function *)
(* keeps the number being edited in two static variables, which outlive the *)
(* page: leaving it is a matter of the menu, saving it of the page.         *)
(***************************************************************************)
EXTENDS Menu

CONSTANTS
    Fields,     \* the editable rows: items whose callback is Edit
    RANGE       \* a field counts modulo RANGE (256)

ASSUME FieldsAssumption ==
    /\ Fields \subseteq {<<l, i>> : l \in Lists, i \in 0 .. 254}
    /\ \A f \in Fields : f[2] < Len(Tree[f[1]]) /\ Target(f) = "Edit"

ASSUME RangeAssumption == RANGE \in Nat \ {0}

Pages == {f[1] : f \in Fields}
Values == 0 .. RANGE - 1

VARIABLES
    stored,     \* Ip_Arr, Mac_Arr, utc_offset_num: one value per field
    once,       \* per page: no edit is under way
    temp,       \* per page: the number being edited
    shown,      \* the number last drawn on a page
    keyed,      \* history: UP or DOWN was pressed on the page now open
    abandoned   \* history, per page: left in the middle, no UP or DOWN since

editVars == <<stored, once, temp, shown, keyed, abandoned>>

\* Types of the statics and of what the pages edit.  temp and the byte it is
\* saved to wrap at the same width, so that an edit never saves a byte that
\* differs from the number drawn.
EditTypeOK ==
    /\ stored \in [Fields -> Values]
    /\ once \in [Pages -> BOOLEAN]
    /\ temp \in [Pages -> Values]
    /\ shown \in Values
    /\ keyed \in BOOLEAN
    /\ abandoned \in [Pages -> BOOLEAN]

-----------------------------------------------------------------------------
Editing(f) == current_state = CALLBACK /\ Running = f

\* The page takes the stored number unless an edit is under way.
Taken(f) == IF once[f[1]] THEN stored[f] ELSE temp[f[1]]

\* Mutant: UP and DOWN do not start an edit.
StepUnmarked(f, by) ==
    /\ temp' = [temp EXCEPT ![f[1]] = (Taken(f) + by) % RANGE]
    /\ shown' = temp'[f[1]]
    /\ keyed' = TRUE
    /\ abandoned' = [abandoned EXCEPT ![f[1]] = FALSE]
    /\ UNCHANGED <<stored, once>>

\* Mutant: temp declared wider than the byte it edits.
StepWide(f, by) ==
    /\ once' = [once EXCEPT ![f[1]] = FALSE]
    /\ temp' = [temp EXCEPT ![f[1]] = Taken(f) + by]
    /\ shown' = temp'[f[1]]
    /\ keyed' = TRUE
    /\ abandoned' = [abandoned EXCEPT ![f[1]] = FALSE]
    /\ UNCHANGED stored

\* MENU_UP and MENU_DOWN of the three ActionCallbacks: ++temp or --temp.
Step(f, by) ==
    /\ once' = [once EXCEPT ![f[1]] = FALSE]
    /\ temp' = [temp EXCEPT ![f[1]] = (Taken(f) + by) % RANGE]
    /\ shown' = temp'[f[1]]
    /\ keyed' = TRUE
    /\ abandoned' = [abandoned EXCEPT ![f[1]] = FALSE]
    /\ UNCHANGED stored

\* MENU_CONFIRM: saved only if an edit is under way (the page's own message
\* replaces the number; the menu is back on the list at once).
Confirm(f) ==
    /\ stored' = [stored EXCEPT ![f] = Taken(f)]
    /\ once' = [once EXCEPT ![f[1]] = TRUE]
    /\ temp' = [temp EXCEPT ![f[1]] = Taken(f)]
    /\ keyed' = FALSE
    /\ abandoned' = [abandoned EXCEPT ![f[1]] = FALSE]
    /\ UNCHANGED shown

\* MENU_CANCEL takes the stored number back, but marks the page as edited.
Cancel(f) ==
    /\ once' = [once EXCEPT ![f[1]] = FALSE]
    /\ temp' = [temp EXCEPT ![f[1]] = stored[f]]
    /\ keyed' = FALSE
    /\ abandoned' = [abandoned EXCEPT ![f[1]] = TRUE]
    /\ UNCHANGED <<stored, shown>>

\* The render callback draws the stored number of the row just opened.
Open(f) ==
    /\ shown' = stored[f]
    /\ UNCHANGED <<stored, once, temp, keyed, abandoned>>

EditPress(button) ==
    /\ Press(button)
    /\ \/ \E f \in Fields : Editing(f) /\
            \/ button = "UP" /\ Step(f, 1)
            \/ button = "DOWN" /\ Step(f, -1)
            \/ button = "CONFIRM" /\ Confirm(f)
            \/ button = "CANCEL" /\ Cancel(f)
       \/ /\ ~ \E f \in Fields : Editing(f)
          /\ \/ \E f \in Fields : Editing(f)' /\ Open(f)
             \/ ~ (\E f \in Fields : Editing(f)') /\ UNCHANGED editVars

\* The idle timeout takes the menu away, and the next key brings the first
\* level back; neither tells the page.
Home_Page ==
    /\ menuReset \/ menuReset_No_RenderMenu
    /\ keyed' = FALSE
    /\ abandoned' = [p \in Pages |-> abandoned[p] \/
                       (~ once[p] /\ \E f \in Fields : Editing(f) /\ f[1] = p)]
    /\ UNCHANGED <<stored, once, temp, shown>>

\* A command from the network sets a byte of the address (Change_Data_Ip_Mac).
NetworkWrite ==
    /\ \E f \in Fields, v \in Values : stored' = [stored EXCEPT ![f] = v]
    /\ UNCHANGED <<vars, once, temp, shown, keyed, abandoned>>

EditInit ==
    /\ Init
    /\ stored \in [Fields -> {0}]
    /\ once = [p \in Pages |-> TRUE]
    /\ temp = [p \in Pages |-> 0]
    /\ shown = 0
    /\ keyed = FALSE
    /\ abandoned = [p \in Pages |-> FALSE]

EditNext ==
    \/ \E b \in Buttons : EditPress(b)
    \/ Home_Page
    \/ NetworkWrite

EditSpec == EditInit /\ [][EditNext]_<<vars, editVars>>

-----------------------------------------------------------------------------
\* CONFIRM saves the number the page shows into the row it is open on, and no
\* other number into no other row, whatever the network writes meanwhile and
\* however the page was left before; opened and confirmed without a key it
\* saves nothing.  Only a page left in the middle of an edit is excused from
\* the latter: its statics survive, and MENU_CANCEL leaves once at 0, so a
\* CONFIRM right after opening another row saves the first row's number there.
ConfirmsWhatIsShown ==
    [][\A f \in Fields :
         Editing(f) /\ EditPress("CONFIRM") =>
           IF keyed THEN stored' = [stored EXCEPT ![f] = shown]
           ELSE abandoned[f[1]] \/ stored' = stored]_<<vars, editVars>>
=============================================================================
