------------------------------- MODULE MCMenu -------------------------------
(* The menu engine over the whole tree of menu_items.c:68-290, with two      *)
(* bytes of the IP address to edit.                                          *)
EXTENDS MenuEdit

MCLists ==
    {"Home", "System", "Feature", "Config", "Format", "Video", "Input", "Output",
     "Audio", "Network", "IP", "MAC", "SRC", "Mode", "Sync_Type", "Clock_Type",
     "Sync_Frame", "Display", "Display_Mode", "Brightness", "Status", "Synch"}

\* n selectable items, then Exit.
Options(n, kind) == [i \in 1 .. n + 1 |-> IF i = n + 1 THEN Exit ELSE kind]

MCTree == [
    Home         |-> <<"System", "Config", "Status", Exit2Main>>,
    System       |-> <<"Select", "Select", "Select", "Select", "Feature", Exit>>,
    Feature      |-> Options(5, Dead),
    Config       |-> <<"Format", "Video", "Audio", "Network", "Edit", "SRC", "Display", Exit>>,
    Format       |-> Options(17, "Select"),
    Video        |-> <<"Input", "Output", Exit>>,
    Input        |-> Options(3, "Select"),
    Output       |-> Options(2, "Select"),
    Audio        |-> Options(2, Dead),
    Network      |-> <<"IP", "MAC", Exit>>,
    IP           |-> Options(4, "Edit"),
    MAC          |-> Options(6, "Edit"),
    SRC          |-> <<"Mode", "Sync_Type", "Clock_Type", "Sync_Frame", Exit>>,
    Mode         |-> Options(2, "Select"),
    Sync_Type    |-> Options(12, "Select"),
    Clock_Type   |-> Options(3, "Select"),
    Sync_Frame   |-> Options(6, "Select"),
    Display      |-> <<"Display_Mode", "Brightness", Exit>>,
    Display_Mode |-> Options(3, "Select"),
    Brightness   |-> Options(2, "Select"),
    Status       |-> <<"Select", "Select", "Select", "Select", "Synch", Exit>>,
    Synch        |-> Options(2, "Edit")]

MCDepth == [l \in MCLists |->
    CASE l = "Home" -> 0
      [] l \in {"System", "Config", "Status"} -> 1
      [] l \in {"Feature", "Format", "Video", "Audio", "Network", "SRC", "Display", "Synch"} -> 2
      [] OTHER -> 3]

MCFields == {<<"IP", 0>>, <<"IP", 3>>}

\* The levels in use, and nothing of the deeper ones: those keep what was last
\* written there, which no action reads before setState writes it again.  The
\* same holds of temp while no edit is under way, and of shown while no page is
\* open.
InUse ==
    <<current_state, screen,
      IF current_state = WILD THEN <<>>
      ELSE [k \in 1 .. Top + 1 |-> menu_states[k - 1]],
      stored, once, [p \in Pages |-> IF once[p] THEN 0 ELSE temp[p]],
      IF \E f \in Fields : Editing(f) THEN shown ELSE 0, keyed, abandoned>>
=============================================================================
