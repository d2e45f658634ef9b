---------------------------- MODULE MCFrontPanel ----------------------------
(* The front panel with a small menu that has one item of every kind. *)
EXTENDS FrontPanel

MCLists == {"Home", "Config", "Network"}
MCTree == [
    Home    |-> <<"Config", Exit2Main>>,
    Config  |-> <<"Select", "Network", Exit>>,
    Network |-> <<"Edit", Dead, Exit>>]
MCDepth == [Home |-> 0, Config |-> 1, Network |-> 2]

\* Two lists, for the temporal properties.
TinyLists == {"Home", "Config"}
TinyTree == [Home |-> <<"Config", Exit2Main>>, Config |-> <<"Edit", Exit>>]
TinyDepth == [Home |-> 0, Config |-> 1]

\* Levels below the ones in use hold stale data no action reads (see MCMenu).
InUse ==
    <<current_state, screen,
      IF current_state = WILD THEN <<>>
      ELSE [k \in 1 .. Top + 1 |-> menu_states[k - 1]],
      queue, keyVars, timeVars, displayVars, workMode, pc>>
=============================================================================
