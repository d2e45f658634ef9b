------------------------------ MODULE MenuNav -------------------------------
(***************************************************************************)
(* What the menu promises its user: a stack of lists with one selected row *)
(* in each.  No levels, pointers or display window: those are the means of *)
(* Menu, which implements this specification.                              *)
(***************************************************************************)
EXTENDS Integers, Sequences

CONSTANTS
    Lists,      \* the lists of the menu
    Home,       \* the outermost list
    Tree,       \* Tree[l]: what the rows of list l lead to
    Callbacks,  \* the rows that do something, ...
    Exits       \* ... those of them that leave their list

VARIABLES
    path,       \* the lists from Home inwards, each with its selected row
    mode        \* "browsing", "open" (a row is at work) or "lost"

vars == <<path, mode>>

Last == path[Len(path)]
Chosen == Tree[Last[1]][Last[2] + 1]
Outer == SubSeq(path, 1, Len(path) - 1)

\* Types of the stack and of the mode.
TypeOK ==
    /\ path \in Seq(Lists \X Nat)
    /\ mode \in {"browsing", "open", "lost"}

Init == path = <<<<Home, 0>>>> /\ mode = "browsing"

\* The selection wraps at both ends of a list.
Move(by) ==
    /\ mode = "browsing"
    /\ path' = [path EXCEPT ![Len(path)] = <<@[1], (@[2] + by) % Len(Tree[@[1]])>>]
    /\ UNCHANGED mode

Enter ==
    /\ mode = "browsing"
    /\ Chosen \in Lists
    /\ path' = Append(path, <<Chosen, 0>>)
    /\ UNCHANGED mode

Open ==
    /\ mode = "browsing"
    /\ Chosen \in Callbacks
    /\ mode' = "open"
    /\ UNCHANGED path

Close ==
    /\ mode = "open"
    /\ Chosen \notin Exits
    /\ mode' = "browsing"
    /\ UNCHANGED path

\* An Exit row leads to the row of the outer list that had opened this one.
Back ==
    /\ \/ mode = "open" /\ Chosen \in Exits
       \/ mode = "browsing"
    /\ Len(path) > 1
    /\ path' = Outer
    /\ mode' = "browsing"

\* The outermost list has no outer list to lead to.
LeaveHome ==
    /\ mode = "open" /\ Chosen \in Exits
    /\ Len(path) = 1
    /\ \/ path' = path /\ mode' = "browsing"
       \/ path' = <<>> /\ mode' = "lost"

Restart == path' = <<<<Home, 0>>>> /\ mode' = "browsing"

Next == Move(1) \/ Move(-1) \/ Enter \/ Open \/ Close \/ Back \/ LeaveHome \/ Restart

Spec == Init /\ [][Next]_vars
=============================================================================
