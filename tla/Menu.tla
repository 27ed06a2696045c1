-------------------------------- MODULE Menu --------------------------------
(* What the menu promises its operator: a cursor on the circle of the enabled *)
(* functions, and a dialogue with the function at the cursor, which may ask   *)
(* before it is executed, or open and offer a choice. Everything else that    *)
(* happens may enable and disable functions and show the status of function   *)
(* 1; it neither moves the cursor nor answers in place of the operator, but   *)
(* for a reset to function 1. PanelStateManager implements this with indices, *)
(* three sub states and their reserved values.                                *)
EXTENDS Naturals

CONSTANTS
  Functions,
  Confirmed,   \* the functions that ask before they are executed
  Dialogues    \* the functions that open: 2, and those with sub functions

VARIABLES
  running,      \* there is a process
  enabled,      \* the functions the operator can select
  cursor,       \* the function the panel is at
  dialogue,     \* with that function: "none", "asked" or "open"
  ceMode,
  lastExecuted, \* the last function executed at the panel, or 0
  request       \* what the last event had executed, and by whom

vars == <<running, enabled, cursor, dialogue, ceMode, lastExecuted, request>>

-----------------------------------------------------------------------------
Executes(f) ==
  /\ request' = [function |-> f, by |-> "panel"]
  /\ lastExecuted' = f

ExecutesNothing ==
  /\ request' = [function |-> 0, by |-> "none"]
  /\ UNCHANGED lastExecuted

\* On the way up from f to h, around the circle if h is not above f, comes g.
Between(f, g, h) == IF f < h THEN f < g /\ g < h ELSE f < g \/ g < h

Neighbours(f, h) ==
  \/ \A g \in enabled : ~Between(f, g, h)
  \/ \A g \in enabled : ~Between(h, g, f)

\* INCREMENT and DECREMENT move to the next enabled function; a question is over.
Walk ==
  /\ dialogue # "open"
  /\ cursor' \in enabled /\ Neighbours(cursor, cursor')
  /\ dialogue' = "none"
  /\ ExecutesNothing
  /\ UNCHANGED <<enabled, ceMode>>

\* In an open dialogue the buttons change the choice.
Choose ==
  /\ dialogue = "open"
  /\ ExecutesNothing
  /\ UNCHANGED <<enabled, cursor, dialogue, ceMode>>

\* EXECUTE: the function asks, opens or closes.
Ask ==
  /\ dialogue = "none" /\ cursor \in Confirmed /\ dialogue' = "asked"
  /\ ExecutesNothing
  /\ UNCHANGED <<enabled, cursor, ceMode>>

Open ==
  /\ dialogue = "none" /\ cursor \in Dialogues /\ dialogue' = "open"
  /\ ExecutesNothing
  /\ UNCHANGED <<enabled, cursor, ceMode>>

Close ==
  /\ dialogue = "open" /\ dialogue' = "none"
  /\ ExecutesNothing
  /\ UNCHANGED <<enabled, cursor, ceMode>>

\* EXECUTE of what was chosen. Function 2 closes its dialogue with that, and may
\* change the operating mode, which enables other functions.
ExecuteChoice ==
  /\ dialogue = "open"
  /\ Executes(cursor)
  /\ dialogue' = IF cursor = 2 THEN "none" ELSE "open"
  /\ cursor # 2 => UNCHANGED enabled
  /\ UNCHANGED <<cursor, ceMode>>

\* EXECUTE of a function without a dialogue, or that has been asked for. CE mode is
\* entered by 26 right after 25 and left by both; 25 after 25 does nothing.
Execute ==
  /\ cursor \notin Dialogues
  /\ dialogue = IF cursor \in Confirmed THEN "asked" ELSE "none"
  /\ dialogue' = "none"
  /\ IF cursor = 25 /\ lastExecuted = 25
     THEN ExecutesNothing /\ UNCHANGED ceMode
     ELSE /\ Executes(cursor)
          /\ ceMode' = IF cursor \in {25, 26}
                       THEN ~ceMode /\ cursor = 26 /\ lastExecuted = 25
                       ELSE ceMode
  /\ ceMode' = ceMode => UNCHANGED enabled
  /\ UNCHANGED cursor

\* A signal, a property or a PEL: FunctionAccess says which functions are enabled
\* then; function 1 may be shown.
Event ==
  /\ Executes(1) \/ ExecutesNothing
  /\ UNCHANGED <<cursor, dialogue, ceMode>>

\* The function at the cursor is gone, but never one that the operator has begun.
Reset ==
  /\ dialogue = "none"
  /\ cursor \notin Confirmed \cup Dialogues
  /\ cursor' = 1 /\ Executes(1)
  /\ enabled' \subseteq enabled
  /\ UNCHANGED <<dialogue, ceMode>>

\* A client has a function executed; the operator does not notice.
Trigger ==
  /\ \E f \in Functions : request' = [function |-> f, by |-> "remote"]
  /\ UNCHANGED <<enabled, cursor, dialogue, ceMode, lastExecuted>>

Started ==
  /\ running = TRUE
  /\ cursor = 1 /\ dialogue = "none" /\ ceMode = FALSE
  /\ lastExecuted = 0 /\ request = [function |-> 0, by |-> "none"]

-----------------------------------------------------------------------------
\* Function 1 is always enabled.
EnabledOK == enabled \subseteq Functions /\ 1 \in enabled

Init == Started /\ EnabledOK

\* The process may end in any step; then nothing happens until it is started again.
Next ==
  /\ EnabledOK'
  /\ \/ /\ running = TRUE
        /\ running' \in BOOLEAN
        /\ \/ Walk \/ Choose \/ Ask \/ Open \/ Close \/ ExecuteChoice \/ Execute
           \/ Event \/ Reset \/ Trigger
     \/ running = FALSE /\ Started'

Spec == Init /\ [][Next]_vars
=============================================================================
