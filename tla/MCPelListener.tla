--------------------------- MODULE MCPelListener ---------------------------
(* Up to three PELs: informational ones, serious ones with two call out      *)
(* functions and without a Resolution, and one whose event id is too short.  *)
EXTENDS PelListener

MCKinds == {
  [serious |-> FALSE, complete |-> TRUE, lines |-> 2],
  [serious |-> TRUE, complete |-> TRUE, lines |-> 3],
  [serious |-> TRUE, complete |-> TRUE, lines |-> 0],
  [serious |-> TRUE, complete |-> FALSE, lines |-> 7]}
=============================================================================
