----------------------------- MODULE MCDisplay -----------------------------
(* Lines of four characters, two of them visible: an empty one, one that is   *)
(* shown at once, one that is scrolled and one that is cut.                   *)
EXTENDS Display

MCTexts == {<<>>, <<65>>, <<66, 255, 67>>, <<68, 69, 70, 71, 72>>}
=============================================================================
