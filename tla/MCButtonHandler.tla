-------------------------- MODULE MCButtonHandler --------------------------
(* The buffer of the code, five reports, and ten presses and releases.       *)
EXTENDS ButtonHandler
=============================================================================
