---------------------------- MODULE MCFunction02 ----------------------------
(* Function 02 with what it writes, on the menu's part of the table for it.   *)
EXTENDS Function02, MCPanelStateManager
=============================================================================
