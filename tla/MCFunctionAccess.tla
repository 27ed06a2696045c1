-------------------------- MODULE MCFunctionAccess --------------------------
(* The whole table, with every value of the four D-Bus properties that the   *)
(* code tells apart.                                                         *)
EXTENDS FunctionAccess

MCFunctions == FunctionNumbers
MCEnableMask == [f \in MCFunctions |-> TableEnableMask[f]]
MCDefaultEnabled == TableDefaultEnabled \cap MCFunctions

MCBMCReadings == {"Ready", "NotReady", "unread"}
MCPowerReadings == {"On", "Off", "unread"}
MCBootReadings == {"OSRunning", "Unspecified"}
MCModeReadings == {"Manual", "Normal"}

\* PHYP's bit map can name any function, with or without the PHYP condition.
MCPhypLists == {{}, {21, 65}, {21, 42}, 65..70}

\* A PEL shows at most six call outs, and enables one function less.
MCCallOutCounts == {0, 2, 5}
=============================================================================
