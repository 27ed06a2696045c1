------------------------ MODULE MCPanelStateManager ------------------------
(* The menu on three parts of the table, each with the signals that matter to*)
(* its functions.                                                            *)
EXTENDS PanelStateManager

MCEnableMask == [f \in Functions |-> TableEnableMask[f]]
MCDefaultEnabled == TableDefaultEnabled \cap Functions
MCDebounce == TableDebounce \cap Functions
MCSubRangeEnd == [f \in Functions |-> TableSubRangeEnd[f]]

\* Debounce, CE mode and a fixed sub range.
CEFunctions == {1, 3, 14, 22, 25, 26, 30, 73}
\* Function 02 next to a function that depends on the operating mode.
IPLFunctions == {1, 2, 26, 30}
\* The call outs and the functions of stored SRCs (63 and 64 need CE mode), and
\* function 02 with its sub states.
SRCFunctions == {1, 2, 14, 15, 16, 25, 26, 63, 64}

BothBMCStates == {"Ready", "NotReady"}
BMCReady == {"Ready"}
BothPowerStates == {"On", "Off"}
PowerOff == {"Off"}
PhypStopped == {"Unspecified"}
BothModes == {"Manual", "Normal"}
ManualMode == {"Manual"}
AnyBootState == {"OSRunning", "Unspecified"}

NoPhypLists == {{}}
SomePhypLists == {{}, {22}}
NoCallOuts == {}
OneCallOut == {1}
CallOutCountsShown == {0, 1, 3}
NoIplTypes == {}
TwoIplTypes == {0, 3}
NoPels == {0}
SomePels == {0, 2}
=============================================================================
