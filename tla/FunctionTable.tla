--------------------------- MODULE FunctionTable ---------------------------
(* The table functionalityList of panel_state_manager.cpp: for every panel   *)
(* function its number, whether it is enabled by default, whether EXECUTE    *)
(* first shows a debounce SRC, the last sub function of its sub range and    *)
(* the conditions (a bit mask) under which it is enabled.                    *)
(*                                                                           *)
(* A byte of condition bits is the set of the positions of its 1 bits:       *)
(* bitwise OR is \cup, and (x & mask) == mask is mask \subseteq x.           *)
EXTENDS Naturals

\* Bit positions of SystemStateMask.
ByPhyp  == 0
Manual  == 1
Power   == 2
Runtime == 3
CE      == 4
Standby == 5

Bits == 0..7
SystemBits == {Manual, Power, Runtime, CE, Standby}

\* The two values PHYP's enable flag of a function is given: ENABLE_BY_PHYP is
\* 0x01 and DISABLE_BY_PHYP its complement, 0xFE.
ENABLE_BY_PHYP  == {ByPhyp}
\* Mutant: 0xFF, the complement is forgotten.
DISABLE_BY_PHYP_AllBits == Bits
DISABLE_BY_PHYP == Bits \ ENABLE_BY_PHYP

\* StateType: the values of a sub state that are not sub function numbers.
INITIAL_STATE      == 0
DEBOUNCE_SRC_STATE == 125
STAR_STATE         == 126
INVALID_STATE      == 127

\* The function numbers, in the order of the table: it is sorted, so an index
\* of panelFunctions and the function number at it determine each other.
FunctionNumbers ==
  {1, 2, 3, 4, 8} \cup 11..22 \cup {25, 26, 30, 34} \cup 41..43
    \cup {55} \cup 63..70 \cup {73, 74}

TableDefaultEnabled == {1, 2, 4, 20, 25, 26, 43, 55, 63, 64}

TableDebounce == {3, 8, 22, 41, 42, 43, 73}

TableSubRangeEnd ==
  [f \in FunctionNumbers |-> CASE f = 30        -> 1
                               [] f = 55        -> 13
                               [] f \in {63,64} -> 24
                               [] OTHER         -> INITIAL_STATE]

TableEnableMask ==
  [f \in FunctionNumbers |->
     CASE f \in {3, 8}             -> {Power, Manual}
       [] f \in {21, 22, 34, 41}   -> {Runtime, Manual, ByPhyp}
       [] f \in {25, 26, 43}       -> {Manual}
       [] f = 30                   -> {Standby, Manual}
       [] f = 42                   -> {Runtime, Manual}
       [] f \in {55, 63, 64, 73, 74} -> {Manual, CE}
       [] f \in 65..70             -> {Runtime, Manual, ByPhyp, CE}
       [] OTHER                    -> {}]

\* The functions the PEL listener enables and disables by number.
PelFunctions == 11..19

\* isFunctionSupported: the functions that can be triggered over D-Bus.
SupportedRemotely == {21, 22, 34} \cup 65..70
=============================================================================
