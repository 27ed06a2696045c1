------------------------- MODULE PanelStateManager -------------------------
(* The menu of the operator panel: class PanelStateManager together with the *)
(* part of Executor whose state decides what a button press does (service    *)
(* switch 1 of functions 25 and 26, the stored IPL SRCs, PEL event ids and   *)
(* call outs, the OS IPL mode). Which functions are enabled is FunctionAccess.*)
(*                                                                           *)
(* panelCurState holds the function number at the current index of           *)
(* panelFunctions. What a function does outside the panel is abstracted to   *)
(* the call of Executor::executeFunction and whether it ends in 00 or FF.    *)
(*                                                                           *)
(* main runs every callback to completion on one thread, so an action is one *)
(* callback: a button event, a D-Bus signal or method, a property change.    *)
EXTENDS FunctionAccess

CONSTANTS
  Debounce,       \* the functions whose debounceSrcValue is not "NONE"
  SubRangeEnd,    \* subRangeEndPoint of every function
  IplTypes,       \* the OS IPL types of function 02 that D-Bus reports
  SrcLimit,       \* the size limit of iplSrcs and pelEventIdQueue, 25
  PelsLogged      \* the numbers of PELs utils::geListOfPELsAndSRCs may return

ASSUME MenuAssumption ==
  /\ Debounce \subseteq Functions
  /\ SubRangeEnd \in [Functions -> 0..24]
  /\ IplTypes \subseteq 0..3
  /\ SrcLimit \in 1..25
  /\ PelsLogged \subseteq Nat

\* A function has a debounce SRC or sub functions, not both; functions 1 and 2
\* have no debounce SRC, the functions of PELs and of CE mode no sub functions. No
\* function of PELs is enabled before there is one.
ASSUME SubRangeAssumption ==
  /\ \A f \in Functions :
       f \in {1, 2, 63, 64} \/ SubRangeEnd[f] # INITIAL_STATE => f \notin Debounce
  /\ \A f \in Functions \cap (PelFunctions \cup {25, 26}) :
       SubRangeEnd[f] = INITIAL_STATE
  /\ PelFunctions \cap (Debounce \cup DefaultEnabled) = {}

VARIABLES
  panelCurState,          \* the function the panel is at
  panelCurSubStates,      \* the three levels of sub states
  isSubrangeActive,
  levelToOperate,         \* function 02: the level INCREMENT and DECREMENT change
  initialValues,          \* function 02: the sub states read when it was entered
  subFunctionUpperRange,  \* per function, the last sub function
  serviceSwitch1State,    \* function 25 has been executed
  osIplMode,              \* D-Bus property OSIPLMode
  iplSrcs,                \* number of the IPL SRCs stored
  pelEventIds,            \* length of pelEventIdQueue
  callOuts,               \* length of callOutList
  process,                \* "running", or what ended the process
  call,                   \* the executor call made by the last step, or NoCall
  lastExecuted,           \* the last function given to executeFunction since
                          \* the callbacks run, or 0
  prompted                \* the function whose debounce SRC answered the last
                          \* button press, or 0

menuVars == <<panelCurState, panelCurSubStates, isSubrangeActive,
              levelToOperate, initialValues>>
srcVars  == <<iplSrcs, pelEventIds, callOuts>>
callVars == <<call, lastExecuted, serviceSwitch1State>>
vars == <<accessVars, menuVars, subFunctionUpperRange, osIplMode, srcVars,
          callVars, process, prompted>>

-----------------------------------------------------------------------------
Buttons == {"INCREMENT", "DECREMENT"}
Levels  == 0..2

\* functionality02: the number of choices of each level (A to D, M or N, P or T).
Choices == [level \in Levels |-> IF level = 0 THEN 4 ELSE 2]

NoSubStates == [level \in Levels |->
                  IF level = 0 THEN INITIAL_STATE ELSE INVALID_STATE]

NoCall == [function |-> 0, subs |-> NoSubStates, via |-> "none", ok |-> TRUE]

Running == process = "running"

\* Function 02 is open: its parameters are being edited.
Editing02 == panelCurState = 2 /\ isSubrangeActive

\* Whether function f has sub functions: 63 and 64 also when none is stored.
HasSubRange(f) == subFunctionUpperRange[f] # INITIAL_STATE \/ f \in {63, 64}

-----------------------------------------------------------------------------
(* Executor. *)

\* How execution of f may end: 25 always succeeds, 26 only after 25, and any
\* other depends on the outside.
Results(f) == CASE f = 25 -> {TRUE}
                [] f = 26 -> {serviceSwitch1State}
                [] OTHER  -> BOOLEAN

\* executeFunction: any function but 25 and 26 resets service switch 1 before it
\* runs, 26 when it succeeds, and 25 inverts it.
\* Mutant: only 25 and 26 change service switch 1.
ExecuteFunction_KeepsSwitch(f, subs, ok) ==
  /\ call' = [function |-> f, subs |-> subs, via |-> "panel", ok |-> ok]
  /\ lastExecuted' = f
  /\ serviceSwitch1State' =
       (f # 26 /\ IF f = 25 THEN ~serviceSwitch1State ELSE serviceSwitch1State)
\* Mutant: 26 does not reset service switch 1.
ExecuteFunction_26KeepsSwitch(f, subs, ok) ==
  /\ call' = [function |-> f, subs |-> subs, via |-> "panel", ok |-> ok]
  /\ lastExecuted' = f
  /\ serviceSwitch1State' = IF f = 26 THEN serviceSwitch1State
                            ELSE f = 25 /\ ~serviceSwitch1State
ExecuteFunction(f, subs, ok) ==
  /\ call' = [function |-> f, subs |-> subs, via |-> "panel", ok |-> ok]
  /\ lastExecuted' = f
  /\ serviceSwitch1State' = (f = 25 /\ ~serviceSwitch1State)

\* A step that asks the executor for nothing.
ExecuteNothing == call' = NoCall /\ UNCHANGED <<lastExecuted, serviceSwitch1State>>

\* execute14to19 reads callOutList.at(f - 14) without a test; what it throws is
\* not one of the exceptions executeFunction catches, so main ends.
CallOutMissing(f) == f \in 14..19 /\ f - 14 >= callOuts

-----------------------------------------------------------------------------
(* Function 02: setIPLParameters. *)

\* displayFunc02 looks up the letter of every level it shows, with at(): a sub
\* state that is no index ends the process. While the OS IPL mode is not shown
\* the cursor moves from level 0 to 1.
\* Mutant: the lists of choices are read without at().
DisplayFunc02_NoCheck(level) ==
  /\ process' = process
  /\ levelToOperate' =
       IF isSubrangeActive' /\ ~osIplMode /\ level = 0 THEN 1 ELSE level
DisplayFunc02(level) ==
  LET shown == IF osIplMode THEN Levels ELSE {1, 2}
  IN  /\ process' = IF isSubrangeActive' /\ \E k \in shown :
                          panelCurSubStates'[k] >= Choices[k]
                    THEN "function02" ELSE process
      /\ levelToOperate' =
           IF isSubrangeActive' /\ ~osIplMode /\ level = 0 THEN 1 ELSE level

ChangeChoice(button, choice, size) ==
  IF button = "INCREMENT"
  THEN IF choice = size - 1 THEN INITIAL_STATE ELSE choice + 1
  ELSE IF choice = INITIAL_STATE THEN size - 1 ELSE choice - 1

\* initFunction02: when the read fails the sub states stay as they are, and an
\* IPL type or operating mode it does not know leaves its sub state alone.
Sub02(ipl, mode, side) ==
  [level \in Levels |-> IF level = 0 THEN ipl ELSE IF level = 1 THEN mode ELSE side]

InitFunction02Results ==
  {panelCurSubStates} \cup
  {Sub02(ipl, mode, side) :
     ipl \in IplTypes \cup {panelCurSubStates[0]},
     mode \in {0, 1, panelCurSubStates[1]}, side \in {0, 1}}

EnterFunction02 ==
  /\ ~isSubrangeActive
  /\ isSubrangeActive' = TRUE
  /\ \E read \in InitFunction02Results :
       panelCurSubStates' = read /\ initialValues' = read
  /\ DisplayFunc02(levelToOperate)
  /\ ExecuteNothing
  /\ UNCHANGED accessVars

NextLevel ==
  /\ isSubrangeActive /\ levelToOperate # 2
  /\ UNCHANGED <<accessVars, panelCurSubStates, isSubrangeActive, initialValues>>
  /\ DisplayFunc02(levelToOperate + 1)
  /\ ExecuteNothing

\* The sub states the executor gets: those that were not changed are invalid.
\* Mutant: unchanged parameters are not left out.
Selected_All == panelCurSubStates
Selected == [level \in Levels |->
               IF panelCurSubStates[level] = initialValues[level]
               THEN INVALID_STATE ELSE panelCurSubStates[level]]

NothingSelected == \A level \in Levels : Selected[level] = INVALID_STATE

\* The last EXECUTE leaves function 02. If anything was changed it is written,
\* and the operating mode follows only if the write did not throw.
\* Mutant: the cursor is not reset.
CommitFunction02_KeepsCursor ==
  /\ isSubrangeActive /\ levelToOperate = 2
  /\ isSubrangeActive' = FALSE
  /\ \/ /\ NothingSelected
        /\ panelCurSubStates' = Selected
        /\ ExecuteNothing
        /\ UNCHANGED accessVars
     \/ /\ ~NothingSelected
        /\ panelCurSubStates' = NoSubStates
        /\ \E ok \in Results(2) :
             /\ ExecuteFunction(2, Selected, ok)
             /\ IF ok /\ Selected[1] # INVALID_STATE
                THEN SetBit(Manual, Selected[1] = 0)
                ELSE UNCHANGED accessVars
  /\ DisplayFunc02(levelToOperate)
  /\ UNCHANGED initialValues
CommitFunction02 ==
  /\ isSubrangeActive /\ levelToOperate = 2
  /\ isSubrangeActive' = FALSE
  /\ \/ /\ NothingSelected
        /\ panelCurSubStates' = Selected
        /\ ExecuteNothing
        /\ UNCHANGED accessVars
     \/ /\ ~NothingSelected
        /\ panelCurSubStates' = NoSubStates
        /\ \E ok \in Results(2) :
             /\ ExecuteFunction(2, Selected, ok)
             /\ IF ok /\ Selected[1] # INVALID_STATE
                THEN SetBit(Manual, Selected[1] = 0)
                ELSE UNCHANGED accessVars
  /\ DisplayFunc02(0)
  /\ UNCHANGED initialValues

-----------------------------------------------------------------------------
(* Buttons: processPanelButtonEvent. *)

\* incrementState and decrementState outside a sub range: the nearest enabled
\* function above (below) f, or else the first (last) enabled one.
\* Mutant: functions that are not enabled are not skipped.
NextEnabled_DisabledToo(f, g) ==
  IF \E h \in Functions : h > f
  THEN g > f /\ \A h \in Functions : h > f => g <= h
  ELSE \A h \in Functions : g <= h
NextEnabled(f, g) ==
  /\ g \in functionActiveState
  /\ IF \E h \in functionActiveState : h > f
     THEN g > f /\ \A h \in functionActiveState : h > f => g <= h
     ELSE \A h \in functionActiveState : g <= h

PreviousEnabled(f, g) ==
  /\ g \in functionActiveState
  /\ IF \E h \in functionActiveState : h < f
     THEN g < f /\ \A h \in functionActiveState : h < f => g >= h
     ELSE \A h \in functionActiveState : g >= h

Adjacent(button, f, g) ==
  IF button = "INCREMENT" THEN NextEnabled(f, g) ELSE PreviousEnabled(f, g)

\* Inside a sub range: 0 .. upper and the star, in a circle.
\* Mutant: INCREMENT goes one beyond the last sub function.
ChangeSub_OneMore(button, sub, upper) ==
  IF button = "INCREMENT"
  THEN CASE sub = STAR_STATE -> INITIAL_STATE
         [] sub <= upper     -> sub + 1
         [] OTHER            -> STAR_STATE
  ELSE CASE sub = INITIAL_STATE -> STAR_STATE
         [] sub = STAR_STATE    -> upper
         [] OTHER               -> sub - 1
\* Mutant: DECREMENT does not stop at the first sub function.
ChangeSub_NoStar(button, sub, upper) ==
  IF button = "INCREMENT"
  THEN CASE sub = STAR_STATE -> INITIAL_STATE
         [] sub = upper      -> STAR_STATE
         [] sub < upper      -> sub + 1
         [] OTHER            -> sub
  ELSE IF sub = STAR_STATE THEN upper ELSE sub - 1
ChangeSub(button, sub, upper) ==
  IF button = "INCREMENT"
  THEN CASE sub = STAR_STATE -> INITIAL_STATE
         [] sub = upper      -> STAR_STATE
         [] sub < upper      -> sub + 1
         [] OTHER            -> sub
  ELSE CASE sub = INITIAL_STATE -> STAR_STATE
         [] sub = STAR_STATE    -> upper
         [] OTHER               -> sub - 1

\* INCREMENT and DECREMENT leave the debounce state first.
\* Mutant: the debounce state is not left.
Move_KeepsDebounce(button) ==
  LET subs == panelCurSubStates
  IN  /\ \/ /\ Editing02
            /\ panelCurSubStates' =
                 [subs EXCEPT ![levelToOperate] =
                    ChangeChoice(button, @, Choices[levelToOperate])]
            /\ UNCHANGED <<panelCurState, isSubrangeActive>>
            /\ DisplayFunc02(levelToOperate)
         \/ /\ isSubrangeActive /\ panelCurState # 2
            /\ panelCurSubStates' =
                 [subs EXCEPT ![0] =
                    ChangeSub(button, @, subFunctionUpperRange[panelCurState])]
            /\ UNCHANGED <<panelCurState, isSubrangeActive, levelToOperate, process>>
         \/ /\ ~isSubrangeActive
            /\ \E g \in Functions :
                 Adjacent(button, panelCurState, g) /\ panelCurState' = g
            /\ panelCurSubStates' = subs
            /\ UNCHANGED <<isSubrangeActive, levelToOperate, process>>
      /\ prompted' = 0
      /\ ExecuteNothing
      /\ UNCHANGED <<accessVars, initialValues, subFunctionUpperRange, osIplMode, srcVars>>
Move(button) ==
  LET subs == [panelCurSubStates EXCEPT
                 ![0] = IF @ = DEBOUNCE_SRC_STATE THEN INITIAL_STATE ELSE @]
  IN  /\ \/ /\ Editing02
            /\ panelCurSubStates' =
                 [subs EXCEPT ![levelToOperate] =
                    ChangeChoice(button, @, Choices[levelToOperate])]
            /\ UNCHANGED <<panelCurState, isSubrangeActive>>
            /\ DisplayFunc02(levelToOperate)
         \/ /\ isSubrangeActive /\ panelCurState # 2
            /\ panelCurSubStates' =
                 [subs EXCEPT ![0] =
                    ChangeSub(button, @, subFunctionUpperRange[panelCurState])]
            /\ UNCHANGED <<panelCurState, isSubrangeActive, levelToOperate, process>>
         \/ /\ ~isSubrangeActive
            /\ \E g \in Functions :
                 Adjacent(button, panelCurState, g) /\ panelCurState' = g
            /\ panelCurSubStates' = subs
            /\ UNCHANGED <<isSubrangeActive, levelToOperate, process>>
      /\ prompted' = 0
      /\ ExecuteNothing
      /\ UNCHANGED <<accessVars, initialValues, subFunctionUpperRange, osIplMode, srcVars>>

PressMove == \E button \in Buttons : Running /\ Move(button)

\* EXECUTE, by the kind of function the panel is at. executeState does not ask
\* whether the function is still enabled.
ExecuteFunction02 ==
  /\ Running /\ panelCurState = 2
  /\ EnterFunction02 \/ NextLevel \/ CommitFunction02
  /\ prompted' = 0
  /\ UNCHANGED <<panelCurState, subFunctionUpperRange, osIplMode, srcVars>>

\* A function with a debounce SRC shows it on the first EXECUTE.
AwaitsPrompt ==
  panelCurState \in Debounce /\ panelCurSubStates[0] # DEBOUNCE_SRC_STATE

ShowDebounce ==
  /\ Running /\ panelCurState # 2 /\ AwaitsPrompt
  /\ panelCurSubStates' = [panelCurSubStates EXCEPT ![0] = DEBOUNCE_SRC_STATE]
  /\ prompted' = panelCurState
  /\ ExecuteNothing
  /\ UNCHANGED <<accessVars, panelCurState, isSubrangeActive, levelToOperate,
                 initialValues, subFunctionUpperRange, osIplMode, srcVars, process>>

AtSubRange == panelCurState # 2 /\ ~AwaitsPrompt /\ HasSubRange(panelCurState)

\* storePelEventId drops the oldest entry of a full queue.
Stored(count, new) == IF count + new > SrcLimit THEN SrcLimit ELSE count + new

\* Entering a sub range selects its star. For 63 and 64 its last sub function
\* follows from the number of entries now; for 64 getPelEventIdCount first stores
\* the event ids of all PELs logged.
\* Mutant: the last sub function is the number of entries.
EnterSubRange_OneMore ==
  /\ Running /\ AtSubRange /\ ~isSubrangeActive
  /\ IF panelCurState = 64
     THEN \E logged \in PelsLogged : pelEventIds' = Stored(pelEventIds, logged)
     ELSE UNCHANGED pelEventIds
  /\ IF panelCurState \in {63, 64}
     THEN LET count == IF panelCurState = 63 THEN iplSrcs ELSE pelEventIds'
          IN  subFunctionUpperRange' =
                [subFunctionUpperRange EXCEPT ![panelCurState] =
                   count]
     ELSE UNCHANGED subFunctionUpperRange
  /\ isSubrangeActive' = TRUE
  /\ panelCurSubStates' = [panelCurSubStates EXCEPT ![0] = STAR_STATE]
  /\ prompted' = 0
  /\ ExecuteNothing
  /\ UNCHANGED <<accessVars, panelCurState, levelToOperate, initialValues,
                 osIplMode, iplSrcs, callOuts, process>>
EnterSubRange ==
  /\ Running /\ AtSubRange /\ ~isSubrangeActive
  /\ IF panelCurState = 64
     THEN \E logged \in PelsLogged : pelEventIds' = Stored(pelEventIds, logged)
     ELSE UNCHANGED pelEventIds
  /\ IF panelCurState \in {63, 64}
     THEN LET count == IF panelCurState = 63 THEN iplSrcs ELSE pelEventIds'
          IN  subFunctionUpperRange' =
                [subFunctionUpperRange EXCEPT ![panelCurState] =
                   IF count # 0 THEN count - 1 ELSE count]
     ELSE UNCHANGED subFunctionUpperRange
  /\ isSubrangeActive' = TRUE
  /\ panelCurSubStates' = [panelCurSubStates EXCEPT ![0] = STAR_STATE]
  /\ prompted' = 0
  /\ ExecuteNothing
  /\ UNCHANGED <<accessVars, panelCurState, levelToOperate, initialValues,
                 osIplMode, iplSrcs, callOuts, process>>

ExitSubRange ==
  /\ Running /\ AtSubRange /\ isSubrangeActive
  /\ panelCurSubStates[0] = STAR_STATE
  /\ isSubrangeActive' = FALSE
  /\ panelCurSubStates' = [panelCurSubStates EXCEPT ![0] = INITIAL_STATE]
  /\ prompted' = 0
  /\ ExecuteNothing
  /\ UNCHANGED <<accessVars, panelCurState, levelToOperate, initialValues,
                 subFunctionUpperRange, osIplMode, srcVars, process>>

ExecuteSubFunction ==
  /\ Running /\ AtSubRange /\ isSubrangeActive
  /\ panelCurSubStates[0] # STAR_STATE
  /\ \E ok \in Results(panelCurState) :
       ExecuteFunction(panelCurState, panelCurSubStates, ok)
  /\ prompted' = 0
  /\ UNCHANGED <<accessVars, menuVars, subFunctionUpperRange, osIplMode, srcVars, process>>

\* Any other function is executed at once, or on the EXECUTE that follows its
\* debounce SRC.
AtPlainFunction ==
  /\ Running /\ panelCurState # 2 /\ ~AwaitsPrompt /\ ~HasSubRange(panelCurState)
  /\ panelCurSubStates' = [panelCurSubStates EXCEPT ![0] = INITIAL_STATE]
  /\ prompted' = 0
  /\ UNCHANGED <<panelCurState, isSubrangeActive, levelToOperate, initialValues,
                 subFunctionUpperRange, osIplMode, srcVars>>

ExecutePlainFunction ==
  /\ AtPlainFunction /\ panelCurState \notin {25, 26}
  /\ process' = IF CallOutMissing(panelCurState) THEN "callOut" ELSE process
  /\ \E ok \in Results(panelCurState) :
       ExecuteFunction(panelCurState, panelCurSubStates', ok)
  /\ UNCHANGED accessVars

\* setCEState. CE mode is left by 25 or 26, and entered by 26 after 25; 25 after
\* 25 only shows "25 00".
SetCEState ==
  /\ AtPlainFunction /\ panelCurState \in {25, 26}
  /\ \/ /\ ClearCEMode
        /\ \E ok \in Results(panelCurState) :
             ExecuteFunction(panelCurState, panelCurSubStates', ok)
     \/ /\ CE \notin systemState /\ serviceSwitch1State /\ panelCurState = 26
        /\ SetCEMode
        /\ \E ok \in Results(26) : ExecuteFunction(26, panelCurSubStates', ok)
     \/ /\ CE \notin systemState /\ serviceSwitch1State /\ panelCurState = 25
        /\ ExecuteNothing
        /\ UNCHANGED accessVars
     \/ /\ CE \notin systemState /\ ~serviceSwitch1State
        /\ \E ok \in Results(panelCurState) :
             ExecuteFunction(panelCurState, panelCurSubStates', ok)
        /\ UNCHANGED accessVars
  /\ UNCHANGED process

PressExecute ==
  \/ ExecuteFunction02
  \/ ShowDebounce
  \/ EnterSubRange
  \/ ExitSubRange
  \/ ExecuteSubFunction
  \/ ExecutePlainFunction
  \/ SetCEState

-----------------------------------------------------------------------------
(* Signals, method calls and property changes. None of them asks what the    *)
(* operator is doing; the debounce state and an open sub range survive them. *)

MenuUnchanged ==
  UNCHANGED <<menuVars, subFunctionUpperRange, process, prompted>>

\* updateBMCState executes function 01 on Ready, updatePowerState when the power
\* goes off.
BMCStateChanged ==
  /\ Running
  /\ \E bmc \in BMCReadings \ {"unread"} :
       /\ UpdateBMCState(bmc)
       /\ IF bmc = "Ready"
          THEN \E ok \in Results(1) : ExecuteFunction(1, NoSubStates, ok)
          ELSE ExecuteNothing
  /\ MenuUnchanged /\ UNCHANGED <<osIplMode, srcVars>>

PowerStateChanged ==
  /\ Running
  /\ \E power \in PowerReadings :
       /\ UpdatePowerState(power)
       /\ IF power = "Off" /\ Power \in systemState
          THEN \E ok \in Results(1) : ExecuteFunction(1, NoSubStates, ok)
          ELSE ExecuteNothing
  /\ MenuUnchanged /\ UNCHANGED <<osIplMode, srcVars>>

BootProgressChanged ==
  /\ Running
  /\ \E boot \in BootReadings : UpdateBootProgressState(boot)
  /\ ExecuteNothing
  /\ MenuUnchanged /\ UNCHANGED <<osIplMode, srcVars>>

OperatingModeChanged ==
  /\ Running
  /\ \E mode \in ModeReadings : SetSystemOperatingMode(mode)
  /\ ExecuteNothing
  /\ MenuUnchanged /\ UNCHANGED <<osIplMode, srcVars>>

PhypListReceived ==
  /\ Running
  /\ \E list \in PhypLists : ToggleFuncStateFromPhyp(list)
  /\ ExecuteNothing
  /\ MenuUnchanged /\ UNCHANGED <<osIplMode, srcVars>>

\* A new PEL, with a Resolution of n + 1 call outs or without one.
PelReceived ==
  /\ Running
  /\ \/ \E n \in CallOutCounts : SetPelRelatedFunctionState(n) /\ callOuts' = n + 1
     \/ PelWithoutResolution /\ UNCHANGED callOuts
  /\ ExecuteNothing
  /\ MenuUnchanged /\ UNCHANGED <<osIplMode, iplSrcs, pelEventIds>>

\* The last PEL is deleted; if the panel is at one of its functions it is reset
\* (resetStateManager) to function 01.
LastPelDeleted ==
  /\ Running
  /\ PelDeleted
  /\ IF panelCurState \in PelFunctions
     THEN /\ panelCurState' = 1
          /\ \E ok \in Results(1) : ExecuteFunction(1, NoSubStates, ok)
     ELSE UNCHANGED panelCurState /\ ExecuteNothing
  /\ UNCHANGED <<panelCurSubStates, isSubrangeActive, levelToOperate, initialValues,
                 subFunctionUpperRange, process, prompted, osIplMode, srcVars>>

\* progressCodeCallBack: a code is stored, or the code that clears the display
\* executes function 01.
ProgressCodeReceived ==
  /\ Running
  /\ \/ iplSrcs' = Stored(iplSrcs, 1) /\ ExecuteNothing
     \/ /\ UNCHANGED iplSrcs
        /\ \E ok \in Results(1) : ExecuteFunction(1, NoSubStates, ok)
  /\ MenuUnchanged /\ UNCHANGED <<accessVars, osIplMode, pelEventIds, callOuts>>

OSIPLModeChanged ==
  /\ Running
  /\ osIplMode' = ~osIplMode
  /\ ExecuteNothing
  /\ MenuUnchanged /\ UNCHANGED <<accessVars, srcVars>>

\* triggerFunctionDirectly: does not pass through executeFunction.
FunctionTriggered ==
  /\ Running
  /\ \E f \in EnabledFunctionsList, ok \in BOOLEAN :
       call' = [function |-> f, subs |-> NoSubStates, via |-> "remote", ok |-> ok]
  /\ UNCHANGED <<lastExecuted, serviceSwitch1State>>
  /\ MenuUnchanged /\ UNCHANGED <<accessVars, osIplMode, srcVars>>

\* Any exception that reaches main (a D-Bus write in updatePowerState, createPEL
\* without a logging service, ...) ends the process; what it was doing is lost.
UncaughtException ==
  /\ Running
  /\ process' = "exception"
  /\ ExecuteNothing
  /\ UNCHANGED <<accessVars, menuVars, subFunctionUpperRange, prompted, osIplMode, srcVars>>

-----------------------------------------------------------------------------
InitMenu ==
  /\ panelCurState = 1
  /\ panelCurSubStates = NoSubStates
  /\ isSubrangeActive = FALSE
  /\ levelToOperate = 0
  /\ initialValues = [level \in Levels |-> 0]
  /\ subFunctionUpperRange = SubRangeEnd
  /\ serviceSwitch1State = FALSE
  /\ osIplMode = FALSE
  /\ iplSrcs = 0 /\ pelEventIds = 0 /\ callOuts = 0
  /\ process = "running"
  /\ call = NoCall
  /\ lastExecuted = 0
  /\ prompted = 0

Init == AccessInit /\ InitMenu

\* systemd starts the process again (Restart=always): it reads the D-Bus
\* properties anew, everything else is back to its initial value.
Restart ==
  /\ ~Running
  /\ \E mode \in ModeReadings, bmc \in BMCReadings,
        boot \in BootReadings, power \in PowerReadings :
       systemState' = StartState(mode, bmc, boot, power)
  /\ functionEnabledByPhyp' = [f \in Functions |-> {}]
  /\ functionActiveState' = StartActive(systemState')
  /\ panelCurState' = 1
  /\ panelCurSubStates' = NoSubStates
  /\ isSubrangeActive' = FALSE
  /\ levelToOperate' = 0
  /\ initialValues' = [level \in Levels |-> 0]
  /\ subFunctionUpperRange' = SubRangeEnd
  /\ serviceSwitch1State' = FALSE
  /\ osIplMode' = FALSE
  /\ iplSrcs' = 0 /\ pelEventIds' = 0 /\ callOuts' = 0
  /\ process' = "running"
  /\ call' = NoCall
  /\ lastExecuted' = 0
  /\ prompted' = 0

Next ==
  \/ PressMove
  \/ PressExecute
  \/ BMCStateChanged
  \/ PowerStateChanged
  \/ BootProgressChanged
  \/ OperatingModeChanged
  \/ PhypListReceived
  \/ PelReceived
  \/ LastPelDeleted
  \/ ProgressCodeReceived
  \/ OSIPLModeChanged
  \/ FunctionTriggered
  \/ UncaughtException
  \/ Restart

Spec == Init /\ [][Next]_vars

-----------------------------------------------------------------------------
SubStates == 0..24 \cup {DEBOUNCE_SRC_STATE, STAR_STATE, INVALID_STATE}

\* The type invariant. Sub states 1 and 2 are only used by function 02.
MenuTypeOK ==
  /\ AccessTypeOK
  /\ panelCurState \in Functions
  /\ panelCurSubStates \in [Levels -> SubStates]
  /\ isSubrangeActive \in BOOLEAN
  /\ levelToOperate \in Levels
  /\ initialValues \in [Levels -> SubStates]
  /\ subFunctionUpperRange \in [Functions -> 0..24]
  /\ serviceSwitch1State \in BOOLEAN
  /\ osIplMode \in BOOLEAN
  /\ iplSrcs \in 0..SrcLimit /\ pelEventIds \in 0..SrcLimit
  /\ callOuts \in 0..6
  /\ process \in {"running", "function02", "callOut", "exception"}
  /\ call \in [function : Functions \cup {0}, subs : [Levels -> SubStates],
               via : {"none", "panel", "remote"}, ok : BOOLEAN]
  /\ lastExecuted \in Functions \cup {0}
  /\ prompted \in Functions \cup {0}

\* The debounce state belongs to the function the panel is at: no signal and no
\* reset carries it to another function, where EXECUTE would take it for a
\* confirmation.
DebounceIsForCurrentFunction ==
  panelCurSubStates[0] = DEBOUNCE_SRC_STATE
    => panelCurState \in Debounce /\ ~isSubrangeActive

\* While function 02 is edited every level that displayFunc02 looks up, or will
\* look up when the cursor reaches it, is an index of its list of choices; the
\* OS IPL type alone may be unknown, and then the cursor has passed it.
Edit02InRange ==
  Running /\ Editing02 =>
    /\ panelCurSubStates[1] < Choices[1] /\ panelCurSubStates[2] < Choices[2]
    /\ panelCurSubStates[0] < Choices[0] \/
         (panelCurSubStates[0] = INVALID_STATE /\ levelToOperate # 0)

\* An open sub range stays inside its function, between 0 and its last sub
\* function or at the star, whatever is stored, enabled or reset meanwhile.
SubRangeInRange ==
  Running /\ isSubrangeActive /\ panelCurState # 2 =>
    /\ HasSubRange(panelCurState)
    /\ panelCurSubStates[0] \in
         0..subFunctionUpperRange[panelCurState] \cup {STAR_STATE}

\* The cursor of function 02 is at its first level whenever function 02 is not
\* open, so that the next edit starts there.
CursorReset == Running /\ ~Editing02 => levelToOperate = 0

\* Service switch 1 is set exactly while 25 is the last function the panel
\* executed: every other execution, also those of function 01 by a signal,
\* takes it back, and a second 25 does not toggle it off.
ServiceSwitchIffLast25 == serviceSwitch1State <=> lastExecuted = 25

\* CE mode and an armed service switch exclude each other.
SwitchAndCEModeExclusive ==
  ~(serviceSwitch1State /\ CE \in systemState)

\* CE mode is entered only by function 26 directly after function 25.
CEModeNeeds25Then26 ==
  [][(CE \in systemState' \ systemState)
       => lastExecuted = 25 /\ call'.function = 26 /\ call'.ok]_vars

\* A function with a debounce SRC (reboot, shutdown, dumps, ...) is executed at
\* the panel only by the button press that directly follows the one which showed
\* that SRC for this very function, and once.
ExecutedOnlyWhenConfirmed ==
  [][call'.via = "panel" /\ call'.function \in Debounce
       => prompted = call'.function /\ prompted' = 0]_vars

\* The sub function executed for 63 and 64 is one of the stored entries (or 0 when
\* there is none), though entries arrive while the sub range is open; for the
\* others it is in the sub range of the table.
ExecutedSubFunctionExists ==
  call.via = "panel" =>
    /\ call.function = 63 => call.subs[0] < iplSrcs \/ call.subs[0] = 0
    /\ call.function = 64 => call.subs[0] < pelEventIds \/ call.subs[0] = 0
    /\ call.function \in {30, 55} => call.subs[0] <= SubRangeEnd[call.function]

\* Function 02 writes at least one parameter, only parameters the operator
\* changed, and only values of the lists it offers.
OnlyChangesAreWritten ==
  [][call'.function = 2 =>
       /\ \E level \in Levels : call'.subs[level] # INVALID_STATE
       /\ \A level \in Levels :
            \/ call'.subs[level] = INVALID_STATE
            \/ /\ call'.subs[level] < Choices[level]
               /\ call'.subs[level] # initialValues[level]]_vars

\* An enabled call out function has its entry in callOutList: what the comment in
\* execute14to19 relies on.
EnabledCallOutExists ==
  \A f \in functionActiveState \cap (14..19) : ~CallOutMissing(f)

\* The comment in execute14to19 as it is used: "size check is not done here as
\* functions are enabled based on count of entries in this vector", so reading
\* the vector never fails.
CallOutReadNeverFails == process # "callOut"

\* What initFunction02 plans for system values it cannot read ("TODO: Display FF"):
\* the failure is shown, it does not end the process.
UnreadableValuesAreShown == process # "function02"

\* The dialogue with the function at the cursor, as Menu sees it.
Dialogue ==
  CASE isSubrangeActive -> "open"
    [] ~isSubrangeActive /\ panelCurSubStates[0] = DEBOUNCE_SRC_STATE -> "asked"
    [] OTHER -> "none"

\* The functions that EXECUTE opens.
OpeningFunctions == {f \in Functions : f \in {2, 63, 64} \/ SubRangeEnd[f] # INITIAL_STATE}

M == INSTANCE Menu WITH
  Confirmed <- Debounce,
  Dialogues <- OpeningFunctions,
  running <- Running,
  enabled <- functionActiveState,
  cursor <- panelCurState,
  dialogue <- Dialogue,
  ceMode <- CE \in systemState,
  request <- [function |-> call.function, by |-> call.via]

\* The menu does what it promises: the operator walks the circle of enabled functions,
\* a function is executed only at the cursor and after the question it asks, and no
\* signal, reset or stored entry moves the cursor inside a dialogue, ends one or answers
\* it, although all dialogues share three sub states and one flag.
ImplementsMenu == M!Spec
=============================================================================
