------------------------ MODULE PanelExecutionProofs ------------------------
(* What the menu makes the executor do, proved for every table and every set *)
(* of readings: service switch 1 and CE mode, the confirmation of functions  *)
(* with a debounce SRC, the call outs, and the type invariant of the menu.   *)
EXTENDS Function02, PanelStateManagerProofs

-----------------------------------------------------------------------------
(* Every step executes at most one function. The conditions under which it   *)
(* does are what the properties below rest on.                               *)

SubStateArrays == [Levels -> SubStates]

NothingExecuted ==
  /\ \/ call' = NoCall
     \/ \E f \in Functions, ok \in BOOLEAN :
          call' = [function |-> f, subs |-> NoSubStates, via |-> "remote", ok |-> ok]
  /\ UNCHANGED <<lastExecuted, serviceSwitch1State>>
  /\ CE \in systemState' => CE \in systemState

\* 25 is executed only if it arms the switch, CE mode is entered only by 26 and
\* only with the switch armed, a debounced function is executed only after its
\* prompt.
FunctionExecuted ==
  \E f \in Functions, subs \in SubStateArrays, ok \in BOOLEAN :
    /\ ExecuteFunction(f, subs, ok)
    /\ f = 25 => ~serviceSwitch1State /\ CE \notin systemState'
    /\ CE \in systemState' \ systemState => f = 26 /\ ok /\ serviceSwitch1State
    /\ f \in Debounce => prompted = f /\ prompted' = 0

ProcessStarted ==
  /\ call' = NoCall /\ lastExecuted' = 0 /\ serviceSwitch1State' = FALSE
  /\ CE \notin systemState'

CallTypes ==
  /\ serviceSwitch1State \in BOOLEAN
  /\ osIplMode \in BOOLEAN
  /\ call \in [function : Functions \cup {0}, subs : [Levels -> SubStates],
               via : {"none", "panel", "remote"}, ok : BOOLEAN]
  /\ lastExecuted \in Functions \cup {0}

CallInv ==
  /\ CallTypes
  /\ ServiceSwitchIffLast25
  /\ SwitchAndCEModeExclusive

\* The steps of FunctionAccess that are not about CE mode leave it alone.
LEMMA CEModeKept ==
  /\ \A bit \in Bits \ {CE}, on \in BOOLEAN :
       SetBit(bit, on) => (CE \in systemState' <=> CE \in systemState)
  /\ UNCHANGED accessVars => (CE \in systemState' <=> CE \in systemState)
<1>1. \A bit \in Bits \ {CE}, on \in BOOLEAN :
        SetBit(bit, on) => (CE \in systemState' <=> CE \in systemState)
  BY DEF SetBit
<1>2. UNCHANGED accessVars => (CE \in systemState' <=> CE \in systemState)
  BY DEF accessVars
<1> QED BY <1>1, <1>2

\* Function 01 executed by a signal.
LEMMA Function01Executed ==
  ASSUME NEW ok \in BOOLEAN, ExecuteFunction(1, NoSubStates, ok),
         CE \in systemState' => CE \in systemState
  PROVE  FunctionExecuted
<1>1. 1 \in Functions /\ 1 \notin Debounce /\ NoSubStates \in SubStateArrays
  BY TableFacts, MenuConstants DEF SubStateArrays
<1> QED BY <1>1 DEF FunctionExecuted

LEMMA SignalStep ==
  ASSUME CallTypes,
         \/ BMCStateChanged \/ PowerStateChanged \/ BootProgressChanged
         \/ OperatingModeChanged \/ PhypListReceived \/ PelReceived \/ LastPelDeleted
         \/ ProgressCodeReceived \/ OSIPLModeChanged \/ UncaughtException
  PROVE  NothingExecuted \/ FunctionExecuted
<1>1. CE \in systemState' => CE \in systemState
  <2>1. {Standby, Power, Runtime, Manual} \subseteq Bits \ {CE}
    BY DEF Standby, Power, Runtime, Manual, CE, Bits
  <2>2. \/ \E bit \in Bits \ {CE}, on \in BOOLEAN : SetBit(bit, on)
        \/ UNCHANGED accessVars
        \/ UNCHANGED systemState
    <3>1. CASE BMCStateChanged \/ PowerStateChanged
      BY <2>1, <3>1 DEF BMCStateChanged, PowerStateChanged, UpdateBMCState, UpdatePowerState
    <3>2. CASE BootProgressChanged \/ OperatingModeChanged
      BY <2>1, <3>2 DEF BootProgressChanged, OperatingModeChanged,
                        UpdateBootProgressState, SetSystemOperatingMode
    <3>3. CASE \/ PhypListReceived \/ PelReceived \/ LastPelDeleted
               \/ ProgressCodeReceived \/ OSIPLModeChanged \/ UncaughtException
      BY <3>3 DEF PhypListReceived, PelReceived, LastPelDeleted, ProgressCodeReceived,
                  OSIPLModeChanged, UncaughtException, accessVars, ToggleFuncStateFromPhyp,
                  SetPelRelatedFunctionState, PelWithoutResolution, PelDeleted
    <3> QED BY <3>1, <3>2, <3>3
  <2> QED BY <2>2, CEModeKept
<1>2. ExecuteNothing \/ \E ok \in BOOLEAN : ExecuteFunction(1, NoSubStates, ok)
  <2>1. Results(1) = BOOLEAN
    BY DEF Results
  <2> QED BY <2>1
      DEF BMCStateChanged, PowerStateChanged, BootProgressChanged, OperatingModeChanged,
          PhypListReceived, PelReceived, LastPelDeleted, ProgressCodeReceived,
          OSIPLModeChanged, UncaughtException
<1>3. CASE ExecuteNothing
  BY <1>1, <1>3 DEF ExecuteNothing, NothingExecuted
<1>4. CASE \E ok \in BOOLEAN : ExecuteFunction(1, NoSubStates, ok)
  BY <1>1, <1>4, Function01Executed
<1> QED BY <1>2, <1>3, <1>4

LEMMA ResultsAreBoolean == CallTypes => \A f \in Functions : Results(f) \subseteq BOOLEAN
BY DEF CallTypes, Results

\* A button press executes nothing, or the function the panel is at: then no
\* debounce SRC is awaited.
LEMMA ExecutedAtCurrent ==
  ASSUME MenuInv, NEW subs \in SubStateArrays, NEW ok \in BOOLEAN,
         ExecuteFunction(panelCurState, subs, ok),
         ~AwaitsPrompt, prompted' = 0,
         panelCurState = 25 => ~serviceSwitch1State /\ CE \notin systemState',
         CE \in systemState' \ systemState =>
           panelCurState = 26 /\ ok /\ serviceSwitch1State
  PROVE  FunctionExecuted
<1>1. panelCurState \in Functions
  BY DEF MenuInv, MenuTypes
<1>2. panelCurState \in Debounce => prompted = panelCurState
  BY DEF AwaitsPrompt, MenuInv, DebounceWasPrompted
<1> QED BY <1>1, <1>2 DEF FunctionExecuted

LEMMA CommitStep ==
  ASSUME MenuInv, CallTypes, panelCurState = 2, prompted' = 0, CommitFunction02
  PROVE  NothingExecuted \/ FunctionExecuted
<1>1. CE \in systemState' => CE \in systemState
  <2>1. Manual \in Bits \ {CE} /\ (Selected[1] = 0) \in BOOLEAN
    BY DEF Manual, CE, Bits
  <2>2. UNCHANGED accessVars \/ SetBit(Manual, Selected[1] = 0)
    BY DEF CommitFunction02
  <2> QED BY <2>1, <2>2, CEModeKept
<1>2. CASE ExecuteNothing
  BY <1>1, <1>2 DEF ExecuteNothing, NothingExecuted
<1>3. CASE \E ok \in Results(2) : ExecuteFunction(2, Selected, ok)
  <2>1. PICK ok \in BOOLEAN : ExecuteFunction(2, Selected, ok)
    BY <1>3 DEF Results
  <2>2. Selected \in SubStateArrays
    BY MenuConstants DEF Selected, SubStateArrays, MenuInv, MenuTypes
  <2>3. ~AwaitsPrompt
    BY TableFacts DEF AwaitsPrompt
  <2> QED BY <1>1, <2>1, <2>2, <2>3, ExecutedAtCurrent
<1> QED BY <1>2, <1>3 DEF CommitFunction02

LEMMA SubFunctionStep ==
  ASSUME MenuInv, CallTypes, ExecuteSubFunction
  PROVE  FunctionExecuted
<1>1. /\ panelCurState \in Functions /\ panelCurSubStates \in SubStateArrays
      /\ ~AwaitsPrompt /\ HasSubRange(panelCurState) /\ prompted' = 0
      /\ UNCHANGED accessVars
  BY DEF ExecuteSubFunction, AtSubRange, MenuInv, MenuTypes, SubStateArrays
<1>2. PICK ok \in BOOLEAN : ExecuteFunction(panelCurState, panelCurSubStates, ok)
  BY <1>1, ResultsAreBoolean DEF ExecuteSubFunction
\* 25 and 26 have no sub functions.
<1>3. panelCurState # 25
  BY <1>1, TableFacts DEF MenuInv, FixedSubRanges, HasSubRange, INITIAL_STATE
<1> QED BY <1>1, <1>2, <1>3, CEModeKept, ExecutedAtCurrent

LEMMA PlainFunctionStep ==
  ASSUME MenuInv, CallTypes, ExecutePlainFunction
  PROVE  FunctionExecuted
<1>1. /\ panelCurState \in Functions \ {25, 26} /\ ~AwaitsPrompt /\ prompted' = 0
      /\ UNCHANGED accessVars
      /\ panelCurSubStates' \in SubStateArrays
  BY MenuConstants DEF ExecutePlainFunction, AtPlainFunction, MenuInv, MenuTypes, SubStateArrays
<1>2. PICK ok \in BOOLEAN : ExecuteFunction(panelCurState, panelCurSubStates', ok)
  BY <1>1, ResultsAreBoolean DEF ExecutePlainFunction
<1> QED BY <1>1, <1>2, CEModeKept, ExecutedAtCurrent

\* setCEState, one step per disjunct.
LEMMA CEStateStep ==
  ASSUME MenuInv, CallInv, SetCEState
  PROVE  NothingExecuted \/ FunctionExecuted
<1>1. /\ panelCurState \in Functions /\ panelCurState \in {25, 26}
      /\ ~AwaitsPrompt /\ prompted' = 0
      /\ panelCurSubStates' \in SubStateArrays
      /\ serviceSwitch1State \in BOOLEAN /\ CallTypes
  BY MenuConstants
  DEF SetCEState, AtPlainFunction, MenuInv, MenuTypes, SubStateArrays, CallInv, CallTypes
<1>2. ASSUME ClearCEMode,
             \E ok \in Results(panelCurState) :
               ExecuteFunction(panelCurState, panelCurSubStates', ok)
      PROVE  FunctionExecuted
  <2>1. CE \in systemState /\ CE \notin systemState' /\ ~serviceSwitch1State
    BY <1>2 DEF ClearCEMode, SetBit, CallInv, SwitchAndCEModeExclusive
  <2>2. PICK ok \in BOOLEAN : ExecuteFunction(panelCurState, panelCurSubStates', ok)
    BY <1>1, <1>2, ResultsAreBoolean
  <2> QED BY <1>1, <2>1, <2>2, ExecutedAtCurrent
<1>3. ASSUME serviceSwitch1State, panelCurState = 26,
             \E ok \in Results(26) : ExecuteFunction(26, panelCurSubStates', ok)
      PROVE  FunctionExecuted
  <2>1. PICK ok \in BOOLEAN : ok /\ ExecuteFunction(panelCurState, panelCurSubStates', ok)
    BY <1>3 DEF Results
  <2>2. panelCurState = 26 /\ ok /\ serviceSwitch1State
    BY <1>3, <2>1
  <2>3. ~(panelCurState = 25)
    BY <1>3
  <2> QED BY <1>1, <2>1, <2>2, <2>3, ExecutedAtCurrent
<1>4. ASSUME ExecuteNothing, UNCHANGED accessVars
      PROVE  NothingExecuted
  BY <1>4, CEModeKept DEF ExecuteNothing, NothingExecuted
<1>5. ASSUME CE \notin systemState, ~serviceSwitch1State, UNCHANGED accessVars,
             \E ok \in Results(panelCurState) :
               ExecuteFunction(panelCurState, panelCurSubStates', ok)
      PROVE  FunctionExecuted
  <2>1. PICK ok \in BOOLEAN : ExecuteFunction(panelCurState, panelCurSubStates', ok)
    BY <1>1, <1>5, ResultsAreBoolean
  <2> QED BY <1>1, <1>5, <2>1, CEModeKept, ExecutedAtCurrent
<1> QED BY <1>2, <1>3, <1>4, <1>5 DEF SetCEState

LEMMA ButtonStep ==
  ASSUME MenuInv, CallInv, PressMove \/ PressExecute
  PROVE  NothingExecuted \/ FunctionExecuted
<1>1. CallTypes
  BY DEF CallInv
<1>2. CASE \/ PressMove \/ ShowDebounce \/ EnterSubRange \/ ExitSubRange
           \/ (ExecuteFunction02 /\ (EnterFunction02 \/ NextLevel))
  <2>1. ExecuteNothing /\ UNCHANGED accessVars
    BY <1>2 DEF PressMove, Move, ShowDebounce, EnterSubRange, ExitSubRange,
                EnterFunction02, NextLevel, accessVars
  <2> QED BY <2>1, CEModeKept DEF ExecuteNothing, NothingExecuted
<1>3. CASE ExecuteFunction02 /\ CommitFunction02
  BY <1>1, <1>3, CommitStep DEF ExecuteFunction02
<1>4. CASE ExecuteSubFunction \/ ExecutePlainFunction \/ SetCEState
  BY <1>1, <1>4, SubFunctionStep, PlainFunctionStep, CEStateStep
<1> QED BY <1>2, <1>3, <1>4 DEF PressExecute, ExecuteFunction02

LEMMA NextExecutes ==
  ASSUME MenuInv, CallInv, Next
  PROVE  NothingExecuted \/ FunctionExecuted \/ ProcessStarted
<1>1. CallTypes
  BY DEF CallInv
<1>2. CASE FunctionTriggered
  <2>1. EnabledFunctionsList \subseteq Functions
    BY DEF EnabledFunctionsList, RemoteAccessEnabled
  <2>2. CE \in systemState' <=> CE \in systemState
    BY <1>2 DEF FunctionTriggered, accessVars
  <2> QED BY <1>2, <2>1, <2>2 DEF FunctionTriggered, NothingExecuted
<1>3. CASE Restart
  <2>1. CE \notin systemState'
    BY <1>3 DEF Restart, StartState, CE, Manual, Standby, Runtime, Power
  <2> QED BY <1>3, <2>1 DEF Restart, ProcessStarted
<1> QED BY <1>1, <1>2, <1>3, ButtonStep, SignalStep DEF Next

-----------------------------------------------------------------------------
(* Service switch 1 and CE mode.                                             *)

LEMMA OsIplModeTyped == osIplMode \in BOOLEAN /\ Next => osIplMode' \in BOOLEAN
<1> SUFFICES ASSUME osIplMode \in BOOLEAN, Next PROVE osIplMode' \in BOOLEAN
  OBVIOUS
<1>1. CASE PressMove \/ PressExecute
  BY <1>1 DEF PressMove, Move, PressExecute, ExecuteFunction02, ShowDebounce,
              EnterSubRange, ExitSubRange, ExecuteSubFunction, ExecutePlainFunction,
              SetCEState, AtPlainFunction
<1>2. CASE \/ BMCStateChanged \/ PowerStateChanged \/ BootProgressChanged
           \/ OperatingModeChanged \/ PhypListReceived \/ PelReceived \/ LastPelDeleted
           \/ ProgressCodeReceived \/ FunctionTriggered \/ UncaughtException
  BY <1>2 DEF BMCStateChanged, PowerStateChanged, BootProgressChanged,
              OperatingModeChanged, PhypListReceived, PelReceived, LastPelDeleted,
              ProgressCodeReceived, FunctionTriggered, UncaughtException
<1>3. CASE OSIPLModeChanged \/ Restart
  BY <1>3 DEF OSIPLModeChanged, Restart
<1> QED BY <1>1, <1>2, <1>3 DEF Next

LEMMA NoCallTyped ==
  NoCall \in [function : Functions \cup {0}, subs : [Levels -> SubStates],
              via : {"none", "panel", "remote"}, ok : BOOLEAN]
BY MenuConstants DEF NoCall

LEMMA NextKeepsCallInv == MenuInv /\ CallInv /\ [Next]_vars => CallInv'
<1> SUFFICES ASSUME MenuInv, CallInv, [Next]_vars PROVE CallInv'
  OBVIOUS
<1> DEFINE Calls == [function : Functions \cup {0}, subs : [Levels -> SubStates],
                     via : {"none", "panel", "remote"}, ok : BOOLEAN]
<1>1. CASE UNCHANGED vars
  BY <1>1 DEF vars, accessVars, callVars, CallInv, CallTypes, ServiceSwitchIffLast25,
              SwitchAndCEModeExclusive
<1>2. CASE Next
  <2>1. osIplMode' \in BOOLEAN
    BY <1>2, OsIplModeTyped DEF CallInv, CallTypes
  <2>2. CASE NothingExecuted
    <3>1. call' \in Calls
      <4>1. CASE call' = NoCall
        BY <4>1, NoCallTyped
      <4>2. ASSUME NEW f \in Functions, NEW ok \in BOOLEAN,
                   call' = [function |-> f, subs |-> NoSubStates, via |-> "remote", ok |-> ok]
            PROVE  call' \in Calls
        BY <4>2, MenuConstants
      <4> QED BY <2>2, <4>1, <4>2 DEF NothingExecuted
    <3>2. /\ UNCHANGED <<lastExecuted, serviceSwitch1State>>
          /\ CE \in systemState' => CE \in systemState
      BY <2>2 DEF NothingExecuted
    <3> QED BY <2>1, <3>1, <3>2
            DEF CallInv, CallTypes, ServiceSwitchIffLast25, SwitchAndCEModeExclusive
  <2>3. CASE FunctionExecuted
    <3>1. PICK f \in Functions, subs \in SubStateArrays, ok \in BOOLEAN :
            /\ ExecuteFunction(f, subs, ok)
            /\ f = 25 => ~serviceSwitch1State /\ CE \notin systemState'
      BY <2>3 DEF FunctionExecuted
    <3>2. /\ call' = [function |-> f, subs |-> subs, via |-> "panel", ok |-> ok]
          /\ lastExecuted' = f
          /\ serviceSwitch1State' = (f = 25 /\ ~serviceSwitch1State)
      BY <3>1 DEF ExecuteFunction
    <3>3. call' \in Calls
      BY <3>2 DEF SubStateArrays
    <3>4. serviceSwitch1State' = (f = 25)
      BY <3>1, <3>2
    <3>5. ServiceSwitchIffLast25'
      BY <3>2, <3>4 DEF ServiceSwitchIffLast25
    <3>6. SwitchAndCEModeExclusive'
      BY <3>1, <3>4 DEF SwitchAndCEModeExclusive
    <3>7. lastExecuted' \in Functions \cup {0} /\ serviceSwitch1State' \in BOOLEAN
      BY <3>2, <3>4
    <3> QED BY <2>1, <3>3, <3>5, <3>6, <3>7 DEF CallInv, CallTypes
  <2>4. CASE ProcessStarted
    <3>1. call' \in Calls /\ lastExecuted' = 0 /\ serviceSwitch1State' = FALSE
      BY <2>4, NoCallTyped DEF ProcessStarted
    <3>2. CallTypes'
      BY <2>1, <3>1 DEF CallTypes
    <3>3. ServiceSwitchIffLast25' /\ SwitchAndCEModeExclusive'
      BY <3>1 DEF ServiceSwitchIffLast25, SwitchAndCEModeExclusive
    <3> QED BY <3>2, <3>3 DEF CallInv
  <2> QED BY <1>2, <2>2, <2>3, <2>4, NextExecutes
<1> QED BY <1>1, <1>2

LEMMA InitCallInv == Init => CallInv
<1> SUFFICES ASSUME Init PROVE CallInv
  OBVIOUS
<1>1. CallTypes
  BY NoCallTyped DEF Init, InitMenu, CallTypes
<1>2. ServiceSwitchIffLast25 /\ SwitchAndCEModeExclusive
  BY DEF Init, InitMenu, ServiceSwitchIffLast25, SwitchAndCEModeExclusive
<1> QED BY <1>1, <1>2 DEF CallInv

-----------------------------------------------------------------------------
(* The call outs: no recomputation of the masks enables one of their         *)
(* functions, so only the PEL listener does, and it stores the entries, too. *)

LEMMA CallOutsHaveNoMask ==
  ASSUME NEW f \in 14..19, f \in Functions
  PROVE  f \notin Masked /\ f \in PelFunctions /\ f \notin DefaultEnabled /\ EnableMask[f] = {}
BY UnconditionalAssumption, SubRangeAssumption DEF Masked, PelFunctions

LEMMA StatusKeepsCallOuts ==
  ASSUME AccessTypeOK, NEW f \in 14..19,
         \/ \E bit \in SystemBits, on \in BOOLEAN : SetBit(bit, on)
         \/ \E list \in PhypLists : ToggleFuncStateFromPhyp(list)
         \/ UNCHANGED accessVars,
         f \in functionActiveState'
  PROVE  f \in functionActiveState
<1>1. \A state, byPhyp : f \in UpdateFunctionStatus(state, byPhyp) => f \in functionActiveState
  BY CallOutsHaveNoMask DEF UpdateFunctionStatus, Masked
<1> QED BY <1>1 DEF SetBit, ToggleFuncStateFromPhyp, accessVars

LEMMA PelReceivedCallOuts ==
  ASSUME AccessTypeOK, SrcTypes, EnabledCallOutExists, PelReceived
  PROVE  EnabledCallOutExists'
<1>0. callOuts' \in 0..6
  <2>1. \A n \in CallOutCounts : n + 1 \in 0..6
    BY TableAssumption
  <2> QED BY <2>1 DEF PelReceived, SrcTypes
<1> SUFFICES ASSUME NEW f \in 14..19, f \in functionActiveState'
             PROVE  f - 14 < callOuts'
  BY <1>0 DEF EnabledCallOutExists, CallOutMissing
<1> DEFINE active(n) == DisableFunctonality(functionActiveState, (14 + n)..19)
<1>1. ASSUME NEW n \in CallOutCounts, SetPelRelatedFunctionState(n), callOuts' = n + 1
      PROVE  f - 14 < callOuts'
  <2>1. n \in 0..5
    BY TableAssumption
  <2>2. f \in active(n) \/ f \in 11..(13 + n)
    BY <1>1 DEF SetPelRelatedFunctionState, EnableFunctonality
  <2>3. ASSUME f \in active(n) PROVE f \notin (14 + n)..19
    <3>1. f \in Functions
      BY <2>3 DEF DisableFunctonality, AccessTypeOK
    <3> QED BY <2>3, <3>1, CallOutsHaveNoMask DEF DisableFunctonality
  <2>4. f <= 13 + n
    BY <2>1, <2>2, <2>3
  <2> QED BY <1>1, <2>1, <2>4
<1>2. ASSUME PelWithoutResolution, UNCHANGED callOuts
      PROVE  f - 14 < callOuts'
  <2>1. f \in functionActiveState
    BY <1>2 DEF PelWithoutResolution, EnableFunctonality
  <2> QED BY <1>2, <2>1 DEF EnabledCallOutExists, CallOutMissing, SrcTypes
<1> QED BY <1>1, <1>2 DEF PelReceived

LEMMA NextKeepsCallOuts ==
  ASSUME AccessTypeOK, SrcTypes, EnabledCallOutExists, [Next]_vars
  PROVE  EnabledCallOutExists'
<1>1. CASE PelReceived
  BY <1>1, PelReceivedCallOuts
<1>2. CASE LastPelDeleted
  <2>1. functionActiveState' = DisableFunctonality(functionActiveState, PelFunctions)
    BY <1>2 DEF LastPelDeleted, PelDeleted
  <2>2. ASSUME NEW f \in 14..19, f \in functionActiveState' PROVE FALSE
    BY <2>1, <2>2, CallOutsHaveNoMask DEF DisableFunctonality, AccessTypeOK
  <2> QED BY <2>2 DEF EnabledCallOutExists
<1>3. CASE Restart
  <2>1. ASSUME NEW f \in 14..19, f \in functionActiveState' PROVE FALSE
    <3>1. f \in Functions /\ (f \in Masked \/ f \in DefaultEnabled)
      BY <1>3, <2>1, TableAssumption DEF Restart, StartActive, Masked
    <3> QED BY <3>1, CallOutsHaveNoMask
  <2> QED BY <2>1 DEF EnabledCallOutExists
<1>4. ASSUME UNCHANGED callOuts,
             \/ \E bit \in SystemBits, on \in BOOLEAN : SetBit(bit, on)
             \/ \E list \in PhypLists : ToggleFuncStateFromPhyp(list)
             \/ UNCHANGED accessVars
      PROVE  EnabledCallOutExists'
  <2> SUFFICES ASSUME NEW f \in functionActiveState' \cap (14..19)
               PROVE  ~CallOutMissing(f)'
    BY DEF EnabledCallOutExists
  <2>1. f \in functionActiveState
    BY <1>4, StatusKeepsCallOuts
  <2> QED BY <1>4, <2>1 DEF EnabledCallOutExists, CallOutMissing
<1>5. CASE UNCHANGED vars
  BY <1>4, <1>5 DEF vars, srcVars
<1>6. CASE Next /\ ~PelReceived /\ ~LastPelDeleted /\ ~Restart
  <2>1. UNCHANGED callOuts
    BY <1>6 DEF Next, PressMove, Move, PressExecute, ExecuteFunction02, ShowDebounce,
                EnterSubRange, ExitSubRange, ExecuteSubFunction, ExecutePlainFunction,
                SetCEState, AtPlainFunction, BMCStateChanged, PowerStateChanged,
                BootProgressChanged, OperatingModeChanged, PhypListReceived,
                ProgressCodeReceived, OSIPLModeChanged, FunctionTriggered,
                UncaughtException, srcVars
  <2>2. \/ \E bit \in SystemBits, on \in BOOLEAN : SetBit(bit, on)
        \/ \E list \in PhypLists : ToggleFuncStateFromPhyp(list)
        \/ UNCHANGED accessVars
    BY <1>6, NextIsStatusStep DEF StatusPartStep
  <2> QED BY <1>4, <2>1, <2>2
<1> QED BY <1>1, <1>2, <1>3, <1>5, <1>6

LEMMA InitCallOuts == Init => EnabledCallOutExists
<1> SUFFICES ASSUME Init, NEW f \in functionActiveState \cap (14..19) PROVE FALSE
  BY DEF EnabledCallOutExists
<1>1. f \in Functions /\ (f \in Masked \/ f \in DefaultEnabled)
  BY TableAssumption DEF Init, AccessInit, StartActive, Masked
<1> QED BY <1>1, CallOutsHaveNoMask

-----------------------------------------------------------------------------
(* The invariant of the whole program and the theorems.                      *)

PanelInv ==
  /\ AccessInv
  /\ MenuInv
  /\ SrcTypes
  /\ CallInv
  /\ EnabledCallOutExists

LEMMA InitPanelInv == Init => PanelInv
<1> SUFFICES ASSUME Init PROVE PanelInv
  OBVIOUS
<1>1. AccessInv /\ MenuInv
  BY InitAccessInv, InitMenuInv DEF Init
<1>2. SrcTypes
  BY MenuAssumption DEF Init, InitMenu, SrcTypes
<1> QED BY <1>1, <1>2, InitCallInv, InitCallOuts DEF PanelInv

LEMMA NextKeepsPanelInv == PanelInv /\ [Next]_vars => PanelInv'
<1> SUFFICES ASSUME PanelInv, [Next]_vars PROVE PanelInv'
  OBVIOUS
<1>1. AccessInv' /\ MenuInv' /\ SrcTypes' /\ CallInv'
  BY NextKeepsAccessInv, NextKeepsMenuInv, NextKeepsSrcTypes, NextKeepsCallInv DEF PanelInv
<1>2. EnabledCallOutExists'
  BY NextKeepsCallOuts DEF PanelInv, AccessInv
<1> QED BY <1>1, <1>2 DEF PanelInv

LEMMA PanelInvariance == Spec => []PanelInv
BY InitPanelInv, NextKeepsPanelInv, PTL DEF Spec

\* Every variable of the menu keeps its type.
THEOREM MenuTypeCorrectness == Spec => []MenuTypeOK
<1>1. PanelInv => MenuTypeOK
  BY DEF PanelInv, AccessInv, MenuInv, MenuTypes, SrcTypes, CallInv, CallTypes, MenuTypeOK
<1> QED BY <1>1, PanelInvariance, PTL

\* Service switch 1 is armed exactly while function 25 is the last one executed,
\* and never in CE mode.
THEOREM ServiceSwitch == Spec => [](ServiceSwitchIffLast25 /\ SwitchAndCEModeExclusive)
<1>1. PanelInv => ServiceSwitchIffLast25 /\ SwitchAndCEModeExclusive
  BY DEF PanelInv, CallInv
<1> QED BY <1>1, PanelInvariance, PTL

\* A call out function that is enabled has its entry in callOutList.
THEOREM CallOuts == Spec => []EnabledCallOutExists
<1>1. PanelInv => EnabledCallOutExists
  BY DEF PanelInv
<1> QED BY <1>1, PanelInvariance, PTL

\* CE mode is entered only by function 26 directly after function 25.
THEOREM CEModeOnlyBy25Then26 == Spec => CEModeNeeds25Then26
<1> DEFINE Entered == (CE \in systemState' \ systemState)
                        => lastExecuted = 25 /\ call'.function = 26 /\ call'.ok
<1>1. ASSUME PanelInv, [Next]_vars PROVE [Entered]_vars
  <2>1. CASE UNCHANGED vars
    BY <2>1
  <2>2. CASE NothingExecuted \/ ProcessStarted
    BY <2>2 DEF NothingExecuted, ProcessStarted
  <2>3. CASE FunctionExecuted
    <3> SUFFICES ASSUME CE \in systemState' \ systemState
                 PROVE  lastExecuted = 25 /\ call'.function = 26 /\ call'.ok
      OBVIOUS
    <3>1. PICK f \in Functions, subs \in SubStateArrays, ok \in BOOLEAN :
            ExecuteFunction(f, subs, ok) /\ f = 26 /\ ok /\ serviceSwitch1State
      BY <2>3 DEF FunctionExecuted
    <3>2. call' = [function |-> 26, subs |-> subs, via |-> "panel", ok |-> ok]
      BY <3>1 DEF ExecuteFunction
    <3>3. lastExecuted = 25
      BY <3>1, <1>1 DEF PanelInv, CallInv, ServiceSwitchIffLast25
    <3> QED BY <3>1, <3>2, <3>3
  <2> QED BY <1>1, <2>1, <2>2, <2>3, NextExecutes DEF PanelInv
<1> QED BY <1>1, PanelInvariance, PTL DEF Spec, CEModeNeeds25Then26

\* A function with a debounce SRC is executed at the panel only by the press that
\* follows its prompt.
THEOREM DebounceConfirmed == Spec => ExecutedOnlyWhenConfirmed
<1> DEFINE Confirmed == call'.via = "panel" /\ call'.function \in Debounce
                          => prompted = call'.function /\ prompted' = 0
<1>1. ASSUME PanelInv, [Next]_vars PROVE [Confirmed]_vars
  <2>1. CASE UNCHANGED vars
    BY <2>1
  <2>2. CASE NothingExecuted \/ ProcessStarted
    <3>1. call'.via # "panel"
      BY <2>2 DEF NothingExecuted, ProcessStarted, NoCall
    <3> QED BY <3>1
  <2>3. CASE FunctionExecuted
    <3>1. PICK f \in Functions, subs \in SubStateArrays, ok \in BOOLEAN :
            ExecuteFunction(f, subs, ok) /\ (f \in Debounce => prompted = f /\ prompted' = 0)
      BY <2>3 DEF FunctionExecuted
    <3>2. call'.function = f
      BY <3>1 DEF ExecuteFunction
    <3> QED BY <3>1, <3>2
  <2> QED BY <1>1, <2>1, <2>2, <2>3, NextExecutes DEF PanelInv
<1> QED BY <1>1, PanelInvariance, PTL DEF Spec, ExecutedOnlyWhenConfirmed

-----------------------------------------------------------------------------
(* Function 02 is executed by its last EXECUTE only.                         *)

LEMMA CallIsNotFunction02 ==
  ASSUME ExecuteNothing \/ \E ok \in BOOLEAN : ExecuteFunction(1, NoSubStates, ok)
  PROVE  call'.function # 2
BY DEF ExecuteNothing, NoCall, ExecuteFunction

LEMMA WrittenByCommit ==
  ASSUME Next, call'.function = 2
  PROVE  \E ok \in BOOLEAN :
           /\ Running /\ Editing02
           /\ ~NothingSelected
           /\ ExecuteFunction(2, Selected, ok)
           /\ IF ok /\ Selected[1] # INVALID_STATE
              THEN SetBit(Manual, Selected[1] = 0)
              ELSE UNCHANGED accessVars
<1>1. ~PressMove
  BY CallIsNotFunction02 DEF PressMove, Move
<1>2. ~(ShowDebounce \/ EnterSubRange \/ ExitSubRange)
  BY CallIsNotFunction02 DEF ShowDebounce, EnterSubRange, ExitSubRange
<1>3. ~(ExecuteSubFunction \/ ExecutePlainFunction)
  BY DEF ExecuteSubFunction, ExecutePlainFunction, AtPlainFunction, AtSubRange, ExecuteFunction
<1>4. ~SetCEState
  BY CallIsNotFunction02 DEF SetCEState, AtPlainFunction, ExecuteFunction
<1>5. ~(EnterFunction02 \/ NextLevel)
  BY CallIsNotFunction02 DEF EnterFunction02, NextLevel
<1>6. /\ ~BMCStateChanged /\ ~PowerStateChanged /\ ~BootProgressChanged
      /\ ~OperatingModeChanged /\ ~PhypListReceived /\ ~PelReceived /\ ~LastPelDeleted
      /\ ~ProgressCodeReceived /\ ~OSIPLModeChanged /\ ~UncaughtException
  <2>1. Results(1) = BOOLEAN
    BY DEF Results
  <2> QED BY <2>1, CallIsNotFunction02
          DEF BMCStateChanged, PowerStateChanged, BootProgressChanged, OperatingModeChanged,
              PhypListReceived, PelReceived, LastPelDeleted, ProgressCodeReceived,
              OSIPLModeChanged, UncaughtException
<1>7. ~FunctionTriggered
  <2>1. 2 \notin EnabledFunctionsList
    BY DEF EnabledFunctionsList, SupportedRemotely
  <2> QED BY <2>1 DEF FunctionTriggered
<1>8. ~Restart
  BY DEF Restart, NoCall
<1>9. ExecuteFunction02 /\ CommitFunction02
  BY <1>1, <1>2, <1>3, <1>4, <1>5, <1>6, <1>7, <1>8
  DEF Next, PressExecute, ExecuteFunction02
<1>10. ~ExecuteNothing
  BY CallIsNotFunction02
<1> QED BY <1>9, <1>10 DEF ExecuteFunction02, CommitFunction02, Editing02, Results

\* Function 02 writes at least one parameter, and only changed ones, out of its
\* lists of choices.
THEOREM ChangesOnly == Spec => OnlyChangesAreWritten
<1> DEFINE Written ==
      call'.function = 2 =>
        /\ \E level \in Levels : call'.subs[level] # INVALID_STATE
        /\ \A level \in Levels :
             \/ call'.subs[level] = INVALID_STATE
             \/ /\ call'.subs[level] < Choices[level]
                /\ call'.subs[level] # initialValues[level]
<1>1. ASSUME PanelInv, [Next]_vars PROVE [Written]_vars
  <2> SUFFICES ASSUME Next, call'.function = 2 PROVE Written
    BY <1>1
  <2>1. Running /\ Editing02 /\ ~NothingSelected /\ call'.subs = Selected
    BY WrittenByCommit DEF ExecuteFunction
  <2>2. ASSUME NEW level \in Levels, Selected[level] # INVALID_STATE
        PROVE  Selected[level] < Choices[level] /\ Selected[level] # initialValues[level]
    <3>1. /\ Selected[level] = panelCurSubStates[level]
          /\ Selected[level] # initialValues[level]
      BY <2>2 DEF Selected
    <3> QED BY <1>1, <2>1, <2>2, <3>1, MenuConstants DEF PanelInv, MenuInv, Edit02InRange
  <2> QED BY <2>1, <2>2 DEF NothingSelected
<1> QED BY <1>1, PanelInvariance, PTL DEF Spec, OnlyChangesAreWritten

-----------------------------------------------------------------------------
(* The sub functions of 63 and 64: an open sub range never reaches beyond    *)
(* the entries stored, because entries are only added while the process runs.*)

InStored(count, sub) == sub < count \/ sub = 0

OpenRangeIsStored ==
  Running /\ isSubrangeActive =>
    /\ panelCurState = 63 => InStored(iplSrcs, subFunctionUpperRange[63])
    /\ panelCurState = 64 => InStored(pelEventIds, subFunctionUpperRange[64])

LEMMA EntriesOnlyAdded ==
  ASSUME SrcTypes, Next, ~Restart
  PROVE  iplSrcs <= iplSrcs' /\ pelEventIds <= pelEventIds'
<1> USE MenuAssumption DEF SrcTypes
<1>1. \A new \in Nat : iplSrcs <= Stored(iplSrcs, new) /\ pelEventIds <= Stored(pelEventIds, new)
  BY DEF Stored
<1>2. CASE EnterSubRange
  <2>1. \A logged \in PelsLogged : pelEventIds <= Stored(pelEventIds, logged)
    BY <1>1
  <2> QED BY <1>2, <2>1 DEF EnterSubRange
<1>3. CASE ProgressCodeReceived
  BY <1>1, <1>3 DEF ProgressCodeReceived
<1>4. CASE ~EnterSubRange /\ ~ProgressCodeReceived
  <2>1. UNCHANGED <<iplSrcs, pelEventIds>>
    BY <1>4
    DEF Next, PressMove, Move, PressExecute, ExecuteFunction02, ShowDebounce,
        ExitSubRange, ExecuteSubFunction, ExecutePlainFunction, SetCEState,
        AtPlainFunction, BMCStateChanged, PowerStateChanged, BootProgressChanged,
        OperatingModeChanged, PhypListReceived, PelReceived, LastPelDeleted,
        OSIPLModeChanged, FunctionTriggered, UncaughtException, srcVars
  <2> QED BY <2>1
<1> QED BY <1>2, <1>3, <1>4

LEMMA EnterSubRangeIsStored ==
  ASSUME MenuInv, SrcTypes, EnterSubRange
  PROVE  OpenRangeIsStored'
<1> DEFINE count == IF panelCurState = 63 THEN iplSrcs ELSE pelEventIds'
<1>1. panelCurState \in Functions /\ UNCHANGED panelCurState
  BY DEF EnterSubRange, MenuInv, MenuTypes
<1>2. ASSUME panelCurState \in {63, 64}
      PROVE  subFunctionUpperRange'[panelCurState] = IF count # 0 THEN count - 1 ELSE count
  BY <1>1, <1>2 DEF EnterSubRange, MenuInv, MenuTypes
<1>3. iplSrcs' = iplSrcs /\ iplSrcs \in Nat
  BY MenuAssumption DEF EnterSubRange, SrcTypes
<1>4. pelEventIds' \in Nat
  <2>1. \A logged \in PelsLogged : Stored(pelEventIds, logged) \in 0..SrcLimit
    BY StoredInLimit, MenuAssumption DEF SrcTypes
  <2> QED BY <2>1, MenuAssumption DEF EnterSubRange, SrcTypes
<1>5. CASE panelCurState = 63
  BY <1>1, <1>2, <1>3, <1>5 DEF OpenRangeIsStored, InStored
<1>6. CASE panelCurState = 64
  BY <1>1, <1>2, <1>4, <1>6 DEF OpenRangeIsStored, InStored
<1>7. CASE panelCurState \notin {63, 64}
  BY <1>1, <1>7 DEF OpenRangeIsStored
<1> QED BY <1>5, <1>6, <1>7

\* No other step opens a sub range of 63 or 64, moves one, or takes an entry away.
LEMMA OthersKeepStored ==
  ASSUME MenuInv, SrcTypes, OpenRangeIsStored, Next, ~EnterSubRange, ~Restart
  PROVE  OpenRangeIsStored'
<1> SUFFICES ASSUME Running', isSubrangeActive', panelCurState' \in {63, 64}
             PROVE  /\ panelCurState' = 63 => InStored(iplSrcs', subFunctionUpperRange'[63])
                    /\ panelCurState' = 64 => InStored(pelEventIds', subFunctionUpperRange'[64])
  BY DEF OpenRangeIsStored
<1>1. Running
  BY DEF Next, PressMove, PressExecute, ExecuteFunction02, ShowDebounce, ExitSubRange,
         ExecuteSubFunction, ExecutePlainFunction, SetCEState, AtPlainFunction,
         BMCStateChanged, PowerStateChanged, BootProgressChanged, OperatingModeChanged,
         PhypListReceived, PelReceived, LastPelDeleted, ProgressCodeReceived,
         OSIPLModeChanged, FunctionTriggered, UncaughtException
<1>2. UNCHANGED subFunctionUpperRange
  BY DEF Next, PressMove, Move, PressExecute, ExecuteFunction02, ShowDebounce,
         ExitSubRange, ExecuteSubFunction, ExecutePlainFunction, SetCEState,
         AtPlainFunction, BMCStateChanged, PowerStateChanged, BootProgressChanged,
         OperatingModeChanged, PhypListReceived, PelReceived, LastPelDeleted,
         ProgressCodeReceived, OSIPLModeChanged, FunctionTriggered, UncaughtException,
         MenuUnchanged
<1>3. isSubrangeActive /\ panelCurState' = panelCurState
  <2>1. CASE PressMove
    BY <2>1 DEF PressMove, Move, Editing02
  <2>2. CASE ExecuteFunction02
    BY <2>2 DEF ExecuteFunction02
  <2>3. CASE \/ ShowDebounce \/ ExitSubRange \/ ExecuteSubFunction
             \/ ExecutePlainFunction \/ SetCEState
    BY <2>3 DEF ShowDebounce, ExitSubRange, ExecuteSubFunction, ExecutePlainFunction,
                SetCEState, AtPlainFunction, menuVars
  <2>4. CASE LastPelDeleted
    BY <2>4 DEF LastPelDeleted
  <2>5. CASE \/ BMCStateChanged \/ PowerStateChanged \/ BootProgressChanged
             \/ OperatingModeChanged \/ PhypListReceived \/ PelReceived
             \/ ProgressCodeReceived \/ OSIPLModeChanged \/ FunctionTriggered
             \/ UncaughtException
    BY <2>5 DEF BMCStateChanged, PowerStateChanged, BootProgressChanged,
                OperatingModeChanged, PhypListReceived, PelReceived, ProgressCodeReceived,
                OSIPLModeChanged, FunctionTriggered, UncaughtException, MenuUnchanged, menuVars
  <2> QED BY <2>1, <2>2, <2>3, <2>4, <2>5 DEF Next, PressExecute
<1>4. /\ panelCurState = 63 => InStored(iplSrcs, subFunctionUpperRange[63])
      /\ panelCurState = 64 => InStored(pelEventIds, subFunctionUpperRange[64])
  BY <1>1, <1>3 DEF OpenRangeIsStored
<1>5. /\ iplSrcs <= iplSrcs' /\ pelEventIds <= pelEventIds'
      /\ iplSrcs \in Nat /\ pelEventIds \in Nat
      /\ iplSrcs' \in Nat /\ pelEventIds' \in Nat
  BY EntriesOnlyAdded, NextKeepsSrcTypes, MenuAssumption DEF SrcTypes
<1>6. panelCurState \in {63, 64} => subFunctionUpperRange[panelCurState] \in Nat
  BY DEF MenuInv, MenuTypes
<1> QED BY <1>2, <1>3, <1>4, <1>5, <1>6 DEF InStored

LEMMA NextKeepsStored ==
  ASSUME MenuInv, SrcTypes, OpenRangeIsStored, [Next]_vars
  PROVE  OpenRangeIsStored'
<1>1. CASE UNCHANGED vars
  BY <1>1 DEF vars, menuVars, srcVars, OpenRangeIsStored, InStored, Running
<1>2. CASE Restart
  BY <1>2 DEF Restart, OpenRangeIsStored
<1>3. CASE EnterSubRange
  BY <1>3, EnterSubRangeIsStored
<1> QED BY <1>1, <1>2, <1>3, OthersKeepStored

\* The sub state a function of the panel is executed with, apart from function 02
\* and from 01 executed by a signal: a selected sub function or 0.
LEMMA ExecutedSubState ==
  ASSUME Next, call'.via = "panel", call'.function \notin {1, 2}
  PROVE  /\ Running /\ call'.function = panelCurState
         /\ UNCHANGED <<iplSrcs, pelEventIds>>
         /\ \/ /\ isSubrangeActive /\ panelCurSubStates[0] # STAR_STATE
               /\ call'.subs = panelCurSubStates
            \/ /\ ~HasSubRange(panelCurState)
               /\ call'.subs = [panelCurSubStates EXCEPT ![0] = INITIAL_STATE]
<1>1. ~ExecuteNothing
  BY DEF ExecuteNothing, NoCall
<1>2. ~\E ok \in BOOLEAN : ExecuteFunction(1, NoSubStates, ok)
  BY DEF ExecuteFunction
<1>3. ~(PressMove \/ ShowDebounce \/ EnterSubRange \/ ExitSubRange)
  BY <1>1 DEF PressMove, Move, ShowDebounce, EnterSubRange, ExitSubRange
<1>4. ~ExecuteFunction02
  BY <1>1 DEF ExecuteFunction02, EnterFunction02, NextLevel, CommitFunction02, ExecuteFunction
<1>5. /\ ~BMCStateChanged /\ ~PowerStateChanged /\ ~BootProgressChanged
      /\ ~OperatingModeChanged /\ ~PhypListReceived /\ ~PelReceived /\ ~LastPelDeleted
      /\ ~ProgressCodeReceived /\ ~OSIPLModeChanged /\ ~UncaughtException
  <2>1. Results(1) = BOOLEAN
    BY DEF Results
  <2> QED BY <1>1, <1>2, <2>1
          DEF BMCStateChanged, PowerStateChanged, BootProgressChanged, OperatingModeChanged,
              PhypListReceived, PelReceived, LastPelDeleted, ProgressCodeReceived,
              OSIPLModeChanged, UncaughtException
<1>6. ~FunctionTriggered /\ ~Restart
  BY DEF FunctionTriggered, Restart, NoCall
<1>7. CASE ExecuteSubFunction
  BY <1>7 DEF ExecuteSubFunction, ExecuteFunction, srcVars
<1>8. CASE ExecutePlainFunction
  BY <1>8 DEF ExecutePlainFunction, AtPlainFunction, ExecuteFunction, srcVars
<1>9. CASE SetCEState
  <2>1. \E ok : ExecuteFunction(panelCurState, panelCurSubStates', ok)
    BY <1>1, <1>9 DEF SetCEState
  <2> QED BY <1>9, <2>1 DEF SetCEState, AtPlainFunction, ExecuteFunction, srcVars
<1> QED BY <1>3, <1>4, <1>5, <1>6, <1>7, <1>8, <1>9 DEF Next, PressExecute

LEMMA NextExecutesExisting ==
  ASSUME MenuInv, SrcTypes, OpenRangeIsStored, Next
  PROVE  ExecutedSubFunctionExists'
<1> SUFFICES ASSUME call'.via = "panel", call'.function \in {30, 55, 63, 64}
             PROVE  /\ call'.function = 63 => InStored(iplSrcs', call'.subs[0])
                    /\ call'.function = 64 => InStored(pelEventIds', call'.subs[0])
                    /\ call'.function \in {30, 55}
                         => call'.subs[0] <= SubRangeEnd[call'.function]
  BY DEF ExecutedSubFunctionExists, InStored
<1>1. /\ Running /\ call'.function = panelCurState
      /\ UNCHANGED <<iplSrcs, pelEventIds>>
      /\ \/ /\ isSubrangeActive /\ panelCurSubStates[0] # STAR_STATE
            /\ call'.subs = panelCurSubStates
         \/ /\ ~HasSubRange(panelCurState)
            /\ call'.subs = [panelCurSubStates EXCEPT ![0] = INITIAL_STATE]
  BY ExecutedSubState
<1>2. /\ panelCurState \in Functions /\ panelCurSubStates \in [Levels -> SubStates]
      /\ subFunctionUpperRange[panelCurState] \in 0..24
      /\ iplSrcs \in Nat /\ pelEventIds \in Nat
      /\ panelCurState \in {30, 55} =>
           subFunctionUpperRange[panelCurState] = SubRangeEnd[panelCurState]
  BY <1>1, MenuAssumption DEF MenuInv, MenuTypes, FixedSubRanges, SrcTypes
<1>3. CASE isSubrangeActive /\ panelCurSubStates[0] # STAR_STATE
           /\ call'.subs = panelCurSubStates
  <2>1. panelCurSubStates[0] \in 0..subFunctionUpperRange[panelCurState]
    BY <1>1, <1>3 DEF MenuInv, SubRangeInRange
  <2> QED BY <1>1, <1>2, <1>3, <2>1 DEF OpenRangeIsStored, InStored
<1>4. CASE ~HasSubRange(panelCurState)
           /\ call'.subs = [panelCurSubStates EXCEPT ![0] = INITIAL_STATE]
  <2>1. call'.subs[0] = 0 /\ panelCurState \notin {63, 64}
    BY <1>2, <1>4, MenuConstants DEF HasSubRange
  <2>2. SubRangeEnd[panelCurState] \in 0..24
    BY <1>2, MenuAssumption
  <2> QED BY <1>1, <2>1, <2>2
<1> QED BY <1>1, <1>3, <1>4

\* Functions 63 and 64 are executed only for stored entries, 30 and 55 only for
\* sub functions of the table.
THEOREM ExistingSubFunctions == Spec => []ExecutedSubFunctionExists
<1> DEFINE Inv == PanelInv /\ OpenRangeIsStored /\ ExecutedSubFunctionExists
<1>1. Init => Inv
  <2>1. Init => OpenRangeIsStored /\ ExecutedSubFunctionExists
    BY DEF Init, InitMenu, OpenRangeIsStored, ExecutedSubFunctionExists, NoCall
  <2> QED BY <2>1, InitPanelInv
<1>2. Inv /\ [Next]_vars => Inv'
  <2> SUFFICES ASSUME Inv, [Next]_vars PROVE Inv'
    OBVIOUS
  <2>1. PanelInv' /\ OpenRangeIsStored'
    BY NextKeepsPanelInv, NextKeepsStored DEF PanelInv
  <2>2. CASE Next
    BY <2>1, <2>2, NextExecutesExisting DEF PanelInv
  <2>3. CASE UNCHANGED vars
    BY <2>1, <2>3 DEF vars, srcVars, callVars, ExecutedSubFunctionExists
  <2> QED BY <2>2, <2>3
<1>3. Inv => ExecutedSubFunctionExists
  OBVIOUS
<1> QED BY <1>1, <1>2, <1>3, PTL DEF Spec

-----------------------------------------------------------------------------
(* The composition of the menu with the settings that function 02 writes: it  *)
(* behaves like the menu, and mode and policies go together.                  *)

\* Unless the last commit of a mode failed, the pending mode has its policies.
WholeUnlessRefused == pendingMode # "none" /\ ~modeRefused => ModeIsWhole

LEMMA WriteIsOrdered ==
  ASSUME WholeUnlessRefused, NEW subs, NEW ok, Execute02(subs, ok)
  PROVE  /\ WholeUnlessRefused'
         /\ pendingMode' # pendingMode => ModeIsWhole'
<1>1. CASE UNCHANGED settingVars
  BY <1>1 DEF settingVars, WholeUnlessRefused, ModeIsWhole
<1>2. CASE ~UNCHANGED settingVars
  <2>1. PICK answered \in 0..3, made \in 0..3 :
          /\ modeRefused' = ~ok
          /\ ok <=> answered = 3
          /\ made \in {answered, answered + 1}
          /\ WriteMode(Mode(subs[1]), made)
    BY <1>2 DEF Execute02
  <2>2. pendingMode' = (IF made = 3 THEN Mode(subs[1]) ELSE pendingMode)
    BY <2>1 DEF WriteMode
  <2>3. made = 3 => ModeIsWhole'
    BY <2>1 DEF WriteMode, ModeIsWhole
  <2>4. ~modeRefused' => answered = 3
    BY <2>1, Zenon
  <2>5. answered = 3 => made = 3
    BY <2>1
  <2> QED BY <2>2, <2>3, <2>4, <2>5 DEF WholeUnlessRefused
<1> QED BY <1>1, <1>2

LEMMA StepIsOrdered ==
  ASSUME WholeUnlessRefused, [Function02Next]_<<vars, settingVars>>
  PROVE  /\ WholeUnlessRefused'
         /\ pendingMode' # pendingMode => ModeIsWhole'
<1>1. CASE UNCHANGED settingVars
  BY <1>1 DEF settingVars, WholeUnlessRefused, ModeIsWhole
<1>2. CASE Execute02(call'.subs, call'.ok)
  BY <1>2, WriteIsOrdered
<1> QED BY <1>1, <1>2 DEF Function02Next

\* The settings take nothing away from the menu and add nothing to it: what is
\* proved of PanelStateManager holds in the composition.
THEOREM Function02ImplementsMenu == Function02Spec => Spec
<1>1. Function02Init => Init
  BY DEF Function02Init
<1>2. [Function02Next]_<<vars, settingVars>> => [Next]_vars
  BY DEF Function02Next
<1> QED BY <1>1, <1>2, PTL DEF Function02Spec, Spec

\* No mode becomes pending without its policies, and a failed write is the only way
\* in which mode and policies come apart.
THEOREM PoliciesFollowMode == Function02Spec => PoliciesGoWithMode
<1> DEFINE Ordered ==
      pendingMode' # pendingMode \/ (pendingMode' # "none" /\ ~modeRefused') => ModeIsWhole'
<1>1. Function02Init => WholeUnlessRefused
  BY DEF Function02Init, WholeUnlessRefused
<1>2. WholeUnlessRefused /\ [Function02Next]_<<vars, settingVars>> => WholeUnlessRefused'
  BY StepIsOrdered
<1>3. WholeUnlessRefused /\ [Function02Next]_<<vars, settingVars>>
        => [Ordered]_<<vars, settingVars>>
  <2> SUFFICES ASSUME WholeUnlessRefused, [Function02Next]_<<vars, settingVars>>
               PROVE  Ordered
    OBVIOUS
  <2>1. WholeUnlessRefused' /\ (pendingMode' # pendingMode => ModeIsWhole')
    BY StepIsOrdered
  <2> QED BY <2>1 DEF WholeUnlessRefused
<1> QED BY <1>1, <1>2, <1>3, PTL DEF Function02Spec, PoliciesGoWithMode

\* What the operator edits with function 02, in the program that also writes it.
THEOREM MenuHoldsInComposition ==
  Function02Spec =>
    [](Edit02InRange /\ CursorReset) /\ OnlyChangesAreWritten
BY Function02ImplementsMenu, MenuInvariance, ChangesOnly, PTL

-----------------------------------------------------------------------------
(* The menu implements what Menu promises, one lemma per kind of step.       *)

LEMMA DialogueIs ==
  /\ isSubrangeActive => Dialogue = "open"
  /\ ~isSubrangeActive /\ panelCurSubStates[0] = DEBOUNCE_SRC_STATE => Dialogue = "asked"
  /\ ~isSubrangeActive /\ panelCurSubStates[0] # DEBOUNCE_SRC_STATE => Dialogue = "none"
BY DEF Dialogue

LEMMA DialogueBecomes ==
  /\ isSubrangeActive' => Dialogue' = "open"
  /\ ~isSubrangeActive' /\ panelCurSubStates'[0] = DEBOUNCE_SRC_STATE => Dialogue' = "asked"
  /\ ~isSubrangeActive' /\ panelCurSubStates'[0] # DEBOUNCE_SRC_STATE => Dialogue' = "none"
BY DEF Dialogue

\* What the executor is asked for is what the menu promises to ask for.
LEMMA Requests ==
  /\ ExecuteNothing => M!ExecutesNothing
  /\ \A f, subs, ok : ExecuteFunction(f, subs, ok) => M!Executes(f)
BY DEF ExecuteNothing, NoCall, ExecuteFunction, M!ExecutesNothing, M!Executes

\* Only the functions that open have sub functions, and they never ask.
LEMMA OpeningFunctionsOpen ==
  ASSUME MenuInv
  PROVE  /\ panelCurState \in OpeningFunctions <=> panelCurState = 2 \/ HasSubRange(panelCurState)
         /\ panelCurState \in OpeningFunctions => panelCurState \notin Debounce
<1>1. panelCurState \in Functions
  BY DEF MenuInv, MenuTypes
<1> QED BY <1>1, TableFacts
        DEF MenuInv, FixedSubRanges, HasSubRange, OpeningFunctions, INITIAL_STATE

\* The dialogue while the process runs, by the kind of function the panel is at.
LEMMA DialogueOfFunction ==
  ASSUME MenuInv, Running
  PROVE  /\ panelCurState \notin OpeningFunctions => ~isSubrangeActive
         /\ panelCurState \notin Debounce /\ ~isSubrangeActive => Dialogue = "none"
<1>1. panelCurState \notin OpeningFunctions => ~isSubrangeActive
  BY OpeningFunctionsOpen DEF MenuInv, SubRangeInRange
<1>2. panelCurState \notin Debounce => panelCurSubStates[0] # DEBOUNCE_SRC_STATE
  BY DEF MenuInv, DebounceIsForCurrentFunction
<1> QED BY <1>1, <1>2, DialogueIs

\* The nearest enabled function is a neighbour on the circle.
LEMMA AdjacentAreNeighbours ==
  ASSUME AccessTypeOK, panelCurState \in Functions, NEW button \in Buttons,
         NEW g \in Functions, Adjacent(button, panelCurState, g)
  PROVE  g \in functionActiveState /\ M!Neighbours(panelCurState, g)
<1>1. /\ \A h \in functionActiveState : h \in Nat
      /\ panelCurState \in Nat /\ g \in Nat
  BY TableAssumption DEF AccessTypeOK
<1>2. CASE NextEnabled(panelCurState, g)
  <2>1. \A h \in functionActiveState : ~M!Between(panelCurState, h, g)
    BY <1>1, <1>2 DEF NextEnabled, M!Between
  <2> QED BY <1>2, <2>1 DEF NextEnabled, M!Neighbours
<1>3. CASE PreviousEnabled(panelCurState, g)
  <2>1. \A h \in functionActiveState : ~M!Between(g, h, panelCurState)
    BY <1>1, <1>3 DEF PreviousEnabled, M!Between
  <2> QED BY <1>3, <2>1 DEF PreviousEnabled, M!Neighbours
<1> QED BY <1>2, <1>3 DEF Adjacent

LEMMA MoveIsWalkOrChoose ==
  ASSUME PanelInv, PressMove
  PROVE  M!Walk \/ M!Choose
<1>1. PICK button \in Buttons : Move(button)
  BY DEF PressMove
<1>2. /\ ExecuteNothing /\ UNCHANGED accessVars /\ UNCHANGED isSubrangeActive
  BY <1>1 DEF Move
<1>3. /\ M!ExecutesNothing
      /\ UNCHANGED <<functionActiveState, CE \in systemState>>
  BY <1>2, Requests DEF accessVars
<1>4. CASE isSubrangeActive
  <2>1. UNCHANGED panelCurState
    BY <1>1, <1>4 DEF Move
  <2>2. Dialogue = "open" /\ Dialogue' = "open"
    BY <1>2, <1>4, DialogueIs, DialogueBecomes
  <2> QED BY <1>3, <2>1, <2>2 DEF M!Choose
<1>5. CASE ~isSubrangeActive
  <2>1. PICK g \in Functions : Adjacent(button, panelCurState, g) /\ panelCurState' = g
    BY <1>1, <1>5 DEF Move, Editing02
  <2>2. g \in functionActiveState /\ M!Neighbours(panelCurState, g)
    BY <2>1, AdjacentAreNeighbours DEF PanelInv, AccessInv, MenuInv, MenuTypes
  <2>3. panelCurState' \in functionActiveState /\ M!Neighbours(panelCurState, panelCurState')
    BY <2>1, <2>2
  <2>4. panelCurSubStates'[0] # DEBOUNCE_SRC_STATE
    BY <1>1, <1>5, MenuConstants DEF Move, Editing02, PanelInv, MenuInv, MenuTypes
  <2>5. Dialogue # "open" /\ Dialogue' = "none"
    BY <1>2, <1>5, <2>4, DialogueIs, DialogueBecomes
  <2> QED BY <1>3, <2>3, <2>5 DEF M!Walk
<1> QED BY <1>4, <1>5

LEMMA Function02IsDialogue ==
  ASSUME PanelInv, ExecuteFunction02
  PROVE  M!Open \/ M!Choose \/ M!Close \/ M!ExecuteChoice
<1>1. /\ Running /\ panelCurState = 2 /\ UNCHANGED panelCurState
      /\ panelCurState \in OpeningFunctions
  BY OpeningFunctionsOpen DEF ExecuteFunction02, PanelInv
<1>2. CASE EnterFunction02
  <2>1. M!ExecutesNothing /\ UNCHANGED <<functionActiveState, CE \in systemState>>
    BY <1>2, Requests DEF EnterFunction02, accessVars
  <2>2. Dialogue = "none" /\ Dialogue' = "open"
    BY <1>1, <1>2, TableFacts, DialogueOfFunction, DialogueBecomes DEF EnterFunction02, PanelInv
  <2> QED BY <1>1, <2>1, <2>2 DEF M!Open
<1>3. CASE NextLevel
  <2>1. M!ExecutesNothing /\ UNCHANGED <<functionActiveState, CE \in systemState>>
    BY <1>3, Requests DEF NextLevel, accessVars
  <2>2. Dialogue = "open" /\ Dialogue' = "open"
    BY <1>3, DialogueIs, DialogueBecomes DEF NextLevel
  <2> QED BY <1>1, <2>1, <2>2 DEF M!Choose
<1>4. CASE CommitFunction02
  <2>1. panelCurSubStates'[0] # DEBOUNCE_SRC_STATE
    BY <1>4, MenuConstants DEF CommitFunction02, NothingSelected
  <2>2. Dialogue = "open" /\ Dialogue' = "none"
    BY <1>4, <2>1, DialogueIs, DialogueBecomes DEF CommitFunction02
  <2>3. CASE ExecuteNothing /\ UNCHANGED accessVars
    BY <1>1, <2>2, <2>3, Requests DEF M!Close, accessVars
  <2>4. ASSUME NEW ok, ExecuteFunction(2, Selected, ok),
               SetBit(Manual, Selected[1] = 0) \/ UNCHANGED accessVars
        PROVE  M!ExecuteChoice
    <3>1. M!Executes(panelCurState)
      BY <1>1, <2>4, Requests
    <3>2. UNCHANGED (CE \in systemState)
      <4>1. Manual # CE
        BY DEF Manual, CE
      <4>2. CE \in systemState' <=> CE \in systemState
        BY <2>4, <4>1 DEF SetBit, accessVars
      <4> QED BY <4>2
    <3> QED BY <1>1, <2>2, <3>1, <3>2 DEF M!ExecuteChoice
  <2> QED BY <1>4, <2>3, <2>4 DEF CommitFunction02
<1> QED BY <1>2, <1>3, <1>4 DEF ExecuteFunction02

LEMMA DebounceIsAsked ==
  ASSUME PanelInv, ShowDebounce
  PROVE  M!Ask
<1>1. /\ Running /\ panelCurState \in Debounce /\ panelCurSubStates[0] # DEBOUNCE_SRC_STATE
      /\ UNCHANGED panelCurState
      /\ M!ExecutesNothing /\ UNCHANGED <<functionActiveState, CE \in systemState>>
  BY Requests DEF ShowDebounce, AwaitsPrompt, accessVars
<1>2. ~isSubrangeActive /\ Dialogue = "none"
  BY <1>1, OpeningFunctionsOpen, DialogueOfFunction, DialogueIs DEF PanelInv
<1>3. Dialogue' = "asked"
  BY <1>2, MenuConstants, DialogueBecomes DEF ShowDebounce, PanelInv, MenuInv, MenuTypes
<1> QED BY <1>1, <1>2, <1>3 DEF M!Ask

LEMMA SubRangeIsDialogue ==
  ASSUME PanelInv, EnterSubRange \/ ExitSubRange \/ ExecuteSubFunction
  PROVE  M!Open \/ M!Close \/ M!ExecuteChoice
<1>1. /\ Running /\ HasSubRange(panelCurState) /\ panelCurState # 2 /\ UNCHANGED panelCurState
      /\ UNCHANGED <<functionActiveState, CE \in systemState>>
  BY DEF EnterSubRange, ExitSubRange, ExecuteSubFunction, AtSubRange, accessVars, menuVars
<1>2. panelCurState \in OpeningFunctions /\ panelCurState \notin Debounce
  BY <1>1, OpeningFunctionsOpen DEF PanelInv
<1>3. CASE EnterSubRange
  <2>1. Dialogue = "none" /\ Dialogue' = "open"
    BY <1>1, <1>2, <1>3, DialogueOfFunction, DialogueBecomes DEF EnterSubRange, PanelInv
  <2> QED BY <1>1, <1>2, <1>3, <2>1, Requests DEF EnterSubRange, M!Open
<1>4. CASE ExitSubRange
  <2>1. panelCurSubStates'[0] # DEBOUNCE_SRC_STATE
    BY <1>4, MenuConstants DEF ExitSubRange, PanelInv, MenuInv, MenuTypes
  <2>2. Dialogue = "open" /\ Dialogue' = "none"
    BY <1>4, <2>1, DialogueIs, DialogueBecomes DEF ExitSubRange
  <2> QED BY <1>1, <1>4, <2>2, Requests DEF ExitSubRange, M!Close
<1>5. CASE ExecuteSubFunction
  <2>1. Dialogue = "open" /\ Dialogue' = "open"
    BY <1>5, DialogueIs, DialogueBecomes DEF ExecuteSubFunction, menuVars
  <2>2. M!Executes(panelCurState)
    BY <1>5, Requests DEF ExecuteSubFunction
  <2> QED BY <1>1, <2>1, <2>2 DEF M!ExecuteChoice
<1> QED BY <1>3, <1>4, <1>5

LEMMA PlainFunctionIsExecuted ==
  ASSUME PanelInv, ExecutePlainFunction \/ SetCEState
  PROVE  M!Execute
<1>1. /\ Running /\ panelCurState \in Functions /\ panelCurState # 2
      /\ ~AwaitsPrompt /\ ~HasSubRange(panelCurState)
      /\ UNCHANGED <<panelCurState, isSubrangeActive>>
      /\ panelCurSubStates'[0] # DEBOUNCE_SRC_STATE
  BY MenuConstants
  DEF ExecutePlainFunction, SetCEState, AtPlainFunction, PanelInv, MenuInv, MenuTypes
<1>2. panelCurState \notin OpeningFunctions /\ ~isSubrangeActive
  BY <1>1, OpeningFunctionsOpen, DialogueOfFunction DEF PanelInv
<1>3. /\ Dialogue = IF panelCurState \in Debounce THEN "asked" ELSE "none"
      /\ Dialogue' = "none"
  BY <1>1, <1>2, DialogueOfFunction, DialogueIs, DialogueBecomes DEF AwaitsPrompt, PanelInv
<1>4. /\ serviceSwitch1State <=> lastExecuted = 25
      /\ ~(serviceSwitch1State /\ CE \in systemState)
  BY DEF PanelInv, CallInv, ServiceSwitchIffLast25, SwitchAndCEModeExclusive
<1> DEFINE Executed ==
      IF panelCurState = 25 /\ lastExecuted = 25
      THEN M!ExecutesNothing /\ UNCHANGED (CE \in systemState)
      ELSE /\ M!Executes(panelCurState)
           /\ CE \in systemState' <=>
                CE \notin systemState /\ panelCurState = 26 /\ lastExecuted = 25
<1> DEFINE EnabledKept ==
      (CE \in systemState' <=> CE \in systemState) => UNCHANGED functionActiveState
<1>5. CASE ExecutePlainFunction
  <2>1. M!Executes(panelCurState) /\ panelCurState \notin {25, 26} /\ UNCHANGED accessVars
    BY <1>5, Requests DEF ExecutePlainFunction
  <2> QED BY <1>1, <1>2, <1>3, <2>1 DEF M!Execute, accessVars
<1>6. ASSUME SetCEState
      PROVE  panelCurState \in {25, 26} /\ Executed /\ EnabledKept
  <2>1. panelCurState \in {25, 26}
    BY <1>6 DEF SetCEState
  <2>2. ASSUME NEW results,
               \E ok \in results : ExecuteFunction(panelCurState, panelCurSubStates', ok)
        PROVE  M!Executes(panelCurState)
    BY <2>2, Requests
  <2>3. CASE ClearCEMode /\ \E ok \in Results(panelCurState) :
               ExecuteFunction(panelCurState, panelCurSubStates', ok)
    <3>1. CE \in systemState /\ ~(CE \in systemState')
      BY <2>3 DEF ClearCEMode, SetBit
    <3> QED BY <1>4, <2>1, <2>2, <2>3, <3>1
  <2>4. CASE /\ CE \notin systemState /\ serviceSwitch1State /\ panelCurState = 26
             /\ SetCEMode
             /\ \E ok \in Results(26) : ExecuteFunction(26, panelCurSubStates', ok)
    <3>1. CE \in systemState'
      BY <2>4 DEF SetCEMode, SetBit
    <3> QED BY <1>4, <2>2, <2>4, <3>1
  <2>5. CASE /\ CE \notin systemState /\ serviceSwitch1State /\ panelCurState = 25
             /\ ExecuteNothing /\ UNCHANGED accessVars
    BY <1>4, <2>5, Requests DEF accessVars
  <2>6. CASE /\ CE \notin systemState /\ ~serviceSwitch1State
             /\ \E ok \in Results(panelCurState) :
                  ExecuteFunction(panelCurState, panelCurSubStates', ok)
             /\ UNCHANGED accessVars
    BY <1>4, <2>1, <2>2, <2>6 DEF accessVars
  <2> QED BY <1>6, <2>1, <2>3, <2>4, <2>5, <2>6 DEF SetCEState
<1>7. CASE SetCEState
  <2>1. panelCurState \in {25, 26} /\ Executed /\ EnabledKept
    BY <1>6, <1>7
  <2>2. CASE panelCurState = 25 /\ lastExecuted = 25
    BY <1>1, <1>2, <1>3, <2>1, <2>2 DEF M!Execute
  <2>3. CASE ~(panelCurState = 25 /\ lastExecuted = 25)
    <3>1. (CE \in systemState)' =
            IF panelCurState \in {25, 26}
            THEN ~(CE \in systemState) /\ panelCurState = 26 /\ lastExecuted = 25
            ELSE CE \in systemState
      BY <2>1, <2>3
    <3>2. (CE \in systemState)' = (CE \in systemState) => UNCHANGED functionActiveState
      BY <2>1
    <3> QED BY <1>1, <1>2, <1>3, <2>1, <2>3, <3>1, <3>2 DEF M!Execute
  <2> QED BY <2>2, <2>3
<1> QED BY <1>5, <1>7

\* A signal that leaves the menu alone is an event, whatever else it changes.
LEMMA SignalIsEvent ==
  ASSUME PanelInv,
         \/ BMCStateChanged \/ PowerStateChanged \/ BootProgressChanged
         \/ OperatingModeChanged \/ PhypListReceived \/ PelReceived
         \/ ProgressCodeReceived \/ OSIPLModeChanged \/ UncaughtException
         \/ LastPelDeleted /\ panelCurState \notin PelFunctions
  PROVE  M!Event
<1>1. UNCHANGED <<panelCurState, panelCurSubStates, isSubrangeActive>>
  BY DEF BMCStateChanged, PowerStateChanged, BootProgressChanged, OperatingModeChanged,
         PhypListReceived, PelReceived, ProgressCodeReceived, OSIPLModeChanged,
         UncaughtException, LastPelDeleted, MenuUnchanged, menuVars
<1>2. UNCHANGED Dialogue
  BY <1>1 DEF Dialogue
<1>3. UNCHANGED (CE \in systemState)
  <2>1. CE \notin {Standby, Power, Runtime, Manual}
    BY DEF Standby, Power, Runtime, Manual, CE
  <2>2. ASSUME NEW bit, bit # CE, NEW on, SetBit(bit, on)
        PROVE  CE \in systemState' <=> CE \in systemState
    BY <2>2 DEF SetBit
  <2>3. CASE \/ BMCStateChanged \/ PowerStateChanged \/ BootProgressChanged
             \/ OperatingModeChanged
    <3>1. CE \in systemState' <=> CE \in systemState
      BY <2>1, <2>2, <2>3
      DEF BMCStateChanged, PowerStateChanged, BootProgressChanged, OperatingModeChanged,
          UpdateBMCState, UpdatePowerState, UpdateBootProgressState, SetSystemOperatingMode,
          accessVars
    <3> QED BY <3>1
  <2>4. CASE \/ PhypListReceived \/ PelReceived \/ LastPelDeleted
             \/ ProgressCodeReceived \/ OSIPLModeChanged \/ UncaughtException
    BY <2>4 DEF PhypListReceived, PelReceived, LastPelDeleted, ProgressCodeReceived,
                OSIPLModeChanged, UncaughtException, accessVars, ToggleFuncStateFromPhyp,
                SetPelRelatedFunctionState, PelWithoutResolution, PelDeleted
  <2> QED BY <2>3, <2>4
<1>4. ExecuteNothing \/ \E ok \in Results(1) : ExecuteFunction(1, NoSubStates, ok)
  BY DEF BMCStateChanged, PowerStateChanged, BootProgressChanged, OperatingModeChanged,
         PhypListReceived, PelReceived, ProgressCodeReceived, OSIPLModeChanged,
         UncaughtException, LastPelDeleted
<1>5. M!ExecutesNothing \/ M!Executes(1)
  BY <1>4, Requests
<1> QED BY <1>1, <1>2, <1>3, <1>5 DEF M!Event

\* The panel is reset only at a function that has no dialogue.
LEMMA LastPelDeletedIsReset ==
  ASSUME PanelInv, LastPelDeleted, panelCurState \in PelFunctions
  PROVE  M!Reset
<1>1. /\ Running /\ panelCurState \in Functions /\ panelCurState' = 1
      /\ UNCHANGED <<panelCurSubStates, isSubrangeActive, systemState>>
      /\ functionActiveState' = DisableFunctonality(functionActiveState, PelFunctions)
  BY DEF LastPelDeleted, PelDeleted, PanelInv, MenuInv, MenuTypes
<1>2. panelCurState \notin Debounce \cup OpeningFunctions
  BY <1>1, TableFacts DEF OpeningFunctions, INITIAL_STATE
<1>3. Dialogue = "none"
  BY <1>1, <1>2, DialogueOfFunction DEF PanelInv
<1>4. UNCHANGED <<Dialogue, CE \in systemState>>
  BY <1>1 DEF Dialogue
<1>5. M!Executes(1)
  BY Requests DEF LastPelDeleted
<1>6. functionActiveState' \subseteq functionActiveState
  BY <1>1 DEF DisableFunctonality
<1> QED BY <1>1, <1>2, <1>3, <1>4, <1>5, <1>6 DEF M!Reset

LEMMA TriggerIsTrigger ==
  ASSUME FunctionTriggered
  PROVE  M!Trigger
<1>1. PICK f \in EnabledFunctionsList, ok \in BOOLEAN :
        call' = [function |-> f, subs |-> NoSubStates, via |-> "remote", ok |-> ok]
  BY DEF FunctionTriggered
<1>2. f \in Functions
  BY DEF EnabledFunctionsList, RemoteAccessEnabled
<1>3. UNCHANGED <<panelCurState, functionActiveState, lastExecuted, Dialogue, CE \in systemState>>
  BY DEF FunctionTriggered, MenuUnchanged, menuVars, accessVars, Dialogue
<1> QED BY <1>1, <1>2, <1>3 DEF M!Trigger

LEMMA RestartIsStart ==
  ASSUME Restart
  PROVE  ~Running /\ M!Started'
<1>1. CE \notin systemState'
  BY DEF Restart, StartState, CE, Manual, Standby, Runtime, Power
<1>2. Dialogue' = "none"
  BY MenuConstants, DialogueBecomes DEF Restart
<1> QED BY <1>1, <1>2 DEF Restart, NoCall, M!Started, Running

LEMMA MenuInitRefined == Init => M!Init
<1> SUFFICES ASSUME Init PROVE M!Init
  OBVIOUS
<1>1. CE \notin systemState
  BY DEF Init, AccessInit, StartState, CE, Manual, Standby, Runtime, Power
<1>2. Dialogue = "none"
  BY MenuConstants, DialogueIs DEF Init, InitMenu
<1>3. M!Started
  BY <1>1, <1>2 DEF Init, InitMenu, NoCall, M!Started, Running
<1>4. M!EnabledOK
  BY InitPanelInv DEF PanelInv, AccessInv, AccessTypeOK, SomeFunctionEnabled, M!EnabledOK
<1> QED BY <1>3, <1>4 DEF M!Init

LEMMA MenuNextRefined == PanelInv /\ [Next]_vars => [M!Next]_(M!vars)
<1> SUFFICES ASSUME PanelInv, [Next]_vars PROVE [M!Next]_(M!vars)
  OBVIOUS
<1>1. CASE UNCHANGED vars
  BY <1>1 DEF vars, accessVars, menuVars, callVars, M!vars, Running, Dialogue
<1>2. CASE Next
  <2>1. M!EnabledOK'
    BY NextKeepsPanelInv DEF PanelInv, AccessInv, AccessTypeOK, SomeFunctionEnabled, M!EnabledOK
  <2>2. Running' \in BOOLEAN
    BY DEF Running
  <2>3. CASE Restart
    BY <2>1, <2>3, RestartIsStart DEF M!Next
  <2>4. CASE ~Restart
    <3>1. Running
      BY <1>2, <2>4
      DEF Next, PressMove, PressExecute, ExecuteFunction02, ShowDebounce, EnterSubRange,
          ExitSubRange, ExecuteSubFunction, ExecutePlainFunction, SetCEState,
          AtPlainFunction, BMCStateChanged, PowerStateChanged, BootProgressChanged,
          OperatingModeChanged, PhypListReceived, PelReceived, LastPelDeleted,
          ProgressCodeReceived, OSIPLModeChanged, FunctionTriggered, UncaughtException
    <3>2. CASE PressMove \/ PressExecute
      <4>1. \/ M!Walk \/ M!Choose \/ M!Ask \/ M!Open \/ M!Close
            \/ M!ExecuteChoice \/ M!Execute
        BY <3>2, MoveIsWalkOrChoose, Function02IsDialogue, DebounceIsAsked,
           SubRangeIsDialogue, PlainFunctionIsExecuted DEF PressExecute
      <4> QED BY <2>1, <2>2, <3>1, <4>1 DEF M!Next
    <3>3. CASE FunctionTriggered
      BY <2>1, <2>2, <3>1, <3>3, TriggerIsTrigger DEF M!Next
    <3>4. CASE LastPelDeleted /\ panelCurState \in PelFunctions
      BY <2>1, <2>2, <3>1, <3>4, LastPelDeletedIsReset DEF M!Next
    <3>5. CASE \/ BMCStateChanged \/ PowerStateChanged \/ BootProgressChanged
               \/ OperatingModeChanged \/ PhypListReceived \/ PelReceived
               \/ ProgressCodeReceived \/ OSIPLModeChanged \/ UncaughtException
               \/ LastPelDeleted /\ panelCurState \notin PelFunctions
      BY <2>1, <2>2, <3>1, <3>5, SignalIsEvent DEF M!Next
    <3> QED BY <1>2, <2>4, <3>2, <3>3, <3>4, <3>5 DEF Next
  <2> QED BY <2>3, <2>4
<1> QED BY <1>1, <1>2

\* The menu implements what it promises its operator, whatever table it has: the
\* indices, sub states and flags of PanelStateManager come to a cursor on the circle
\* of enabled functions and one dialogue.
THEOREM PanelImplementsMenu == Spec => ImplementsMenu
BY MenuInitRefined, MenuNextRefined, PanelInvariance, PTL DEF Spec, ImplementsMenu, M!Spec
=============================================================================
