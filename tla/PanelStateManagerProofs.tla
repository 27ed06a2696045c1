----------------------- MODULE PanelStateManagerProofs -----------------------
(* The invariants of FunctionAccess and of the menu, proved for every table,  *)
(* every set of readings and every size of the SRC queues that meet the       *)
(* assumptions. The inductive invariant has three independent parts: what is  *)
(* enabled, the menu itself, and the calls of the executor.                   *)
EXTENDS PanelStateManager, TLAPS

-----------------------------------------------------------------------------
(* Which functions are enabled: the theorems of FunctionAccess itself.        *)

\* Together the four parts are inductive.
AccessInv ==
  /\ AccessTypeOK
  /\ EnabledIffConditionsHold
  /\ SomeFunctionEnabled

\* The bits of systemState and of PHYP's flag do not meet.
LEMMA BitsDisjoint ==
  /\ SystemBits \subseteq Bits
  /\ ByPhyp \in Bits /\ ByPhyp \notin SystemBits
  /\ ByPhyp \notin DISABLE_BY_PHYP
  /\ ENABLE_BY_PHYP # {} /\ DISABLE_BY_PHYP # {}
  /\ Runtime # ByPhyp
BY DEF SystemBits, Bits, ByPhyp, Manual, Power, Runtime, CE, Standby,
       ENABLE_BY_PHYP, DISABLE_BY_PHYP

LEMMA FunctionOne == 1 \in Functions /\ 1 \in DefaultEnabled /\ 1 \notin Masked
BY TableAssumption, UnconditionalAssumption DEF Masked

\* initPanelState followed by the first reads establishes the invariant.
LEMMA InitAccessInv == AccessInit => AccessInv
<1> SUFFICES ASSUME AccessInit PROVE AccessInv
  OBVIOUS
<1> USE TableAssumption, FunctionOne
<1>1. systemState \subseteq SystemBits
  BY DEF AccessInit, StartState
<1>2. functionActiveState = StartActive(systemState)
  BY DEF AccessInit
<1>3. \A f \in Functions : functionEnabledByPhyp[f] = {}
  BY DEF AccessInit
<1>4. AccessTypeOK
  BY <1>1, <1>2 DEF AccessInit, AccessTypeOK, StartActive, Masked
<1>5. EnabledIffConditionsHold
  <2>1. CASE systemState = {}
    BY <2>1, <1>2, <1>3 DEF EnabledIffConditionsHold, StartActive
  <2>2. CASE systemState # {}
    BY <2>2, <1>2, <1>3
    DEF EnabledIffConditionsHold, StartActive, ConditionsHold, Masked
  <2> QED BY <2>1, <2>2
<1>6. SomeFunctionEnabled
  BY <1>2 DEF SomeFunctionEnabled, StartActive
<1> QED BY <1>4, <1>5, <1>6 DEF AccessInv

\* What updateFunctionStatus computes, for any state and flags.
LEMMA UpdatedStatus ==
  ASSUME AccessInv, NEW state, NEW byPhyp
  PROVE  LET active == UpdateFunctionStatus(state, byPhyp)
         IN  /\ active \subseteq Functions
             /\ active \cap Masked = {f \in Masked : ConditionsHold(f, state, byPhyp)}
             /\ 1 \in active
BY FunctionOne
DEF AccessInv, AccessTypeOK, SomeFunctionEnabled, UpdateFunctionStatus, Masked

\* Every method that changes a bit of systemState keeps the invariant.
LEMMA SetBitKeepsInv ==
  ASSUME AccessInv, NEW bit \in SystemBits, NEW on \in BOOLEAN, SetBit(bit, on)
  PROVE  AccessInv'
<1> DEFINE state == IF on THEN systemState \cup {bit} ELSE systemState \ {bit}
<1>1. /\ systemState' = state
      /\ functionEnabledByPhyp' = functionEnabledByPhyp
      /\ functionActiveState' = IF state = systemState THEN functionActiveState
                                ELSE UpdateFunctionStatus(state, functionEnabledByPhyp)
  BY DEF SetBit
<1>2. state \subseteq SystemBits
  BY DEF AccessInv, AccessTypeOK
<1> HIDE DEF state
<1>3. CASE state = systemState
  BY <1>1, <1>3
  DEF AccessInv, AccessTypeOK, EnabledIffConditionsHold, SomeFunctionEnabled, ConditionsHold
<1>4. CASE state # systemState
  <2>1. functionActiveState' = UpdateFunctionStatus(state, functionEnabledByPhyp)
    BY <1>1, <1>4
  <2>2. AccessTypeOK' /\ SomeFunctionEnabled'
    BY <1>1, <1>2, <2>1, UpdatedStatus
    DEF AccessInv, AccessTypeOK, SomeFunctionEnabled
  <2>3. EnabledIffConditionsHold'
    BY <1>1, <2>1, UpdatedStatus DEF EnabledIffConditionsHold, ConditionsHold
  <2> QED BY <2>2, <2>3 DEF AccessInv
<1> QED BY <1>3, <1>4

\* So does the list PHYP sends.
LEMMA PhypListKeepsInv ==
  ASSUME AccessInv, NEW list, ToggleFuncStateFromPhyp(list)
  PROVE  AccessInv'
<1> DEFINE byPhyp == [f \in Functions |->
                        IF f \in list THEN ENABLE_BY_PHYP
                        ELSE IF functionEnabledByPhyp[f] = ENABLE_BY_PHYP
                             THEN DISABLE_BY_PHYP
                             ELSE functionEnabledByPhyp[f]]
<1>1. /\ functionEnabledByPhyp' = byPhyp
      /\ functionActiveState' = UpdateFunctionStatus(systemState, byPhyp)
      /\ systemState' = systemState
  BY DEF ToggleFuncStateFromPhyp
<1>2. byPhyp \in [Functions -> {{}, ENABLE_BY_PHYP, DISABLE_BY_PHYP}]
  BY DEF AccessInv, AccessTypeOK
<1> HIDE DEF byPhyp
<1>3. AccessTypeOK' /\ SomeFunctionEnabled'
  BY <1>1, <1>2, UpdatedStatus DEF AccessInv, AccessTypeOK, SomeFunctionEnabled
<1>4. EnabledIffConditionsHold'
  BY <1>1, UpdatedStatus DEF EnabledIffConditionsHold, ConditionsHold
<1> QED BY <1>3, <1>4 DEF AccessInv

\* And so do the PEL listener's calls: they only touch functions 11 to 19.
LEMMA PelStepKeepsInv ==
  ASSUME AccessInv,
         \/ \E n \in CallOutCounts : SetPelRelatedFunctionState(n)
         \/ PelWithoutResolution
         \/ PelDeleted
  PROVE  /\ AccessInv'
         /\ UNCHANGED <<systemState, functionEnabledByPhyp>>
         /\ functionActiveState' \cap Masked = functionActiveState \cap Masked
<1> USE TableAssumption, UnconditionalAssumption
<1>1. /\ functionActiveState' \cap Masked = functionActiveState \cap Masked
      /\ functionActiveState' \subseteq Functions
      /\ 1 \in functionActiveState'
      /\ UNCHANGED <<systemState, functionEnabledByPhyp>>
  <2>1. CASE \E n \in CallOutCounts : SetPelRelatedFunctionState(n)
    <3>1. PICK n \in CallOutCounts : SetPelRelatedFunctionState(n)
      BY <2>1
    <3>2. n \in 0..5
      BY <3>1
    <3>3. ((14 + n)..19) \subseteq PelFunctions /\ (11..(13 + n)) \subseteq PelFunctions
      BY <3>2 DEF PelFunctions
    <3>4. 1 \notin PelFunctions
      BY DEF PelFunctions
    <3> QED BY <3>1, <3>3, <3>4
            DEF SetPelRelatedFunctionState, EnableFunctonality, DisableFunctonality,
                Masked, AccessInv, AccessTypeOK, SomeFunctionEnabled
  <2>2. CASE PelWithoutResolution
    <3>1. (11..13) \subseteq PelFunctions /\ 1 \notin PelFunctions
      BY DEF PelFunctions
    <3> QED BY <2>2, <3>1
            DEF PelWithoutResolution, EnableFunctonality, Masked,
                AccessInv, AccessTypeOK, SomeFunctionEnabled
  <2>3. CASE PelDeleted
    <3>1. 1 \notin PelFunctions
      BY DEF PelFunctions
    <3> QED BY <2>3, <3>1
            DEF PelDeleted, DisableFunctonality, Masked,
                AccessInv, AccessTypeOK, SomeFunctionEnabled
  <2> QED BY <2>1, <2>2, <2>3
<1>2. AccessInv'
  BY <1>1 DEF AccessInv, AccessTypeOK, EnabledIffConditionsHold, SomeFunctionEnabled,
              ConditionsHold
<1> QED BY <1>1, <1>2

\* A step of any other kind changes one bit of systemState, or PHYP's flags.
LEMMA AccessStep ==
  ASSUME AccessNext
  PROVE  \/ \E bit \in SystemBits, on \in BOOLEAN : SetBit(bit, on)
         \/ \E list \in PhypLists : ToggleFuncStateFromPhyp(list)
         \/ \/ \E n \in CallOutCounts : SetPelRelatedFunctionState(n)
            \/ PelWithoutResolution
            \/ PelDeleted
         \/ UNCHANGED accessVars
<1> USE DEF SystemBits
<1>1. ASSUME NEW bmc, UpdateBMCState(bmc) PROVE SetBit(Standby, bmc # "NotReady")
  BY <1>1 DEF UpdateBMCState
<1>2. ASSUME NEW power, UpdatePowerState(power)
      PROVE  SetBit(Power, power = "On") \/ UNCHANGED accessVars
  BY <1>2 DEF UpdatePowerState
<1>3. ASSUME NEW boot, UpdateBootProgressState(boot)
      PROVE  SetBit(Runtime, boot = "OSRunning")
  BY <1>3 DEF UpdateBootProgressState
<1>4. ASSUME NEW mode, SetSystemOperatingMode(mode)
      PROVE  SetBit(Manual, mode = "Manual")
  BY <1>4 DEF SetSystemOperatingMode
<1>5. SetCEMode => SetBit(CE, TRUE)
  BY DEF SetCEMode
<1>6. ClearCEMode => SetBit(CE, FALSE)
  BY DEF ClearCEMode
<1> QED BY <1>1, <1>2, <1>3, <1>4, <1>5, <1>6 DEF AccessNext

LEMMA NextAccessInv == AccessInv /\ [AccessNext]_accessVars => AccessInv'
<1> SUFFICES ASSUME AccessInv, [AccessNext]_accessVars PROVE AccessInv'
  OBVIOUS
<1>1. CASE UNCHANGED accessVars
  BY <1>1 DEF accessVars, AccessInv, AccessTypeOK, EnabledIffConditionsHold,
              SomeFunctionEnabled, ConditionsHold
<1>2. CASE AccessNext
  BY <1>1, <1>2, AccessStep, SetBitKeepsInv, PhypListKeepsInv, PelStepKeepsInv
<1> QED BY <1>1, <1>2

\* The type invariant, that no update is missed, and that incrementState and
\* decrementState always find an enabled function (function 01).
THEOREM AccessInvariance ==
  AccessSpec => [](AccessTypeOK /\ EnabledIffConditionsHold /\ SomeFunctionEnabled)
<1>1. AccessInv => AccessTypeOK /\ EnabledIffConditionsHold /\ SomeFunctionEnabled
  BY DEF AccessInv
<1> QED BY <1>1, InitAccessInv, NextAccessInv, PTL DEF AccessSpec

\* An enabled function that needs PHYP's consent has it, and PHYP is running.
LEMMA InvImpliesRemoteAccess == AccessInv => PanelAccessImpliesRemoteAccess
<1> SUFFICES ASSUME AccessInv, NEW f \in functionActiveState \cap SupportedRemotely
             PROVE  RemoteAccessEnabled(f)
  BY DEF PanelAccessImpliesRemoteAccess, EnabledFunctionsList
<1>1. f \in Functions /\ {ByPhyp, Runtime} \subseteq EnableMask[f]
  BY RemoteAssumption DEF AccessInv, AccessTypeOK
<1>2. f \in Masked /\ f \notin DefaultEnabled
  BY <1>1, RemoteAssumption DEF Masked
<1>3. EnableMask[f] \subseteq systemState \cup functionEnabledByPhyp[f]
  BY <1>2 DEF AccessInv, EnabledIffConditionsHold, ConditionsHold
<1>4. functionEnabledByPhyp[f] = ENABLE_BY_PHYP
  BY <1>1, <1>3, BitsDisjoint DEF AccessInv, AccessTypeOK
<1>5. Runtime \in systemState
  BY <1>1, <1>3, <1>4, BitsDisjoint DEF ENABLE_BY_PHYP
<1> QED BY <1>1, <1>4, <1>5 DEF RemoteAccessEnabled

\* What is enabled at the panel is offered remotely, for every table.
THEOREM PanelAccessIsRemoteAccess == AccessSpec => []PanelAccessImpliesRemoteAccess
BY InitAccessInv, NextAccessInv, InvImpliesRemoteAccess, PTL DEF AccessSpec

\* No step that leaves systemState alone enables a function without the consent
\* it needs.
THEOREM ConsentIsNeeded == AccessSpec => ConsentNeeded
<1> DEFINE Consent ==
      \A f \in functionActiveState' \ functionActiveState :
        ByPhyp \in EnableMask[f] /\ systemState' = systemState
          => functionEnabledByPhyp'[f] = ENABLE_BY_PHYP
<1>1. AccessInv /\ AccessNext => Consent
  <2> SUFFICES ASSUME AccessInv, AccessNext,
                      NEW f \in functionActiveState' \ functionActiveState,
                      ByPhyp \in EnableMask[f], systemState' = systemState
               PROVE  functionEnabledByPhyp'[f] = ENABLE_BY_PHYP
    OBVIOUS
  <2>1. AccessInv'
    BY NextAccessInv
  <2>2. f \in Masked
    BY <2>1 DEF AccessInv, AccessTypeOK, Masked
  <2>3. ASSUME NEW bit \in SystemBits, NEW on \in BOOLEAN, SetBit(bit, on) PROVE FALSE
    BY <2>3 DEF SetBit
  <2>4. CASE \E list \in PhypLists : ToggleFuncStateFromPhyp(list)
    <3>1. ConditionsHold(f, systemState', functionEnabledByPhyp')
      BY <2>2, <2>4 DEF ToggleFuncStateFromPhyp, UpdateFunctionStatus
    <3> QED BY <2>1, <2>2, <3>1, BitsDisjoint
            DEF ConditionsHold, AccessInv, AccessTypeOK, Masked
  <2>5. CASE \/ \E n \in CallOutCounts : SetPelRelatedFunctionState(n)
             \/ PelWithoutResolution
             \/ PelDeleted
    BY <2>2, <2>5, PelStepKeepsInv
  <2>6. CASE UNCHANGED accessVars
    BY <2>6 DEF accessVars
  <2> QED BY <2>3, <2>4, <2>5, <2>6, AccessStep
<1>2. AccessInv /\ [AccessNext]_accessVars => [Consent]_accessVars
  BY <1>1
<1>3. AccessSpec => [][Consent]_accessVars
  BY <1>2, InitAccessInv, NextAccessInv, PTL DEF AccessSpec
<1> QED BY <1>3 DEF ConsentNeeded

-----------------------------------------------------------------------------
(* Part 1: what is enabled. A step of the menu is a step of FunctionAccess,  *)
(* or the start of the process.                                              *)

\* The steps of the whole program seen by FunctionAccess: first those that change
\* the conditions of functions, then also those of the PEL listener.
StatusPartStep ==
  \/ \E bit \in SystemBits, on \in BOOLEAN : SetBit(bit, on)
  \/ \E list \in PhypLists : ToggleFuncStateFromPhyp(list)
  \/ UNCHANGED accessVars

AccessPartStep ==
  \/ StatusPartStep
  \/ \E n \in CallOutCounts : SetPelRelatedFunctionState(n)
  \/ PelWithoutResolution
  \/ PelDeleted
  \/ AccessInit'

LEMMA NextIsStatusStep ==
  ASSUME Next, ~PelReceived, ~LastPelDeleted, ~Restart
  PROVE  StatusPartStep
<1>1. ASSUME PressMove PROVE UNCHANGED accessVars
  BY <1>1 DEF PressMove, Move
<1>2. ASSUME PressExecute PROVE StatusPartStep
  <2>1. CASE ExecuteFunction02
    <3>1. CASE EnterFunction02 \/ NextLevel
      BY <3>1 DEF EnterFunction02, NextLevel, StatusPartStep, accessVars
    <3>2. CASE CommitFunction02
      <4>1. Manual \in SystemBits /\ (Selected[1] = 0) \in BOOLEAN
        BY DEF SystemBits
      <4>2. UNCHANGED accessVars \/ SetBit(Manual, Selected[1] = 0)
        BY <3>2 DEF CommitFunction02
      <4> QED BY <4>1, <4>2 DEF StatusPartStep
    <3> QED BY <2>1, <3>1, <3>2 DEF ExecuteFunction02
  <2>2. CASE ShowDebounce \/ EnterSubRange \/ ExitSubRange \/ ExecuteSubFunction
             \/ ExecutePlainFunction
    BY <2>2 DEF ShowDebounce, EnterSubRange, ExitSubRange, ExecuteSubFunction,
                ExecutePlainFunction, StatusPartStep, accessVars
  <2>3. CASE SetCEState
    <3>1. CE \in SystemBits
      BY DEF SystemBits
    <3>2. UNCHANGED accessVars \/ SetBit(CE, TRUE) \/ SetBit(CE, FALSE)
      BY <2>3 DEF SetCEState, SetCEMode, ClearCEMode
    <3> QED BY <3>1, <3>2 DEF StatusPartStep
  <2> QED BY <1>2, <2>1, <2>2, <2>3 DEF PressExecute
<1>3. ASSUME \/ BMCStateChanged \/ PowerStateChanged \/ BootProgressChanged
             \/ OperatingModeChanged
      PROVE  StatusPartStep
  <2>1. {Standby, Power, Runtime, Manual} \subseteq SystemBits
    BY DEF SystemBits
  <2>2. \/ \E bmc \in BMCReadings : SetBit(Standby, bmc # "NotReady")
        \/ \E power \in PowerReadings : SetBit(Power, power = "On")
        \/ \E boot \in BootReadings : SetBit(Runtime, boot = "OSRunning")
        \/ \E mode \in ModeReadings : SetBit(Manual, mode = "Manual")
        \/ UNCHANGED accessVars
    BY <1>3 DEF BMCStateChanged, PowerStateChanged, BootProgressChanged,
                OperatingModeChanged, UpdateBMCState, UpdatePowerState,
                UpdateBootProgressState, SetSystemOperatingMode
  <2> QED BY <2>1, <2>2 DEF StatusPartStep
<1>4. ASSUME PhypListReceived PROVE StatusPartStep
  BY <1>4 DEF PhypListReceived, StatusPartStep
<1>5. ASSUME \/ ProgressCodeReceived \/ OSIPLModeChanged \/ FunctionTriggered
             \/ UncaughtException
      PROVE  UNCHANGED accessVars
  BY <1>5 DEF ProgressCodeReceived, OSIPLModeChanged, FunctionTriggered,
              UncaughtException, accessVars
<1> QED BY <1>1, <1>2, <1>3, <1>4, <1>5 DEF Next, StatusPartStep

LEMMA NextIsAccessStep == Next => AccessPartStep
<1> SUFFICES ASSUME Next PROVE AccessPartStep
  OBVIOUS
<1>1. CASE PelReceived \/ LastPelDeleted
  BY <1>1 DEF PelReceived, LastPelDeleted, AccessPartStep
<1>2. CASE Restart
  BY <1>2 DEF Restart, AccessInit, AccessPartStep
<1> QED BY <1>1, <1>2, NextIsStatusStep DEF AccessPartStep

LEMMA AccessUnchangedKeepsInv == AccessInv /\ UNCHANGED accessVars => AccessInv'
BY DEF accessVars, AccessInv, AccessTypeOK, EnabledIffConditionsHold,
       SomeFunctionEnabled, ConditionsHold

\* The initial predicate is about the unprimed variables; after a restart it
\* holds of the primed ones.
LEMMA InitAccessInvAfter == AccessInit' => AccessInv'
BY InitAccessInv, PTL

LEMMA NextKeepsAccessInv == AccessInv /\ [Next]_vars => AccessInv'
<1> SUFFICES ASSUME AccessInv, [Next]_vars PROVE AccessInv'
  OBVIOUS
<1>1. CASE UNCHANGED vars
  BY <1>1, AccessUnchangedKeepsInv DEF vars
<1>2. CASE Next
  <2>1. AccessPartStep
    BY <1>2, NextIsAccessStep
  <2> QED BY <2>1, SetBitKeepsInv, PhypListKeepsInv, PelStepKeepsInv,
             AccessUnchangedKeepsInv, InitAccessInvAfter
          DEF AccessPartStep, StatusPartStep
<1> QED BY <1>1, <1>2

\* What FunctionAccess promises holds in the whole program.
THEOREM AccessInvarianceOfMenu ==
  Spec => [](AccessTypeOK /\ EnabledIffConditionsHold /\ SomeFunctionEnabled
               /\ PanelAccessImpliesRemoteAccess)
<1>1. Init => AccessInv
  BY InitAccessInv DEF Init
<1>2. AccessInv => AccessTypeOK /\ EnabledIffConditionsHold /\ SomeFunctionEnabled
  BY DEF AccessInv
<1> QED BY <1>1, <1>2, NextKeepsAccessInv, InvImpliesRemoteAccess, PTL DEF Spec

-----------------------------------------------------------------------------
(* Part 2: the menu.                                                         *)

MenuTypes ==
  /\ panelCurState \in Functions
  /\ panelCurSubStates \in [Levels -> SubStates]
  /\ isSubrangeActive \in BOOLEAN
  /\ levelToOperate \in Levels
  /\ initialValues \in [Levels -> SubStates]
  /\ subFunctionUpperRange \in [Functions -> 0..24]
  /\ process \in {"running", "function02", "callOut", "exception"}
  /\ prompted \in Functions \cup {0}

\* Only the sub ranges of 63 and 64 change at run time.
FixedSubRanges ==
  \A f \in Functions \ {63, 64} : subFunctionUpperRange[f] = SubRangeEnd[f]

\* Between two visits of a sub range or of function 02 nothing of them is left:
\* the lower levels are invalid and level 0 is no sub function but 0.
IdleSubStates ==
  Running =>
    /\ ~Editing02 => /\ panelCurSubStates[1] = INVALID_STATE
                     /\ panelCurSubStates[2] = INVALID_STATE
    /\ ~isSubrangeActive =>
         panelCurSubStates[0] \in {INITIAL_STATE, DEBOUNCE_SRC_STATE, INVALID_STATE}

\* The debounce state is the answer to the last button press.
DebounceWasPrompted ==
  panelCurSubStates[0] = DEBOUNCE_SRC_STATE => prompted = panelCurState

MenuInv ==
  /\ MenuTypes
  /\ FixedSubRanges
  /\ IdleSubStates
  /\ CursorReset
  /\ Edit02InRange
  /\ SubRangeInRange
  /\ DebounceIsForCurrentFunction
  /\ DebounceWasPrompted

\* What the parts are made of, for the steps that expand them all.
LEMMA MenuConstants ==
  /\ Levels = {0, 1, 2}
  /\ Choices \in [Levels -> {2, 4}] /\ Choices[0] = 4 /\ Choices[1] = 2 /\ Choices[2] = 2
  /\ NoSubStates \in [Levels -> SubStates]
  /\ NoSubStates[0] = 0 /\ NoSubStates[1] = 127 /\ NoSubStates[2] = 127
  /\ SubStates = 0..24 \cup {125, 126, 127}
  /\ INITIAL_STATE = 0 /\ DEBOUNCE_SRC_STATE = 125
  /\ STAR_STATE = 126 /\ INVALID_STATE = 127
<1> USE DEF INITIAL_STATE, DEBOUNCE_SRC_STATE, STAR_STATE, INVALID_STATE
<1>1. Levels = {0, 1, 2}
  BY DEF Levels
<1>2. Choices \in [Levels -> {2, 4}] /\ Choices[0] = 4 /\ Choices[1] = 2 /\ Choices[2] = 2
  BY <1>1 DEF Choices
<1>3. /\ NoSubStates \in [Levels -> SubStates]
      /\ NoSubStates[0] = 0 /\ NoSubStates[1] = 127 /\ NoSubStates[2] = 127
  BY <1>1 DEF NoSubStates, SubStates
<1> QED BY <1>1, <1>2, <1>3 DEF SubStates

LEMMA TableFacts ==
  /\ 1 \in Functions /\ 1 \notin Debounce /\ 2 \notin Debounce
  /\ \A f \in Functions : f \in {63, 64} \/ SubRangeEnd[f] # 0 => f \notin Debounce
  /\ \A f \in Functions \cap (PelFunctions \cup {25, 26}) :
       SubRangeEnd[f] = 0 /\ f \notin {2, 63, 64}
  /\ \A f \in PelFunctions : f \notin Debounce
  /\ SubRangeEnd \in [Functions -> 0..24]
BY FunctionOne, MenuAssumption, SubRangeAssumption DEF PelFunctions, INITIAL_STATE

LEMMA InitMenuInv == InitMenu => MenuInv
<1> SUFFICES ASSUME InitMenu PROVE MenuInv
  OBVIOUS
<1> USE MenuConstants, TableFacts DEF InitMenu
<1>1. initialValues \in [Levels -> SubStates]
  <2>1. 0 \in SubStates
    OBVIOUS
  <2> QED BY <2>1
<1>2. MenuTypes
  BY <1>1 DEF MenuTypes
<1>3. FixedSubRanges /\ IdleSubStates /\ DebounceWasPrompted
  BY DEF FixedSubRanges, IdleSubStates, DebounceWasPrompted
<1>4. CursorReset /\ Edit02InRange /\ SubRangeInRange /\ DebounceIsForCurrentFunction
  BY DEF CursorReset, Edit02InRange, SubRangeInRange, DebounceIsForCurrentFunction,
         Editing02
<1> QED BY <1>2, <1>3, <1>4 DEF MenuInv

\* Nearly all signals leave the menu alone.
LEMMA MenuUnchangedKeepsInv == MenuInv /\ MenuUnchanged => MenuInv'
BY DEF MenuUnchanged, menuVars, MenuInv, MenuTypes, FixedSubRanges, IdleSubStates,
       CursorReset, Edit02InRange, SubRangeInRange, DebounceIsForCurrentFunction,
       DebounceWasPrompted, Editing02, Running, HasSubRange

\* Once the process has ended only the types and the parts that do not ask for
\* Running are left to show.
LEMMA EndedMenuInv ==
  ASSUME MenuTypes', FixedSubRanges', DebounceIsForCurrentFunction',
         DebounceWasPrompted', process' # "running"
  PROVE  MenuInv'
BY DEF MenuInv, IdleSubStates, CursorReset, Edit02InRange, SubRangeInRange, Running

LEMMA MoveKeepsMenuInv == MenuInv /\ PressMove => MenuInv'
<1> SUFFICES ASSUME MenuInv, NEW button \in Buttons, Running, Move(button)
             PROVE  MenuInv'
  BY DEF PressMove
<1> DEFINE subs == [panelCurSubStates EXCEPT
                      ![0] = IF @ = DEBOUNCE_SRC_STATE THEN INITIAL_STATE ELSE @]
<1> USE MenuConstants
<1>1. /\ subs \in [Levels -> SubStates] /\ subs[0] # DEBOUNCE_SRC_STATE
      /\ subs[1] = panelCurSubStates[1] /\ subs[2] = panelCurSubStates[2]
      /\ panelCurSubStates[0] # DEBOUNCE_SRC_STATE => subs[0] = panelCurSubStates[0]
      /\ panelCurSubStates[0] = DEBOUNCE_SRC_STATE => subs[0] = INITIAL_STATE
  BY DEF MenuInv, MenuTypes
<1>2. /\ prompted' = 0
      /\ UNCHANGED <<initialValues, subFunctionUpperRange>>
  BY DEF Move
<1>3. CASE /\ Editing02
           /\ panelCurSubStates' =
                [subs EXCEPT ![levelToOperate] =
                   ChangeChoice(button, @, Choices[levelToOperate])]
           /\ UNCHANGED <<panelCurState, isSubrangeActive>>
           /\ DisplayFunc02(levelToOperate)
  <2>1. levelToOperate \in Levels /\ subs[levelToOperate] \in 0..(Choices[levelToOperate] - 1)
    BY <1>1, <1>3 DEF MenuInv, MenuTypes, Edit02InRange, DebounceIsForCurrentFunction, Editing02
  <2>2. ChangeChoice(button, subs[levelToOperate], Choices[levelToOperate])
          \in 0..(Choices[levelToOperate] - 1)
    BY <2>1 DEF ChangeChoice
  <2>3. /\ panelCurSubStates' \in [Levels -> SubStates]
        /\ panelCurSubStates'[levelToOperate] \in 0..(Choices[levelToOperate] - 1)
        /\ \A level \in Levels \ {levelToOperate} :
             panelCurSubStates'[level] = subs[level]
    BY <1>1, <1>3, <2>1, <2>2
  <2>4. /\ panelCurState' = 2 /\ isSubrangeActive'
        /\ levelToOperate' \in Levels
        /\ levelToOperate # 0 => levelToOperate' # 0
        /\ process' \in {process, "function02"}
    BY <1>3, <2>1 DEF DisplayFunc02, Editing02
  <2>5. /\ panelCurSubStates'[0] # DEBOUNCE_SRC_STATE
        /\ panelCurSubStates'[1] < Choices[1] /\ panelCurSubStates'[2] < Choices[2]
        /\ panelCurSubStates'[0] < Choices[0] \/
             (panelCurSubStates'[0] = INVALID_STATE /\ levelToOperate' # 0)
    BY <1>1, <1>3, <2>1, <2>3, <2>4
    DEF MenuInv, MenuTypes, Edit02InRange, Editing02, DebounceIsForCurrentFunction
  <2> QED BY <1>2, <1>3, <2>3, <2>4, <2>5
          DEF MenuInv, MenuTypes, FixedSubRanges, IdleSubStates, CursorReset, Edit02InRange,
              SubRangeInRange, DebounceIsForCurrentFunction, DebounceWasPrompted,
              Editing02, Running
<1>4. CASE /\ isSubrangeActive /\ panelCurState # 2
           /\ panelCurSubStates' =
                [subs EXCEPT ![0] =
                   ChangeSub(button, @, subFunctionUpperRange[panelCurState])]
           /\ UNCHANGED <<panelCurState, isSubrangeActive, levelToOperate, process>>
  <2> DEFINE upper == subFunctionUpperRange[panelCurState]
  <2>1. upper \in 0..24 /\ subs[0] \in 0..upper \cup {STAR_STATE}
    BY <1>1, <1>4 DEF MenuInv, MenuTypes, SubRangeInRange, DebounceIsForCurrentFunction
  <2>2. ChangeSub(button, subs[0], upper) \in 0..upper \cup {STAR_STATE}
    BY <2>1 DEF ChangeSub, Buttons
  <2>3. /\ panelCurSubStates' \in [Levels -> SubStates]
        /\ panelCurSubStates'[0] \in 0..upper \cup {STAR_STATE}
        /\ panelCurSubStates'[1] = panelCurSubStates[1]
        /\ panelCurSubStates'[2] = panelCurSubStates[2]
    BY <1>1, <1>4, <2>1, <2>2
  <2> QED BY <1>2, <1>4, <2>1, <2>3
          DEF MenuInv, MenuTypes, FixedSubRanges, IdleSubStates, CursorReset, Edit02InRange,
              SubRangeInRange, DebounceIsForCurrentFunction, DebounceWasPrompted,
              Editing02, Running, HasSubRange
<1>5. CASE /\ ~isSubrangeActive
           /\ \E g \in Functions :
                Adjacent(button, panelCurState, g) /\ panelCurState' = g
           /\ panelCurSubStates' = subs
           /\ UNCHANGED <<isSubrangeActive, levelToOperate, process>>
  <2> HIDE DEF subs
  <2> QED BY <1>1, <1>2, <1>5
          DEF MenuInv, MenuTypes, FixedSubRanges, IdleSubStates, CursorReset, Edit02InRange,
              SubRangeInRange, DebounceIsForCurrentFunction, DebounceWasPrompted,
              Editing02, Running
<1> QED BY <1>3, <1>4, <1>5 DEF Move

\* Function 02. What it enters with has passed the look ups of displayFunc02.
LEMMA EnterKeepsMenuInv ==
  ASSUME MenuInv, Running, panelCurState = 2, EnterFunction02, prompted' = 0,
         UNCHANGED <<panelCurState, subFunctionUpperRange>>
  PROVE  MenuInv'
<1> USE MenuConstants
<1>1. /\ panelCurSubStates \in [Levels -> SubStates] /\ panelCurSubStates[0] \in {0, 127}
      /\ levelToOperate = 0
  BY TableFacts, DEBOUNCE_SRC_STATE # INITIAL_STATE
  DEF EnterFunction02, MenuInv, MenuTypes, IdleSubStates, CursorReset, Editing02,
      DebounceIsForCurrentFunction
<1>2. /\ panelCurSubStates' \in [Levels -> SubStates]
      /\ panelCurSubStates'[0] \in 0..3 \cup {127}
      /\ initialValues' = panelCurSubStates'
  <2>1. PICK read \in InitFunction02Results :
          panelCurSubStates' = read /\ initialValues' = read
    BY DEF EnterFunction02
  <2>2. CASE read = panelCurSubStates
    BY <1>1, <2>1, <2>2
  <2>3. ASSUME NEW ipl \in IplTypes \cup {panelCurSubStates[0]},
               NEW mode \in {0, 1, panelCurSubStates[1]}, NEW side \in {0, 1},
               read = Sub02(ipl, mode, side)
        PROVE  read \in [Levels -> SubStates] /\ read[0] \in 0..3 \cup {127}
    <3>1. ipl \in 0..3 \cup {127}
      BY <1>1, MenuAssumption
    <3>2. mode \in SubStates /\ side \in SubStates /\ ipl \in SubStates
      BY <1>1, <3>1
    <3>3. read \in [Levels -> SubStates] /\ read[0] = ipl
      BY <2>3, <3>2 DEF Sub02
    <3> QED BY <3>1, <3>3
  <2>4. \/ read = panelCurSubStates
        \/ \E ipl \in IplTypes \cup {panelCurSubStates[0]},
              mode \in {0, 1, panelCurSubStates[1]}, side \in {0, 1} :
             read = Sub02(ipl, mode, side)
    BY <2>1 DEF InitFunction02Results
  <2> QED BY <2>1, <2>2, <2>3, <2>4
<1>3. /\ isSubrangeActive' = TRUE /\ panelCurState' = 2
      /\ levelToOperate' = IF osIplMode THEN 0 ELSE 1
      /\ process' \in {process, "function02"}
      /\ process' # "function02" =>
           /\ panelCurSubStates'[1] < Choices[1] /\ panelCurSubStates'[2] < Choices[2]
           /\ osIplMode => panelCurSubStates'[0] < Choices[0]
  <2>1. panelCurSubStates'[0] \in SubStates /\ panelCurSubStates'[1] \in SubStates
          /\ panelCurSubStates'[2] \in SubStates
    BY <1>2
  <2> QED BY <1>1, <2>1 DEF EnterFunction02, DisplayFunc02, Running
<1>4. MenuTypes' /\ FixedSubRanges' /\ DebounceIsForCurrentFunction' /\ DebounceWasPrompted'
  BY <1>2, <1>3
  DEF MenuInv, MenuTypes, FixedSubRanges, DebounceIsForCurrentFunction, DebounceWasPrompted
<1>5. IdleSubStates' /\ CursorReset' /\ Edit02InRange' /\ SubRangeInRange'
  BY <1>2, <1>3
  DEF IdleSubStates, CursorReset, Edit02InRange, SubRangeInRange, Editing02, Running
<1> QED BY <1>4, <1>5 DEF MenuInv

LEMMA NextLevelKeepsMenuInv ==
  ASSUME MenuInv, Running, panelCurState = 2, NextLevel, prompted' = 0,
         UNCHANGED <<panelCurState, subFunctionUpperRange>>
  PROVE  MenuInv'
<1> USE MenuConstants
<1>1. /\ isSubrangeActive /\ levelToOperate \in {0, 1}
      /\ UNCHANGED <<panelCurSubStates, isSubrangeActive, initialValues>>
      /\ levelToOperate' = levelToOperate + 1
      /\ process' \in {process, "function02"}
  BY DEF NextLevel, DisplayFunc02, MenuInv, MenuTypes
<1> QED BY <1>1, TableFacts
  DEF MenuInv, MenuTypes, FixedSubRanges, IdleSubStates, CursorReset, Edit02InRange,
      SubRangeInRange, DebounceIsForCurrentFunction, DebounceWasPrompted, Editing02, Running

LEMMA CommitKeepsMenuInv ==
  ASSUME MenuInv, Running, panelCurState = 2, CommitFunction02, prompted' = 0,
         UNCHANGED <<panelCurState, subFunctionUpperRange>>
  PROVE  MenuInv'
<1> USE MenuConstants
<1>1. /\ isSubrangeActive' = FALSE /\ levelToOperate' = 0
      /\ UNCHANGED <<process, initialValues>>
  BY DEF CommitFunction02, DisplayFunc02
<1>2. /\ panelCurSubStates' \in [Levels -> SubStates] /\ panelCurSubStates'[0] \in {0, 127}
      /\ panelCurSubStates'[1] = 127 /\ panelCurSubStates'[2] = 127
  <2>1. CASE NothingSelected /\ panelCurSubStates' = Selected
    BY <2>1 DEF NothingSelected, Selected, MenuInv, MenuTypes
  <2>2. CASE panelCurSubStates' = NoSubStates
    BY <2>2
  <2> QED BY <2>1, <2>2 DEF CommitFunction02
<1>3. /\ MenuTypes' /\ FixedSubRanges'
      /\ DebounceIsForCurrentFunction' /\ DebounceWasPrompted'
  <2>1. MenuTypes'
    BY <1>1, <1>2 DEF MenuInv, MenuTypes
  <2>2. FixedSubRanges'
    BY DEF MenuInv, FixedSubRanges
  <2>3. panelCurSubStates'[0] # DEBOUNCE_SRC_STATE
    BY <1>2
  <2> QED BY <2>1, <2>2, <2>3 DEF DebounceIsForCurrentFunction, DebounceWasPrompted
<1>4. IdleSubStates' /\ CursorReset' /\ Edit02InRange' /\ SubRangeInRange'
  BY <1>1, <1>2
  DEF IdleSubStates, CursorReset, Edit02InRange, SubRangeInRange, Editing02, Running
<1> QED BY <1>3, <1>4 DEF MenuInv

LEMMA Function02KeepsMenuInv == MenuInv /\ ExecuteFunction02 => MenuInv'
BY EnterKeepsMenuInv, NextLevelKeepsMenuInv, CommitKeepsMenuInv DEF ExecuteFunction02

LEMMA ShowDebounceKeepsMenuInv == MenuInv /\ ShowDebounce => MenuInv'
<1> SUFFICES ASSUME MenuInv, ShowDebounce PROVE MenuInv'
  OBVIOUS
<1> USE MenuConstants
<1>1. /\ Running /\ panelCurState \in Debounce /\ panelCurState # 2
      /\ UNCHANGED <<panelCurState, isSubrangeActive, levelToOperate, initialValues,
                     subFunctionUpperRange, process>>
      /\ prompted' = panelCurState
  BY DEF ShowDebounce, AwaitsPrompt
<1>2. /\ panelCurSubStates' \in [Levels -> SubStates] /\ panelCurSubStates'[0] = 125
      /\ panelCurSubStates'[1] = panelCurSubStates[1]
      /\ panelCurSubStates'[2] = panelCurSubStates[2]
  BY DEF ShowDebounce, MenuInv, MenuTypes
\* A function with a debounce SRC has no sub range that could be open.
<1>3. ~isSubrangeActive
  BY <1>1, TableFacts
  DEF MenuInv, MenuTypes, FixedSubRanges, SubRangeInRange, HasSubRange
<1> QED BY <1>1, <1>2, <1>3
  DEF MenuInv, MenuTypes, FixedSubRanges, IdleSubStates, CursorReset, Edit02InRange,
      SubRangeInRange, DebounceIsForCurrentFunction, DebounceWasPrompted, Editing02, Running

\* The stored entries, the queue limits and the call outs.
SrcTypes ==
  /\ iplSrcs \in 0..SrcLimit /\ pelEventIds \in 0..SrcLimit
  /\ callOuts \in 0..6

LEMMA StoredInLimit ==
  ASSUME NEW count \in 0..SrcLimit, NEW new \in Nat
  PROVE  Stored(count, new) \in 0..SrcLimit
BY MenuAssumption DEF Stored

LEMMA EnterSubRangeKeepsMenuInv == MenuInv /\ SrcTypes /\ EnterSubRange => MenuInv'
<1> SUFFICES ASSUME MenuInv, SrcTypes, EnterSubRange PROVE MenuInv'
  OBVIOUS
<1> USE MenuConstants
<1>1. /\ Running /\ panelCurState \in Functions /\ panelCurState # 2
      /\ HasSubRange(panelCurState)
      /\ isSubrangeActive' = TRUE /\ prompted' = 0
      /\ UNCHANGED <<panelCurState, levelToOperate, initialValues, process>>
  BY DEF EnterSubRange, AtSubRange, MenuInv, MenuTypes
<1>2. /\ panelCurSubStates' \in [Levels -> SubStates] /\ panelCurSubStates'[0] = 126
      /\ panelCurSubStates'[1] = panelCurSubStates[1]
      /\ panelCurSubStates'[2] = panelCurSubStates[2]
  BY DEF EnterSubRange, MenuInv, MenuTypes
<1>3. pelEventIds' \in 0..SrcLimit
  <2>1. CASE panelCurState = 64
    <3>1. PICK logged \in PelsLogged : pelEventIds' = Stored(pelEventIds, logged)
      BY <2>1 DEF EnterSubRange
    <3>2. logged \in Nat /\ pelEventIds \in 0..SrcLimit
      BY MenuAssumption DEF SrcTypes
    <3> QED BY <3>1, <3>2, StoredInLimit
  <2>2. CASE panelCurState # 64
    BY <2>2 DEF EnterSubRange, SrcTypes
  <2> QED BY <2>1, <2>2
<1>4. \E last \in 0..24 :
        \/ UNCHANGED subFunctionUpperRange /\ panelCurState \notin {63, 64}
        \/ /\ panelCurState \in {63, 64}
           /\ subFunctionUpperRange' = [subFunctionUpperRange EXCEPT ![panelCurState] = last]
  <2>1. CASE panelCurState \in {63, 64}
    <3> DEFINE count == IF panelCurState = 63 THEN iplSrcs ELSE pelEventIds'
    <3>1. count \in 0..25
      BY <1>3, MenuAssumption DEF SrcTypes
    <3>2. (IF count # 0 THEN count - 1 ELSE count) \in 0..24
      BY <3>1
    <3>3. subFunctionUpperRange' = [subFunctionUpperRange EXCEPT ![panelCurState] =
                                      IF count # 0 THEN count - 1 ELSE count]
      BY <2>1 DEF EnterSubRange
    <3> QED BY <2>1, <3>2, <3>3
  <2>2. CASE panelCurState \notin {63, 64}
    BY <2>2 DEF EnterSubRange
  <2> QED BY <2>1, <2>2
<1>5. subFunctionUpperRange' \in [Functions -> 0..24] /\ FixedSubRanges'
  BY <1>1, <1>4 DEF MenuInv, MenuTypes, FixedSubRanges
<1>6. HasSubRange(panelCurState)'
  BY <1>1, <1>4 DEF HasSubRange
<1>7. ~AwaitsPrompt
  BY DEF EnterSubRange, AtSubRange
<1> QED BY <1>1, <1>2, <1>5, <1>6
  DEF MenuInv, MenuTypes, IdleSubStates, CursorReset, Edit02InRange, SubRangeInRange,
      DebounceIsForCurrentFunction, DebounceWasPrompted, Editing02, Running

LEMMA ExitSubRangeKeepsMenuInv == MenuInv /\ ExitSubRange => MenuInv'
<1> SUFFICES ASSUME MenuInv, ExitSubRange PROVE MenuInv'
  OBVIOUS
<1> USE MenuConstants
<1>1. /\ Running /\ panelCurState # 2 /\ isSubrangeActive' = FALSE /\ prompted' = 0
      /\ UNCHANGED <<panelCurState, levelToOperate, initialValues,
                     subFunctionUpperRange, process>>
  BY DEF ExitSubRange, AtSubRange
<1>2. /\ panelCurSubStates' \in [Levels -> SubStates] /\ panelCurSubStates'[0] = 0
      /\ panelCurSubStates'[1] = panelCurSubStates[1]
      /\ panelCurSubStates'[2] = panelCurSubStates[2]
  BY DEF ExitSubRange, MenuInv, MenuTypes
<1>3. MenuTypes' /\ FixedSubRanges'
  BY <1>1, <1>2 DEF MenuInv, MenuTypes, FixedSubRanges
<1>4. panelCurSubStates'[0] # DEBOUNCE_SRC_STATE
  BY <1>2
<1>5. IdleSubStates' /\ CursorReset' /\ Edit02InRange' /\ SubRangeInRange'
  BY <1>1, <1>2
  DEF MenuInv, IdleSubStates, CursorReset, Edit02InRange, SubRangeInRange, Editing02, Running
<1> QED BY <1>3, <1>4, <1>5 DEF MenuInv, DebounceIsForCurrentFunction, DebounceWasPrompted

LEMMA ExecuteSubKeepsMenuInv == MenuInv /\ ExecuteSubFunction => MenuInv'
<1> SUFFICES ASSUME MenuInv, ExecuteSubFunction PROVE MenuInv'
  OBVIOUS
\* A sub function is executed out of an open sub range: no prompt is shown.
<1>1. panelCurSubStates[0] # DEBOUNCE_SRC_STATE
  BY DEF ExecuteSubFunction, MenuInv, DebounceIsForCurrentFunction
<1> QED BY <1>1
  DEF ExecuteSubFunction, menuVars, MenuInv, MenuTypes, FixedSubRanges, IdleSubStates,
      CursorReset, Edit02InRange, SubRangeInRange, DebounceIsForCurrentFunction,
      DebounceWasPrompted, Editing02, Running, HasSubRange

LEMMA PlainFunctionKeepsMenuInv ==
  MenuInv /\ (ExecutePlainFunction \/ SetCEState) => MenuInv'
<1> SUFFICES ASSUME MenuInv, AtPlainFunction, process' \in {process, "callOut"}
             PROVE  MenuInv'
  BY DEF ExecutePlainFunction, SetCEState
<1> USE MenuConstants
<1>1. /\ Running /\ panelCurState # 2 /\ prompted' = 0
      /\ UNCHANGED <<panelCurState, isSubrangeActive, levelToOperate, initialValues,
                     subFunctionUpperRange>>
  BY DEF AtPlainFunction
<1>2. /\ panelCurSubStates' \in [Levels -> SubStates] /\ panelCurSubStates'[0] = 0
      /\ panelCurSubStates'[1] = panelCurSubStates[1]
      /\ panelCurSubStates'[2] = panelCurSubStates[2]
  BY DEF AtPlainFunction, MenuInv, MenuTypes
<1>3. ~isSubrangeActive
  BY <1>1 DEF AtPlainFunction, MenuInv, SubRangeInRange
<1>4. MenuTypes'
  BY <1>1, <1>2 DEF MenuInv, MenuTypes
<1>5. FixedSubRanges' /\ panelCurSubStates'[0] \notin {DEBOUNCE_SRC_STATE}
  BY <1>1, <1>2 DEF MenuInv, FixedSubRanges
<1>6. IdleSubStates' /\ CursorReset' /\ Edit02InRange' /\ SubRangeInRange'
  BY <1>1, <1>2, <1>3
  DEF MenuInv, IdleSubStates, CursorReset, Edit02InRange, SubRangeInRange, Editing02, Running
<1> QED BY <1>4, <1>5, <1>6 DEF MenuInv, DebounceIsForCurrentFunction, DebounceWasPrompted

\* resetStateManager does not touch the sub states: none is in use at a function
\* of PELs.
LEMMA LastPelDeletedKeepsMenuInv == MenuInv /\ LastPelDeleted => MenuInv'
<1> SUFFICES ASSUME MenuInv, LastPelDeleted PROVE MenuInv'
  OBVIOUS
<1> USE MenuConstants
<1>1. /\ Running
      /\ UNCHANGED <<panelCurSubStates, isSubrangeActive, levelToOperate, initialValues,
                     subFunctionUpperRange, process, prompted>>
      /\ panelCurState' = IF panelCurState \in PelFunctions THEN 1 ELSE panelCurState
  BY DEF LastPelDeleted
<1>2. CASE panelCurState \notin PelFunctions
  BY <1>1, <1>2
  DEF MenuInv, MenuTypes, FixedSubRanges, IdleSubStates, CursorReset, Edit02InRange,
      SubRangeInRange, DebounceIsForCurrentFunction, DebounceWasPrompted, Editing02, Running,
      HasSubRange
<1>3. CASE panelCurState \in PelFunctions
  <2>1. /\ panelCurState \in Functions /\ panelCurState # 2
        /\ ~HasSubRange(panelCurState) /\ panelCurState \notin Debounce
    BY <1>3, TableFacts DEF MenuInv, MenuTypes, FixedSubRanges, HasSubRange
  <2>2. ~isSubrangeActive /\ panelCurSubStates[0] # DEBOUNCE_SRC_STATE
    BY <1>1, <2>1 DEF MenuInv, SubRangeInRange, DebounceIsForCurrentFunction
  <2>3. panelCurState' = 1 /\ 1 \in Functions
    BY <1>1, <1>3, TableFacts
  <2>4. MenuTypes' /\ FixedSubRanges'
    BY <1>1, <2>3 DEF MenuInv, MenuTypes, FixedSubRanges
  <2>5. IdleSubStates' /\ CursorReset' /\ Edit02InRange' /\ SubRangeInRange'
    BY <1>1, <2>1, <2>2, <2>3
    DEF MenuInv, IdleSubStates, CursorReset, Edit02InRange, SubRangeInRange, Editing02,
        Running
  <2> QED BY <1>1, <2>2, <2>4, <2>5
          DEF MenuInv, DebounceIsForCurrentFunction, DebounceWasPrompted
<1> QED BY <1>2, <1>3

LEMMA ExceptionKeepsMenuInv == MenuInv /\ UncaughtException => MenuInv'
<1> SUFFICES ASSUME MenuInv, UncaughtException PROVE MenuInv'
  OBVIOUS
<1>1. MenuTypes' /\ FixedSubRanges' /\ DebounceIsForCurrentFunction' /\ DebounceWasPrompted'
  BY DEF UncaughtException, menuVars, MenuInv, MenuTypes, FixedSubRanges,
         DebounceIsForCurrentFunction, DebounceWasPrompted
<1>2. process' # "running"
  BY DEF UncaughtException
<1> QED BY <1>1, <1>2, EndedMenuInv

LEMMA InitMenuInvAfter == InitMenu' => MenuInv'
BY InitMenuInv, PTL

LEMMA RestartInitsMenu == Restart => InitMenu'
BY DEF Restart, InitMenu

LEMMA NextKeepsMenuInv == MenuInv /\ SrcTypes /\ [Next]_vars => MenuInv'
<1> SUFFICES ASSUME MenuInv, SrcTypes, [Next]_vars PROVE MenuInv'
  OBVIOUS
<1>1. CASE UNCHANGED vars
  BY <1>1, MenuUnchangedKeepsInv DEF vars, MenuUnchanged
<1>2. CASE PressMove
  BY <1>2, MoveKeepsMenuInv
<1>3. CASE PressExecute
  BY <1>3, Function02KeepsMenuInv, ShowDebounceKeepsMenuInv, EnterSubRangeKeepsMenuInv,
     ExitSubRangeKeepsMenuInv, ExecuteSubKeepsMenuInv, PlainFunctionKeepsMenuInv
  DEF PressExecute
<1>4. CASE \/ BMCStateChanged \/ PowerStateChanged \/ BootProgressChanged
           \/ OperatingModeChanged \/ PhypListReceived \/ PelReceived
           \/ ProgressCodeReceived \/ OSIPLModeChanged \/ FunctionTriggered
  <2>1. MenuUnchanged
    BY <1>4 DEF BMCStateChanged, PowerStateChanged, BootProgressChanged,
                OperatingModeChanged, PhypListReceived, PelReceived,
                ProgressCodeReceived, OSIPLModeChanged, FunctionTriggered
  <2> QED BY <2>1, MenuUnchangedKeepsInv
<1>5. CASE LastPelDeleted
  BY <1>5, LastPelDeletedKeepsMenuInv
<1>6. CASE UncaughtException
  BY <1>6, ExceptionKeepsMenuInv
<1>7. CASE Restart
  BY <1>7, RestartInitsMenu, InitMenuInvAfter
<1> QED BY <1>1, <1>2, <1>3, <1>4, <1>5, <1>6, <1>7 DEF Next

LEMMA NextKeepsSrcTypes == SrcTypes /\ [Next]_vars => SrcTypes'
<1> SUFFICES ASSUME SrcTypes, [Next]_vars PROVE SrcTypes'
  OBVIOUS
<1>1. CASE UNCHANGED vars
  BY <1>1 DEF vars, srcVars, SrcTypes
<1>2. CASE PressMove
  BY <1>2 DEF PressMove, Move, srcVars, SrcTypes
<1>3. CASE EnterSubRange
  <2>1. \A logged \in PelsLogged : Stored(pelEventIds, logged) \in 0..SrcLimit
    BY StoredInLimit, MenuAssumption DEF SrcTypes
  <2> QED BY <1>3, <2>1 DEF EnterSubRange, SrcTypes
<1>4. CASE PressExecute /\ ~EnterSubRange
  BY <1>4 DEF PressExecute, ExecuteFunction02, ShowDebounce, ExitSubRange,
              ExecuteSubFunction, ExecutePlainFunction, SetCEState, AtPlainFunction,
              srcVars, SrcTypes
<1>5. CASE \/ BMCStateChanged \/ PowerStateChanged \/ BootProgressChanged
           \/ OperatingModeChanged \/ PhypListReceived \/ LastPelDeleted
           \/ OSIPLModeChanged \/ FunctionTriggered \/ UncaughtException
  BY <1>5 DEF BMCStateChanged, PowerStateChanged, BootProgressChanged,
              OperatingModeChanged, PhypListReceived, LastPelDeleted,
              OSIPLModeChanged, FunctionTriggered, UncaughtException, srcVars, SrcTypes
<1>6. CASE PelReceived
  <2>1. \A n \in CallOutCounts : n + 1 \in 0..6
    BY TableAssumption
  <2> QED BY <1>6, <2>1 DEF PelReceived, SrcTypes
<1>7. CASE ProgressCodeReceived
  <2>1. Stored(iplSrcs, 1) \in 0..SrcLimit
    BY StoredInLimit DEF SrcTypes
  <2> QED BY <1>7, <2>1 DEF ProgressCodeReceived, SrcTypes
<1>8. CASE Restart
  BY <1>8, MenuAssumption DEF Restart, SrcTypes
<1> QED BY <1>1, <1>2, <1>3, <1>4, <1>5, <1>6, <1>7, <1>8 DEF Next, PressExecute

\* The menu keeps its sub states in range and its debounce state to the function
\* it was shown for, in every behaviour.
THEOREM MenuInvariance ==
  Spec => [](DebounceIsForCurrentFunction /\ Edit02InRange /\ SubRangeInRange /\ CursorReset)
<1>1. Init => MenuInv /\ SrcTypes
  BY InitMenuInv, MenuAssumption DEF Init, InitMenu, SrcTypes
<1>2. MenuInv => DebounceIsForCurrentFunction /\ Edit02InRange /\ SubRangeInRange /\ CursorReset
  BY DEF MenuInv
<1> QED BY <1>1, <1>2, NextKeepsMenuInv, NextKeepsSrcTypes, PTL DEF Spec
=============================================================================
