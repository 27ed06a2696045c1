--------------------------- MODULE FunctionAccess ---------------------------
(* Which panel functions are enabled: the part of PanelStateManager that     *)
(* keeps systemState, the active flag and the PHYP flag of every function.   *)
(* Each action is one method of the class, as it is called by the signal     *)
(* handlers of SystemStatus and PELListener, by BusHandler for PHYP, and by  *)
(* executeState for the CE bit. The process is single threaded, so a method  *)
(* is one step.                                                              *)
EXTENDS FunctionTable

CONSTANTS
  Functions,       \* the function numbers of the table
  EnableMask,      \* enableMask of every function
  DefaultEnabled,  \* the functions whose defaultEnabled is true
  BMCReadings,     \* the values of CurrentBMCState that occur
  PowerReadings,   \* the values of CurrentPowerState that occur
  BootReadings,    \* the values of BootProgress that occur
  ModeReadings,    \* the values of pvm_system_operating_mode that occur
  PhypLists,       \* the function lists PHYP sends
  CallOutCounts    \* the numbers of call out functions a PEL enables

VARIABLES
  systemState,           \* the set of the condition bits that hold
  functionEnabledByPhyp, \* per function: {}, ENABLE_BY_PHYP, DISABLE_BY_PHYP
  functionActiveState    \* the set of the enabled functions

accessVars == <<systemState, functionEnabledByPhyp, functionActiveState>>

\* "unread" is a failed D-Bus read: readBusProperty then returns the default
\* value of the variant, an empty string.
ASSUME TableAssumption ==
  /\ Functions \subseteq Nat
  /\ EnableMask \in [Functions -> SUBSET Bits]
  /\ DefaultEnabled \subseteq Functions
  /\ CallOutCounts \subseteq 0..5

\* Function 1 needs no condition, and neither do the functions that the PEL
\* listener switches.
ASSUME UnconditionalAssumption ==
  /\ 1 \in DefaultEnabled
  /\ EnableMask[1] = {}
  /\ \A f \in Functions \cap PelFunctions : EnableMask[f] = {}

\* The functions that can be triggered remotely all need PHYP's consent and PHYP
\* at run time, and none is enabled by default.
ASSUME RemoteAssumption ==
  \A f \in Functions \cap SupportedRemotely :
    {ByPhyp, Runtime} \subseteq EnableMask[f] /\ f \notin DefaultEnabled

Masked == {f \in Functions : EnableMask[f] # {}}

-----------------------------------------------------------------------------
\* The test of updateFunctionStatus for one function.
ConditionsHold(f, state, byPhyp) == EnableMask[f] \subseteq state \cup byPhyp[f]

\* updateFunctionStatus: every function with a mask is recomputed, the others
\* keep their state.
\* Mutant: a function without a mask is treated like one whose mask fails.
UpdateFunctionStatus_DropsUnmasked(state, byPhyp) ==
  {f \in Masked : ConditionsHold(f, state, byPhyp)}
UpdateFunctionStatus(state, byPhyp) ==
  {f \in Masked : ConditionsHold(f, state, byPhyp)}
    \cup (functionActiveState \ Masked)

\* The shape all updates of a bit of systemState share: the functions are
\* recomputed only when the bit changes.
\* Mutant: the functions are recomputed only when a bit is set.
SetBit_NoUpdateOnClear(bit, on) ==
  LET state == IF on THEN systemState \cup {bit} ELSE systemState \ {bit}
  IN  /\ systemState' = state
      /\ functionActiveState' =
           IF state \subseteq systemState THEN functionActiveState
           ELSE UpdateFunctionStatus(state, functionEnabledByPhyp)
      /\ UNCHANGED functionEnabledByPhyp
SetBit(bit, on) ==
  LET state == IF on THEN systemState \cup {bit} ELSE systemState \ {bit}
  IN  /\ systemState' = state
      /\ functionActiveState' =
           IF state = systemState THEN functionActiveState
           ELSE UpdateFunctionStatus(state, functionEnabledByPhyp)
      /\ UNCHANGED functionEnabledByPhyp

\* SystemStatus reads the four properties at start, and a function is
\* recomputed only if one of the reads sets a bit. A power state that could not
\* be read is neither On nor Off, a BMC state that could not be read is not
\* NotReady.
StartState(mode, bmc, boot, power) ==
  {b \in SystemBits : \/ b = Manual  /\ mode = "Manual"
                      \/ b = Standby /\ bmc # "NotReady"
                      \/ b = Runtime /\ boot = "OSRunning"
                      \/ b = Power   /\ power = "On"}

StartActive(state) ==
  IF state = {} THEN DefaultEnabled
  ELSE {f \in Masked : EnableMask[f] \subseteq state} \cup (DefaultEnabled \ Masked)

AccessInit ==
  /\ \E mode \in ModeReadings, bmc \in BMCReadings,
        boot \in BootReadings, power \in PowerReadings :
       systemState = StartState(mode, bmc, boot, power)
  /\ functionEnabledByPhyp = [f \in Functions |-> {}]
  /\ functionActiveState = StartActive(systemState)

-----------------------------------------------------------------------------
UpdateBMCState(bmc) == SetBit(Standby, bmc # "NotReady")

UpdatePowerState(power) ==
  IF power \in {"On", "Off"} THEN SetBit(Power, power = "On")
  ELSE UNCHANGED accessVars

UpdateBootProgressState(boot) == SetBit(Runtime, boot = "OSRunning")

SetSystemOperatingMode(mode) == SetBit(Manual, mode = "Manual")

\* The two assignments setCEState makes to the CE bit.
SetCEMode   == CE \notin systemState /\ SetBit(CE, TRUE)
ClearCEMode == CE \in systemState /\ SetBit(CE, FALSE)

\* PHYP names the functions it enables. A function it enabled before and does
\* not name any more gets DISABLE_BY_PHYP.
\* Mutant: the flag is or-ed with ENABLE_BY_PHYP instead of assigned.
ToggleFuncStateFromPhyp_OrsFlag(list) ==
  LET byPhyp == [f \in Functions |->
                   IF f \in list THEN functionEnabledByPhyp[f] \cup ENABLE_BY_PHYP
                   ELSE IF functionEnabledByPhyp[f] = ENABLE_BY_PHYP
                        THEN DISABLE_BY_PHYP
                        ELSE functionEnabledByPhyp[f]]
  IN  /\ functionEnabledByPhyp' = byPhyp
      /\ functionActiveState' = UpdateFunctionStatus(systemState, byPhyp)
      /\ UNCHANGED systemState
ToggleFuncStateFromPhyp(list) ==
  LET byPhyp == [f \in Functions |->
                   IF f \in list THEN ENABLE_BY_PHYP
                   ELSE IF functionEnabledByPhyp[f] = ENABLE_BY_PHYP
                        THEN DISABLE_BY_PHYP
                        ELSE functionEnabledByPhyp[f]]
  IN  /\ functionEnabledByPhyp' = byPhyp
      /\ functionActiveState' = UpdateFunctionStatus(systemState, byPhyp)
      /\ UNCHANGED systemState

\* The test both methods below make for a function with a mask is an equality
\* of the whole byte, not the test of updateFunctionStatus.
ExactlyMet(f) == systemState \cup functionEnabledByPhyp[f] = EnableMask[f]

EnableFunctonality(active, list) ==
  active \cup {f \in list \cap Functions : EnableMask[f] = {} \/ ExactlyMet(f)}

DisableFunctonality(active, list) ==
  active \ {f \in list \cap Functions : EnableMask[f] = {} \/ ~ExactlyMet(f)}

\* setPelRelatedFunctionState for a PEL whose Resolution enables n of the call out
\* functions 14 to 19: the others are disabled first. Functions 11 to 13 are
\* enabled only if they are not (functionStateEnabled); enabling them again
\* changes nothing, so the flag is not part of the state.
\* Mutant: the call out functions beyond n are not disabled.
SetPelRelatedFunctionState_NoDisable(n) ==
  /\ functionActiveState' = EnableFunctonality(functionActiveState, 11..(13 + n))
  /\ UNCHANGED <<systemState, functionEnabledByPhyp>>
SetPelRelatedFunctionState(n) ==
  /\ functionActiveState' =
       EnableFunctonality(DisableFunctonality(functionActiveState, (14 + n)..19),
                          11..(13 + n))
  /\ UNCHANGED <<systemState, functionEnabledByPhyp>>

\* The same for a PEL without a Resolution: the call out functions stay as they
\* were.
PelWithoutResolution ==
  /\ functionActiveState' = EnableFunctonality(functionActiveState, 11..13)
  /\ UNCHANGED <<systemState, functionEnabledByPhyp>>

\* PELDeleteEventCallBack for the last PEL.
PelDeleted ==
  /\ functionActiveState' = DisableFunctonality(functionActiveState, PelFunctions)
  /\ UNCHANGED <<systemState, functionEnabledByPhyp>>

\* isRemoteAccessEnabled and getEnabledFunctionsList.
RemoteAccessEnabled(f) ==
  /\ f \in Functions
  /\ functionEnabledByPhyp[f] = ENABLE_BY_PHYP
  /\ Runtime \in systemState

EnabledFunctionsList == {f \in SupportedRemotely : RemoteAccessEnabled(f)}

AccessNext ==
  \/ \E bmc \in BMCReadings \ {"unread"} : UpdateBMCState(bmc)
  \/ \E power \in PowerReadings : UpdatePowerState(power)
  \/ \E boot \in BootReadings : UpdateBootProgressState(boot)
  \/ \E mode \in ModeReadings : SetSystemOperatingMode(mode)
  \/ SetCEMode
  \/ ClearCEMode
  \/ \E list \in PhypLists : ToggleFuncStateFromPhyp(list)
  \/ \E n \in CallOutCounts : SetPelRelatedFunctionState(n)
  \/ PelWithoutResolution
  \/ PelDeleted

AccessSpec == AccessInit /\ [][AccessNext]_accessVars

-----------------------------------------------------------------------------
\* The type invariant. The flag PHYP sets has only three of its 256 values.
AccessTypeOK ==
  /\ systemState \in SUBSET SystemBits
  /\ functionEnabledByPhyp \in [Functions -> {{}, ENABLE_BY_PHYP, DISABLE_BY_PHYP}]
  /\ functionActiveState \in SUBSET Functions

\* No update is ever missed: whatever changed last, the enabled functions with a
\* mask are exactly those whose conditions hold now. The one exception is a
\* process in which no condition has ever held: it still has the defaults of
\* the table, which enable 25, 26, 43, 55, 63 and 64 though their masks do not
\* hold (initPanelState copies them, nothing recomputes them).
EnabledIffConditionsHold ==
  \/ functionActiveState \cap Masked =
       {f \in Masked : ConditionsHold(f, systemState, functionEnabledByPhyp)}
  \/ /\ systemState = {}
     /\ \A f \in Functions : functionEnabledByPhyp[f] = {}
     /\ functionActiveState \cap Masked = DefaultEnabled \cap Masked

\* What the operator can select at the panel is never more than what the remote
\* interface offers: a function that needs PHYP's consent and PHYP at run time
\* is enabled at the panel only while getEnabledFunctionsList returns it.
PanelAccessImpliesRemoteAccess ==
  functionActiveState \cap SupportedRemotely \subseteq EnabledFunctionsList

\* incrementState and decrementState look for an enabled function and index the
\* table with what they find, so one must exist whatever was disabled.
SomeFunctionEnabled == 1 \in functionActiveState

\* A step that leaves systemState alone (PHYP's list, or the PEL listener) never
\* enables a function that needs PHYP's consent without that consent.
ConsentNeeded ==
  [][\A f \in functionActiveState' \ functionActiveState :
       ByPhyp \in EnableMask[f] /\ systemState' = systemState
         => functionEnabledByPhyp'[f] = ENABLE_BY_PHYP]_accessVars

\* What the comment in toggleFuncStateFromPhyp says, as far as the step itself goes:
\* a function that PHYP enabled before and does not name any more "should be
\* disabled", so at least it is not enabled by that.
RevocationEnablesNothing ==
  [][\A f \in functionActiveState' \ functionActiveState :
       ~ /\ functionEnabledByPhyp[f] = ENABLE_BY_PHYP
         /\ functionEnabledByPhyp'[f] = DISABLE_BY_PHYP]_accessVars
=============================================================================
