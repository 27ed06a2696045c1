----------------------------- MODULE Function02 -----------------------------
(* What function 02 writes: PanelStateManager together with the settings that *)
(* Executor::execute02 changes when an operating mode was selected. Three     *)
(* writes over D-Bus make the mode: the power restore policy, the auto reboot *)
(* and, last, the BIOS attributes. Any of them may throw, also after it was   *)
(* made (its reply was lost), and what was written before it stays.           *)
EXTENDS PanelStateManager

VARIABLES
  PowerRestorePolicy,
  AutoReboot,
  pendingMode,   \* pvm_system_operating_mode in PendingAttributes, or "none"
  modeRefused    \* history: the last commit that selected a mode threw

settingVars == <<PowerRestorePolicy, AutoReboot, pendingMode, modeRefused>>

\* What setOperatingMode makes of the sub state of level 1.
Mode(choice) == IF choice = 0 THEN "Manual" ELSE "Normal"
PolicyOf(mode) == IF mode = "Manual" THEN "AlwaysOff" ELSE "Restore"
RebootOf(mode) == mode # "Manual"

\* The first made of the three writes of a mode.
\* Mutant: auto reboot is only taken away.
WriteMode_NoRebootAgain(mode, made) ==
  /\ PowerRestorePolicy' = IF made >= 1 THEN PolicyOf(mode) ELSE PowerRestorePolicy
  /\ AutoReboot' = IF made >= 2 /\ ~RebootOf(mode) THEN FALSE ELSE AutoReboot
  /\ pendingMode' = IF made = 3 THEN mode ELSE pendingMode
WriteMode(mode, made) ==
  /\ PowerRestorePolicy' = IF made >= 1 THEN PolicyOf(mode) ELSE PowerRestorePolicy
  /\ AutoReboot' = IF made >= 2 THEN RebootOf(mode) ELSE AutoReboot
  /\ pendingMode' = IF made = 3 THEN mode ELSE pendingMode

\* execute02 with these sub states: it throws at the first write that is not
\* answered. The attributes of a commit without a mode leave the mode alone.
Execute02(subs, ok) ==
  \/ subs[1] = INVALID_STATE /\ UNCHANGED settingVars
  \/ /\ subs[1] # INVALID_STATE
     /\ modeRefused' = ~ok
     /\ \E answered, made \in 0..3 :
          /\ ok <=> answered = 3
          /\ made \in {answered, answered + 1}
          /\ WriteMode(Mode(subs[1]), made)

-----------------------------------------------------------------------------
\* The settings are outside of the process and survive it.
Function02Init ==
  /\ Init
  /\ PowerRestorePolicy \in {"AlwaysOff", "Restore"} /\ AutoReboot \in BOOLEAN
  /\ pendingMode = "none" /\ modeRefused = FALSE

Function02Next ==
  \/ Next /\ call'.function = 2 /\ Execute02(call'.subs, call'.ok)
  \/ Next /\ call'.function # 2 /\ UNCHANGED settingVars

Function02Spec == Function02Init /\ [][Function02Next]_<<vars, settingVars>>

-----------------------------------------------------------------------------
\* The policies are those of the mode the host will take over.
ModeIsWhole ==
  PowerRestorePolicy = PolicyOf(pendingMode) /\ AutoReboot = RebootOf(pendingMode)

\* A mode becomes pending only when its policies are in force, also when the reply is
\* lost; and mode and policies go together from then on, whatever else function 02
\* writes, unless the last commit of a mode failed. A half written mode stays as it
\* is until another one is written: function 02 compares only with the mode it reads.
PoliciesGoWithMode ==
  [][pendingMode' # pendingMode \/ (pendingMode' # "none" /\ ~modeRefused')
       => ModeIsWhole']_<<vars, settingVars>>
=============================================================================
