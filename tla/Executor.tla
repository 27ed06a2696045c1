------------------------------ MODULE Executor ------------------------------
(* The parts of class Executor that the menu does not see: the functions PHYP *)
(* executes, which class PldmFramework sends as PLDM messages, for the panel  *)
(* and for D-Bus clients (executeFunctionDirectly); function 74, which opens  *)
(* a window for 30 minutes with a timer; and the SRCs it stores: the last     *)
(* progress codes for function 63, the last PELs for function 64 and the      *)
(* latest of either for functions 11 to 13. A callback is one step; the calls *)
(* of other services in it succeed or fail.                                   *)
EXTENDS Integers, Sequences

CONSTANTS
  PhypFunctions,   \* the functions that are sent to PHYP
  RemoteFunctions, \* those of executeFunctionDirectly
  MaxStored,       \* the entries of iplSrcs and of pelEventIdQueue, 25
  MaxPels,         \* bound: the PELs that are created
  MaxCodes,        \* bound: the progress codes that are sent
  MaxExecutions    \* bound: how often function 74 is executed

ASSUME ExecutorAssumption ==
  /\ RemoteFunctions \subseteq PhypFunctions /\ PhypFunctions \subseteq 14..73
  /\ MaxStored \in Nat \ {0} /\ MaxPels \in Nat /\ MaxCodes \in Nat /\ MaxExecutions \in Nat

VARIABLES
  \* function 74
  acfWindowActive, \* the property ACFWindowActive, which D-Bus clients write, too
  timerArmed,      \* a wait of the timer is pending
  expired,         \* its handlers that are queued in io_context without an error
  \* the functions of PHYP
  isExternallyTriggered,
  executionStatus, \* what the last external request displayed
  shown,           \* what sendCurrDisplayToPanel was last called with
  \* the SRCs: the PELs of the system are 1..pels, the progress codes so far 1..codes
  pels, codes,
  pelEventIdQueue, iplSrcs,
  latestSrcAndHexwords,
  \* history
  executions,      \* of function 74
  openedBy74,      \* the window is open because of function 74
  lastSend         \* the last function for PHYP and what became of it

windowVars == <<acfWindowActive, timerArmed, expired, executions, openedBy74>>
phypVars == <<isExternallyTriggered, executionStatus, lastSend>>
srcVars == <<pels, codes, pelEventIdQueue, iplSrcs, latestSrcAndHexwords>>
vars == <<windowVars, phypVars, srcVars, shown>>

\* An SRC is that of a PEL or of a progress code, or there is none.
Src(kind, number) == [kind |-> kind, number |-> number]
NoSrc == Src("none", 0)
Srcs == {NoSrc} \cup {Src("pel", p) : p \in 1..MaxPels} \cup {Src("code", c) : c \in 1..MaxCodes}

\* What is shown is the status of a function, or an SRC or its hex words; blank ones
\* if there is none.
Status(f, result) == [function |-> f, result |-> result, src |-> NoSrc]
DataOf(src) == [function |-> 0, result |-> "none", src |-> src]
NoStatus == DataOf(NoSrc)
Results == {"none", "00", "FF", "InternalFailure"}
Statuses == [function : Nat, result : Results, src : Srcs]
NoSend == [caller |-> "none", end |-> "none", status |-> NoStatus]
Sends == [caller : {"none", "panel", "client"}, status : Statuses,
          end : {"none", "sent", "reported", "unreported", "ended", "threw"}]

-----------------------------------------------------------------------------
\* The calls sendPanelFunctionToPhyp makes, in this order, and those that succeed.
\* "pdr": the list of PDRs is not empty; "stateSet": the first state set of the PDR
\* is that of the panel. The last three are those of createPEL.
Calls == {"getPDR", "pdr", "getInstanceID", "stateSet", "encode", "pldm_open", "pldm_send",
          "new_default", "getService", "Create"}
CallsToSend == Calls \ {"new_default", "getService", "Create"}

\* createPEL swallows every exception of D-Bus but the runtime_error getService makes
\* of one: the PEL is created, is not and nobody is told, or the caller ends, too.
CreatePEL(succeed) ==
  CASE {"new_default", "getService", "Create"} \subseteq succeed -> "reported"
    [] "new_default" \in succeed /\ "getService" \notin succeed -> "ended"
    [] OTHER -> "unreported"

\* How it ends: it throws FunctionFailure, PHYP gets the message, or there is a PEL
\* to be created instead.
SendPanelFunctionToPhyp(succeed) ==
  IF "getPDR" \notin succeed THEN "threw"
  ELSE IF "pdr" \in succeed /\ ~({"getInstanceID", "stateSet", "encode"} \subseteq succeed) THEN "threw"
  ELSE IF CallsToSend \subseteq succeed THEN "sent"
  ELSE CreatePEL(succeed)
Ends == {SendPanelFunctionToPhyp(succeed) : succeed \in SUBSET Calls}

\* displayExecutionStatus, for an external request or for the panel.
DisplayExecutionStatus(external, f, result) ==
  IF external
  THEN executionStatus' = Status(f, result) /\ UNCHANGED shown
  ELSE shown' = Status(f, result) /\ UNCHANGED executionStatus

\* The process ends and is started again; PELListener finds the PELs.
LatestPel == IF pels = 0 THEN NoSrc ELSE Src("pel", pels)

Restarted ==
  /\ acfWindowActive' = FALSE /\ timerArmed' = FALSE /\ expired' = 0 /\ openedBy74' = FALSE
  /\ isExternallyTriggered' = FALSE /\ executionStatus' = NoStatus
  /\ shown' = NoStatus
  /\ pelEventIdQueue' = <<>> /\ iplSrcs' = <<>> /\ latestSrcAndHexwords' = LatestPel
  /\ UNCHANGED <<pels, executions>>

\* executeFunction of the panel: FunctionFailure shows FF, whatever returns shows 00,
\* and a runtime_error is not caught: the process ends.
ExecutePhypFunction(f) ==
  \E end \in Ends :
    LET result == IF end = "threw" THEN "FF" ELSE "00"
    IN  \/ /\ end # "ended"
           /\ DisplayExecutionStatus(isExternallyTriggered, f, result)
           /\ lastSend' = [caller |-> "panel", end |-> end, status |-> Status(f, result)]
           /\ UNCHANGED <<windowVars, srcVars, isExternallyTriggered>>
        \/ end = "ended" /\ Restarted /\ lastSend' = NoSend /\ UNCHANGED codes

\* executeFunctionDirectly: any exception resets the flag and is an InternalFailure.
\* Mutants: an exception leaves the flag set; it is never set.
ExecuteFunctionDirectly_KeepsFlag(f) ==
  \E end \in Ends :
    LET returns == end \notin {"threw", "ended"}
    IN  /\ IF returns THEN DisplayExecutionStatus(TRUE, f, "00")
           ELSE UNCHANGED <<executionStatus, shown>>
        /\ isExternallyTriggered' = ~returns
        /\ lastSend' = [caller |-> "client", end |-> end,
                        status |-> IF returns THEN executionStatus' ELSE Status(f, "InternalFailure")]
        /\ UNCHANGED <<windowVars, srcVars>>
ExecuteFunctionDirectly_NoFlag(f) ==
  \E end \in Ends :
    LET returns == end \notin {"threw", "ended"}
    IN  /\ IF returns THEN DisplayExecutionStatus(isExternallyTriggered, f, "00")
           ELSE UNCHANGED <<executionStatus, shown>>
        /\ lastSend' = [caller |-> "client", end |-> end,
                        status |-> IF returns THEN executionStatus' ELSE Status(f, "InternalFailure")]
        /\ UNCHANGED <<windowVars, srcVars, isExternallyTriggered>>
ExecuteFunctionDirectly(f) ==
  \E end \in Ends :
    LET returns == end \notin {"threw", "ended"}
    IN  /\ IF returns THEN DisplayExecutionStatus(TRUE, f, "00")
           ELSE UNCHANGED <<executionStatus, shown>>
        /\ isExternallyTriggered' = FALSE
        /\ lastSend' = [caller |-> "client", end |-> end,
                        status |-> IF returns THEN executionStatus' ELSE Status(f, "InternalFailure")]
        /\ UNCHANGED <<windowVars, srcVars>>

-----------------------------------------------------------------------------
\* execute74: expires_after cancels the wait that is pending and tells whether there
\* was one. If so the timer is only restarted, otherwise the property is set. A
\* handler that is already queued is not cancelled.
\* Mutant: the wait that was cancelled is not started again.
Execute74_NotRestarted ==
  /\ executions < MaxExecutions /\ executions' = executions + 1
  /\ timerArmed' = ~timerArmed
  /\ acfWindowActive' = TRUE /\ openedBy74' = TRUE
  /\ DisplayExecutionStatus(isExternallyTriggered, 74, "00")
  /\ UNCHANGED <<expired, srcVars, isExternallyTriggered, lastSend>>
Execute74 ==
  /\ executions < MaxExecutions /\ executions' = executions + 1
  /\ \/ /\ timerArmed
        /\ DisplayExecutionStatus(isExternallyTriggered, 74, "00")
        /\ UNCHANGED <<timerArmed, acfWindowActive, openedBy74>>
     \/ /\ ~timerArmed
        /\ timerArmed' = TRUE /\ acfWindowActive' = TRUE /\ openedBy74' = TRUE
        /\ DisplayExecutionStatus(isExternallyTriggered, 74, "00")
     \/ /\ ~timerArmed
        /\ DisplayExecutionStatus(isExternallyTriggered, 74, "FF")
        /\ UNCHANGED <<timerArmed, acfWindowActive, openedBy74>>
  /\ UNCHANGED <<expired, srcVars, isExternallyTriggered, lastSend>>

TimerExpires ==
  /\ timerArmed
  /\ timerArmed' = FALSE /\ expired' = expired + 1
  /\ UNCHANGED <<acfWindowActive, executions, openedBy74, phypVars, srcVars, shown>>

\* The handler of the timer.
CloseWindow ==
  /\ expired > 0
  /\ expired' = expired - 1
  /\ acfWindowActive' = FALSE /\ openedBy74' = FALSE
  /\ UNCHANGED <<timerArmed, executions, phypVars, srcVars, shown>>

\* A D-Bus client writes the property.
WriteACFWindowActive(value) ==
  /\ acfWindowActive' = value /\ openedBy74' = FALSE
  /\ UNCHANGED <<timerArmed, expired, executions, phypVars, srcVars, shown>>

-----------------------------------------------------------------------------
\* PELEventCallBack of a serious PEL.
PelCreated ==
  /\ pels < MaxPels /\ pels' = pels + 1
  /\ latestSrcAndHexwords' = Src("pel", pels')
  /\ UNCHANGED <<windowVars, phypVars, codes, pelEventIdQueue, iplSrcs, shown>>

\* storeIPLSRC and storePelEventId: the oldest entry makes room.
Stored(queue, entries) ==
  LET all == queue \o entries
  IN  SubSeq(all, IF Len(all) <= MaxStored THEN 1 ELSE Len(all) - MaxStored + 1, Len(all))

\* getPelEventIdCount, when function 64 is opened: all PELs of the system are
\* stored, the oldest first, and each is the latest SRC.
GetPelEventIdCount ==
  /\ pelEventIdQueue' = Stored(pelEventIdQueue, [i \in 1..pels |-> i])
  /\ latestSrcAndHexwords' = IF pels = 0 THEN latestSrcAndHexwords ELSE LatestPel
  /\ UNCHANGED <<windowVars, phypVars, pels, codes, iplSrcs, shown>>

\* progressCodeCallBack: the code is shown and stored; its hex words are stored if
\* there are any, and end the process if they do not fit their array (Messages).
ProgressCodeCallBack ==
  /\ codes < MaxCodes /\ codes' = codes + 1
  /\ \/ /\ shown' = DataOf(Src("code", codes'))
        /\ iplSrcs' = Stored(iplSrcs, <<codes'>>)
        /\ \/ latestSrcAndHexwords' = Src("code", codes')
           \/ UNCHANGED latestSrcAndHexwords
        /\ UNCHANGED <<windowVars, phypVars, pels, pelEventIdQueue>>
     \/ Restarted /\ lastSend' = NoSend

\* execute11 shows nothing without an SRC, execute12 and execute13 show blank words.
Execute11to13(f) ==
  /\ f = 11 => latestSrcAndHexwords # NoSrc
  /\ shown' = DataOf(latestSrcAndHexwords)
  /\ UNCHANGED <<windowVars, phypVars, srcVars>>

\* execute63 and execute64 of a sub function: blank lines for the first one of an
\* empty queue, nothing beyond the queue.
ExecuteStored(kind, queue, sub) ==
  /\ \/ sub = 0 /\ queue = <<>> /\ shown' = DataOf(NoSrc)
     \/ sub < Len(queue) /\ shown' = DataOf(Src(kind, queue[sub + 1]))
  /\ UNCHANGED <<windowVars, phypVars, srcVars>>
Execute63(sub) == ExecuteStored("code", iplSrcs, sub)
Execute64(sub) == ExecuteStored("pel", pelEventIdQueue, sub)

-----------------------------------------------------------------------------
Init ==
  /\ acfWindowActive = FALSE /\ timerArmed = FALSE /\ expired = 0
  /\ executions = 0 /\ openedBy74 = FALSE
  /\ isExternallyTriggered = FALSE /\ executionStatus = NoStatus
  /\ shown = NoStatus /\ lastSend = NoSend
  /\ pels \in 0..MaxPels /\ codes = 0
  /\ pelEventIdQueue = <<>> /\ iplSrcs = <<>> /\ latestSrcAndHexwords = LatestPel

Next ==
  \/ \E f \in PhypFunctions : ExecutePhypFunction(f)
  \/ \E f \in RemoteFunctions : ExecuteFunctionDirectly(f)
  \/ Execute74 \/ TimerExpires \/ CloseWindow
  \/ \E value \in BOOLEAN : WriteACFWindowActive(value)
  \/ PelCreated \/ GetPelEventIdCount \/ ProgressCodeCallBack
  \/ \E f \in 11..13 : Execute11to13(f)
  \/ \E sub \in 0..(MaxStored - 1) : Execute63(sub) \/ Execute64(sub)

\* Time passes, and the event loop runs.
Spec == Init /\ [][Next]_vars /\ WF_vars(TimerExpires) /\ WF_vars(CloseWindow)

-----------------------------------------------------------------------------
ExecutorTypeOK ==
  /\ acfWindowActive \in BOOLEAN /\ timerArmed \in BOOLEAN /\ openedBy74 \in BOOLEAN
  /\ executions \in 0..MaxExecutions /\ expired \in 0..executions
  /\ isExternallyTriggered \in BOOLEAN /\ executionStatus \in Statuses
  /\ shown \in Statuses /\ lastSend \in Sends
  /\ pels \in 0..MaxPels /\ codes \in 0..MaxCodes /\ latestSrcAndHexwords \in Srcs
  /\ pelEventIdQueue \in Seq(1..pels) /\ Len(pelEventIdQueue) <= MaxStored
  /\ iplSrcs \in Seq(1..codes) /\ Len(iplSrcs) <= MaxStored

\* A window that function 74 opened is open, and its timer runs or its handler is
\* queued, whatever was restarted, cancelled or refused in between.
WindowHasTimer == openedBy74 => acfWindowActive /\ (timerArmed \/ expired > 0)

\* FF and InternalFailure mean that PHYP did not get the function. 00 only means that
\* the call returned: PHYP may not have got the function then, and createPEL may have
\* failed to tell anybody.
FailureMeansNotSent ==
  lastSend.status.result \in {"FF", "InternalFailure"} => lastSend.end \in {"threw", "ended"}

\* Function 63 counts through consecutive progress codes up to the last one. So does
\* function 64 through PELs, but each opening appends them all from the first.
QueuesInOrder ==
  /\ \A i \in 1..(Len(iplSrcs) - 1) : iplSrcs[i + 1] = iplSrcs[i] + 1
  /\ iplSrcs # <<>> => iplSrcs[Len(iplSrcs)] = codes
  /\ \A i \in 1..(Len(pelEventIdQueue) - 1) :
       pelEventIdQueue[i + 1] \in {pelEventIdQueue[i] + 1, 1}

\* The executor's state between two callbacks: types, no external request left
\* over, a timer for every window function 74 opened, statuses that are not wrong
\* about a failure, and the entries of functions 63 and 64 in their order.
ExecutorInv ==
  ExecutorTypeOK /\ ~isExternallyTriggered /\ WindowHasTimer /\ FailureMeansNotSent /\ QueuesInOrder

\* The status of a function goes to the one who asked for it: a client's request
\* leaves the panel alone and returns the function it named, and what is executed
\* at the panel is shown there, also after external requests that failed.
AnswerGoesToCaller ==
  [][/\ \A f \in RemoteFunctions :
          ExecuteFunctionDirectly(f) => UNCHANGED shown /\ lastSend'.status.function = f
     /\ \A f \in PhypFunctions :
          ExecutePhypFunction(f) =>
            \/ UNCHANGED executionStatus /\ shown' = lastSend'.status
            \/ lastSend' = NoSend]_vars

\* A window that function 74 opened is closed again, by its timer, a client or the
\* end of the process, if function 74 is not executed for ever.
WindowCloses == openedBy74 ~> ~openedBy74
=============================================================================
