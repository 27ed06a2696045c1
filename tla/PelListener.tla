---------------------------- MODULE PelListener ----------------------------
(* The platform event logs (PELs) of the system and class PELListener, which *)
(* follows the last of them: its functions 11 to 19 and the SRC that         *)
(* functions 11 to 13 show. The logging service creates and erases PELs at   *)
(* any time; the process learns of it by signals, which wait while another   *)
(* callback runs, and reads the properties of a PEL when it handles its      *)
(* signal, when the PEL may be gone. A callback is one step. FunctionAccess  *)
(* is what the rest of the program relies on: ImplementsAccess.              *)
EXTENDS FunctionTable, Integers, Sequences

CONSTANTS
  Kinds,   \* the kinds of PELs that occur
  MaxPels  \* bound: the number of PELs that are ever created

VARIABLES
  \* the logging service, which is not under src/
  kind,     \* the kind of every PEL
  created,  \* the PELs created so far are 1..created
  pels,     \* the PELs that exist
  signals,  \* InterfacesAdded and InterfacesRemoved that wait in io_context
  \* the process
  started,               \* getListOfExistingPels has been called
  functionStateEnabled,
  lastPelObjPath,        \* the last PEL, or NoPath
  functionActiveState,   \* the enabled functions among 11 to 19
  latestSrcAndHexwords,  \* whose SRC it is: a PEL, NoPath or ProgressCode
  \* history
  readFailed             \* the read of a PEL has failed

logVars == <<kind, created, pels>>
listenerVars == <<functionStateEnabled, lastPelObjPath, functionActiveState>>
vars == <<logVars, signals, started, listenerVars, latestSrcAndHexwords, readFailed>>

\* Of a PEL matter whether its severity is not informational, whether its event id
\* has five hex words, and the number of lines of its Resolution, 0 if empty.
ASSUME PelAssumption ==
  /\ Kinds \subseteq [serious : BOOLEAN, complete : BOOLEAN, lines : Nat]
  /\ MaxPels \in Nat

\* The object path of a PEL ends with its number.
Pels == 1..MaxPels
NoPath == 0
ProgressCode == MaxPels + 1
Signals == [pel : Pels, added : BOOLEAN]

-----------------------------------------------------------------------------
(* The logging service.                                                      *)
Signal(p, added) == signals' = Append(signals, [pel |-> p, added |-> added])

PelCreated ==
  /\ created < MaxPels
  /\ created' = created + 1
  /\ pels' = pels \cup {created'}
  /\ Signal(created', TRUE)
  /\ UNCHANGED <<kind, started, listenerVars, latestSrcAndHexwords, readFailed>>

PelErased(p) ==
  /\ p \in pels
  /\ pels' = pels \ {p}
  /\ Signal(p, FALSE)
  /\ UNCHANGED <<kind, created, started, listenerVars, latestSrcAndHexwords, readFailed>>

-----------------------------------------------------------------------------
\* The properties that can be read of a PEL. A read that fails gives an empty
\* string: the severity is then not informational, the Resolution is empty and
\* the event id is too short. All reads of a PEL that is gone fail.
PelProperties == {"Severity", "Resolution", "EventId"}
Reads(p) == IF p \in pels THEN SUBSET PelProperties ELSE {{}}

Lines(p, got) == IF "Resolution" \in got THEN kind[p].lines ELSE 0

\* setPelRelatedFunctionState for a PEL with that many lines of Resolution.
\* Mutant: the flag is not set, so 11 to 13 are enabled with every PEL.
SetPelRelatedFunctionState_NoFlag(lines) ==
  LET size == (IF lines < 6 THEN lines ELSE 6) - 1
      enabled == IF lines = 0 THEN 11..13 ELSE 11..(13 + size)
  IN  /\ functionStateEnabled' = functionStateEnabled
      /\ functionActiveState' =
           (IF lines = 0 THEN functionActiveState
            ELSE functionActiveState \ (14 + size)..19) \cup enabled
SetPelRelatedFunctionState(lines) ==
  LET size == (IF lines < 6 THEN lines ELSE 6) - 1
      callOuts == IF lines = 0 THEN {} ELSE 14..(13 + size)
      first == IF functionStateEnabled THEN {} ELSE 11..13
  IN  /\ functionStateEnabled' = TRUE
      /\ functionActiveState' =
           (IF lines = 0 THEN functionActiveState
            ELSE functionActiveState \ (14 + size)..19) \cup first \cup callOuts

\* geListOfPELsAndSRCs: the serious PELs, the one with the largest number first.
SeriousPels == {p \in pels : kind[p].serious}
\* Mutant: the list is sorted in ascending order.
Newest_Oldest == CHOOSE p \in SeriousPels : \A q \in SeriousPels : p <= q
Newest == CHOOSE p \in SeriousPels : \A q \in SeriousPels : q <= p

\* listenPelEvents has registered the matches, so PELs that are created or erased
\* from then on are signalled, too. The call of the service may fail.
GetListOfExistingPels ==
  /\ ~started
  /\ started' = TRUE
  /\ \/ /\ SeriousPels # {}
        /\ lastPelObjPath' = Newest
        /\ latestSrcAndHexwords' = Newest
        /\ \E got \in SUBSET {"Resolution"} :
             /\ SetPelRelatedFunctionState(Lines(Newest, got))
             /\ readFailed' = (got = {})
     \/ /\ readFailed' = (SeriousPels # {})
        /\ UNCHANGED <<listenerVars, latestSrcAndHexwords>>
  /\ UNCHANGED <<logVars, signals>>

\* What PELEventCallBack does with what it reads of a PEL.
StoreLastPel(p, got) ==
  IF "EventId" \in got /\ kind[p].complete
  THEN lastPelObjPath' = p /\ latestSrcAndHexwords' = p
  ELSE UNCHANGED <<lastPelObjPath, latestSrcAndHexwords>>

PELEventCallBack(p) ==
  \E got \in Reads(p) :
    /\ readFailed' = (readFailed \/ got # PelProperties)
    /\ IF "Severity" \in got /\ ~kind[p].serious
       THEN UNCHANGED <<listenerVars, latestSrcAndHexwords>>
       ELSE SetPelRelatedFunctionState(Lines(p, got)) /\ StoreLastPel(p, got)

\* Mutants: the path is not cleared; functionStateEnabled is not reset.
PELDeleteEventCallBack_KeepsPath(p) ==
  /\ IF p = lastPelObjPath
     THEN /\ functionActiveState' = functionActiveState \ PelFunctions
          /\ functionStateEnabled' = FALSE
          /\ UNCHANGED lastPelObjPath
     ELSE UNCHANGED listenerVars
  /\ UNCHANGED <<latestSrcAndHexwords, readFailed>>
PELDeleteEventCallBack_KeepsFlag(p) ==
  /\ IF p = lastPelObjPath
     THEN /\ functionActiveState' = functionActiveState \ PelFunctions
          /\ lastPelObjPath' = NoPath
          /\ UNCHANGED functionStateEnabled
     ELSE UNCHANGED listenerVars
  /\ UNCHANGED <<latestSrcAndHexwords, readFailed>>
PELDeleteEventCallBack(p) ==
  /\ IF p = lastPelObjPath
     THEN /\ functionActiveState' = functionActiveState \ PelFunctions
          /\ lastPelObjPath' = NoPath
          /\ functionStateEnabled' = FALSE
     ELSE UNCHANGED listenerVars
  /\ UNCHANGED <<latestSrcAndHexwords, readFailed>>

HandleSignal ==
  /\ started /\ signals # <<>>
  /\ signals' = Tail(signals)
  /\ LET s == Head(signals)
     IN  IF s.added THEN PELEventCallBack(s.pel) ELSE PELDeleteEventCallBack(s.pel)
  /\ UNCHANGED <<logVars, started>>

\* A progress code with hex words replaces what functions 11 to 13 show.
StoreSRCAndHexwords ==
  /\ started
  /\ latestSrcAndHexwords' = ProgressCode
  /\ UNCHANGED <<logVars, signals, started, listenerVars, readFailed>>

\* getPelEventIdCount, when function 64 is opened: the PELs of the system are
\* stored again from the oldest to the newest, each as the latest one.
GetPelEventIdCount ==
  /\ started /\ SeriousPels # {}
  /\ latestSrcAndHexwords' = Newest
  /\ UNCHANGED <<logVars, signals, started, listenerVars, readFailed>>

-----------------------------------------------------------------------------
\* A process that starts, also again, finds any PELs.
Init ==
  /\ kind \in [Pels -> Kinds]
  /\ created \in 0..MaxPels /\ pels \in SUBSET (1..created)
  /\ signals = <<>> /\ started = FALSE
  /\ functionStateEnabled = FALSE /\ lastPelObjPath = NoPath
  /\ functionActiveState = {} /\ latestSrcAndHexwords = NoPath
  /\ readFailed = FALSE

Next ==
  \/ PelCreated
  \/ \E p \in Pels : PelErased(p)
  \/ GetListOfExistingPels
  \/ HandleSignal
  \/ StoreSRCAndHexwords
  \/ GetPelEventIdCount

\* The event loop handles what is queued; nothing else has to happen.
Spec == Init /\ [][Next]_vars /\ WF_vars(GetListOfExistingPels) /\ WF_vars(HandleSignal)

-----------------------------------------------------------------------------
PelTypeOK ==
  /\ kind \in [Pels -> Kinds]
  /\ created \in 0..MaxPels /\ pels \in SUBSET (1..created)
  /\ signals \in Seq(Signals)
  /\ started \in BOOLEAN /\ functionStateEnabled \in BOOLEAN
  /\ lastPelObjPath \in Pels \cup {NoPath}
  /\ functionActiveState \in SUBSET PelFunctions
  /\ latestSrcAndHexwords \in Pels \cup {NoPath, ProgressCode}
  /\ readFailed \in BOOLEAN

\* functionStateEnabled tells whether functions 11 to 13 are enabled, and without
\* them there are no call outs either.
FlagTellsFunctions ==
  IF functionStateEnabled THEN 11..13 \subseteq functionActiveState
  ELSE functionActiveState = {} /\ lastPelObjPath = NoPath

\* The removal of the last PEL is never missed.
LastPelExistsOrIsSignalled ==
  lastPelObjPath # NoPath =>
    \/ lastPelObjPath \in pels
    \/ \E i \in 1..Len(signals) : signals[i] = [pel |-> lastPelObjPath, added |-> FALSE]

\* The listener never loses track of the last PEL: types, the flag that replaces
\* looking at functions 11 to 13, and a last PEL that exists unless its removal
\* waits to be handled, whatever is created, erased, unreadable or signalled twice
\* while the process starts.
ListenerInv == PelTypeOK /\ FlagTellsFunctions /\ LastPelExistsOrIsSignalled

\* If every serious PEL has a long enough event id and no read has failed, then a
\* process without signals to handle that offers functions 11 to 13 shows the
\* newest serious PEL of the system with them, or a progress code. The premise is
\* needed: a PEL without enough hex words, or one that is erased before its
\* signal is handled, enables the functions and is not noticed when it is erased.
SrcFunctionsShowNewestPel ==
  /\ \A p \in Pels : kind[p].serious => kind[p].complete
  /\ ~readFailed /\ started /\ signals = <<>> /\ functionStateEnabled
  => /\ lastPelObjPath \in pels /\ kind[lastPelObjPath].serious
     /\ \A p \in SeriousPels : p <= lastPelObjPath
     /\ latestSrcAndHexwords \in {lastPelObjPath, ProgressCode}

\* The last PEL is forgotten after it was erased.
ErasedPelIsForgotten ==
  \A p \in Pels : (lastPelObjPath = p /\ p \notin pels) ~> (lastPelObjPath # p)

\* The listener switches functions exactly as FunctionAccess says: with a PEL 11 to
\* 13 and its call outs, with the removal of the last PEL none of them. The flag,
\* the paths and the severities are invisible there.
Access == INSTANCE FunctionAccess WITH
  Functions <- {1} \cup PelFunctions,
  EnableMask <- [f \in {1} \cup PelFunctions |-> {}],
  DefaultEnabled <- {1},
  BMCReadings <- {"NotReady"}, PowerReadings <- {"Off"},
  BootReadings <- {"Unspecified"}, ModeReadings <- {"Normal"},
  PhypLists <- {}, CallOutCounts <- 0..5,
  systemState <- {},
  functionEnabledByPhyp <- [f \in {1} \cup PelFunctions |-> {}],
  functionActiveState <- {1} \cup functionActiveState

ImplementsAccess == Access!AccessSpec
=============================================================================
