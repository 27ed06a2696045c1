# TLA+ verification of ibm-panel

ibm-panel drives the operator panels of IBM Power servers managed by OpenBMC: a
base panel with LEDs and, on some systems, an LCD panel with a two line display
and three buttons. The operator walks through numbered *functions* with
INCREMENT and DECREMENT and runs them with EXECUTE; D-Bus clients press the same
buttons remotely. This directory holds a TLA+ model of the program, TLC runs
over small instances of it, and TLAPS proofs that hold for every value of the
constants.

Paths below are relative to the root of the repository; `PROJECT.json` names the
same files with the directory `src/` it is checked out in before them.

## 1. The system

### Components

| Component | Source | State it keeps | Operations |
|---|---|---|---|
| Function table and access | `src/panel_state_manager.cpp` | `systemState` (six condition bits), per function an active flag and PHYP's flag | `updateBMCState`, `updatePowerState`, `updateBootProgressState`, `setSystemOperatingMode`, `setCEState`, `toggleFuncStateFromPhyp`, `enableFunctonality`, `disableFunctonality`, `isRemoteAccessEnabled` |
| PanelStateManager menu | `src/panel_state_manager.cpp` | current function, three levels of sub states, `isSubrangeActive`, `levelToOperate`, `initialValues`, the last sub function of every function | `incrementState`, `decrementState`, `executeState`, `setIPLParameters`, `initFunction02`, `displayFunc02`, `resetStateManager`, `triggerFunctionDirectly` |
| Executor | `src/executor.cpp` | service switch 1, stored IPL SRCs, PEL event ids and call outs, OS IPL mode, ACF window timer | `executeFunction` and one method per function |
| PELListener | `src/bus_monitor.cpp` | path of the last PEL, a flag that functions 11 to 13 are enabled | PEL created, PEL deleted, the PELs found at start |
| SystemStatus | `src/bus_monitor.cpp` | none | reads of four D-Bus properties at start, four property change callbacks |
| BootProgressCode | `src/bus_monitor.cpp` | none | progress code callback: reads bytes of the code, shows and stores it |
| BusHandler | `src/bus_handler.cpp` | none | `ProcessButton`, `toggleFunctionState`, `ExecuteFunction`, `getEnabledFunctions`, display and lamp test methods, `OSIPLMode`, `ACFWindowActive` |
| ButtonHandler | `src/button_handler.cpp` | read buffer, input device | asynchronous reads of input events |
| PanelPresence | `src/bus_monitor.cpp` | none | callbacks of `Present` of the panels |
| Transport | `src/transport.cpp` | `transportKey`, file descriptor | `setTransportKey`, `panelI2CWrite`, `doSoftReset`, `doButtonConfig` |
| Panel firmware update | `src/transport.cpp` | what the panel runs | `checkAndFixBootLoaderBug`, `doFWUpdate`, `gotoBootloader`, `updateFlash`, `gotoMainProgram` |
| Display and lamp test | `src/utils.cpp` | the two lines last shown, a lamp test timer | `sendCurrDisplayToPanel`, `doLampTest`, `restoreDisplayOnPanel` |
| PldmFramework | `src/pldm_fw.cpp` | none | `sendPanelFunctionToPhyp` |
| MessageEncoder | `src/i2c_message_encoder.cpp` | none | layout and checksum of I2C messages |
| D-Bus helpers | `src/utils.cpp` | none | reads and writes of properties, the list of PELs, `createPEL` |
| Process start | `src/panel_app_main.cpp` | everything above | builds the objects, runs the event loop |

Logger, the command line tool, types and constants have no behaviour of their
own that anything above depends on.

### How they interact

`main` creates one `io_context`, builds all objects in a fixed order (base panel
before LCD panel) and calls `io->run()`. From then on **everything is a callback
on one thread** which runs to completion: a button event, a D-Bus signal, a
D-Bus method, a timer. There are no locks and no data races; what makes the
program hard is the *order* of callbacks, what changes between two of them, and
what is cached across them.

- Buttons reach `processPanelButtonEvent` from ButtonHandler or from
  `ProcessButton`; executing a function calls Executor.
- SystemStatus, PELListener, BusHandler (for PHYP) and function 26 change which
  functions are enabled, in the middle of whatever the operator does; some of
  them also execute function 01 or send the operator back to function 01.
- PanelPresence switches Transport. `setTransportKey` is the exception to short
  callbacks: a sequence of I2C transfers and sleeps that can take seconds to
  minutes. The panel may be removed, replaced or fail between any two of them.
- An exception that no callback catches ends `main` with status 0, and systemd
  starts it again after five seconds (`Restart=always`, `RestartSec=5`). Nothing
  is persisted by the program; PELs, properties and the panel itself are outside.

### What is hard, and what correctness means

The full list, each at its line with the properties that cover it, is `hazards`
in `PROJECT.json`. In short:

- *Access*. Five handlers each change one bit and recompute the active functions
  only on a change; PHYP's list and the PEL listener use two other tests.
  Correct: the enabled functions are always exactly those whose conditions hold;
  the panel never offers what the remote interface would refuse.
- *Menu*. The sub state of level 0 is shared: debounce marker, sub function,
  letter of function 02. Signals move the panel or disable the function it is at
  without looking at it. Correct: a debounce prompt is confirmed only for its
  own function; indices stay in range; a finished edit leaves nothing behind;
  only what the operator changed is written.
- *Execution*. CE mode depends on 25 directly followed by 26. Indices of stored
  entries are chosen in one callback and used in another while entries arrive.
- *PELs*. They are created and erased while the process starts and while their
  signals wait. Correct: the removal of the last PEL is never missed, and functions
  11 to 13 show the newest serious one.
- *Input*. A read is started into the buffer of a batch that is not handled yet.
  Correct: what is passed on was pressed, in that order; who waits is heard.
- *Functions for others*. A function for PHYP takes seven calls of which each may
  fail, and three more to report that; the executor remembers on whose behalf it runs; a timer may have expired
  before it is restarted; a commit of function 02 is three writes. Correct:
  the status goes to the one who asked, FF is never a lie (00 may be one), an open
  window closes.
- *Display*. What is shown is remembered whether the panel got it or not. Correct:
  a panel that is there shows what it was last told, after plugs and restarts.
- *Transport*. Races at start, bounded retries, an update that may stop anywhere.
  Correct: the key follows the inventory; a panel in use is configured; only a
  supported, older firmware is rewritten, and no update that reached its end leaves
  a part of one.

## 2. Modules

| Module | Models | Extends |
|---|---|---|
| `FunctionTable` | the table `functionalityList`, bit masks, sub state values | |
| `FunctionAccess` | which functions are enabled | `FunctionTable` |
| `PanelStateManager` | the menu and the executor state it depends on; its actions contain those of `FunctionAccess` | `FunctionAccess` |
| `Menu` | what the menu promises its operator: the abstract specification that `PanelStateManager` implements | |
| `Function02` | the menu composed with the settings that a commit of function 02 writes | `PanelStateManager` |
| `Executor` | functions for PHYP, external requests, function 74, stored SRCs | |
| `PelListener` | PELs, their signals and the listener; refines `FunctionAccess` | `FunctionTable` |
| `ButtonHandler` | the operator, the input device and the reads of its events | |
| `Messages` | the bytes of commands, hex words and bit maps | |
| `Display` | what the LCD panel shows | `Messages` |
| `Transport` | one panel's connection: presence, key, update, configuration | |
| `MC...` | values of the constants for TLC | the module of that name |
| `PanelStateManagerProofs`, `PanelExecutionProofs` | theorems and proofs about access and the menu, and about what it executes, alone and with the settings | `PanelStateManager`; the first one and `Function02` |
| `MessagesProofs`, `DisplayProofs` | theorems and proofs about the bytes of messages, and what the panel makes of them | `Messages`; the first one and `Display` |
| `ExecutorProofs`, `PelListenerProofs`, `ButtonHandlerProofs`, `TransportProofs` | theorems and proofs | the module of that name |

`PROJECT.json` maps every definition to the lines it stands for. A
definition under a comment that begins with "Mutant" stands before the
definition it varies and has its name with a suffix. It is a plausible mistake,
used to see that a property really depends on the code; no specification uses it.

### FunctionAccess

A byte of flags is the *set* of its bit positions, so `|` is `\cup` and
`(x & m) == m` is `m \subseteq x`. An action is a method: `UpdateBMCState`,
`UpdatePowerState`, `UpdateBootProgressState` and `SetSystemOperatingMode` share
`SetBit`, which recomputes the functions with a mask only if the bit changed.
`ToggleFuncStateFromPhyp`, `SetPelRelatedFunctionState`, `PelWithoutResolution`
and `PelDeleted` change flags directly. `AccessInit` is the state after
SystemStatus read its four properties, each of which may fail.

- `functionStateEnabled` of PELListener is not state here: it only avoids enabling
  11 to 13 again, which changes nothing. `PelListener` has it, and shows that.
- A BMC state that cannot be read counts as ready, because the empty string the
  read returns is still a string (`src/bus_monitor.cpp:548`).

### PanelStateManager

An action is one callback. A press is `PressMove` (INCREMENT, DECREMENT) or
`PressExecute`, which has one disjunct per branch of `executeState`:
`ExecuteFunction02` (enter, next level, commit), `ShowDebounce`,
`EnterSubRange`, `ExitSubRange`, `ExecuteSubFunction`, `ExecutePlainFunction` and
`SetCEState`. Signals are `BMCStateChanged`, `PowerStateChanged`,
`BootProgressChanged`, `OperatingModeChanged`, `PelReceived`, `LastPelDeleted`,
`ProgressCodeReceived`, `OSIPLModeChanged`, `PhypListReceived` and
`FunctionTriggered`. Each contains all calls its callback makes: the trailing
execution of function 01, the recomputation, the reset to function 01.
`Restart` is the start after the process ended; `process` says why it ended.

- `panelCurState` holds the function number instead of the index; the table is
  sorted, so they determine each other.
- What a function does over D-Bus or PLDM is its outcome, 00 or FF (`ok`),
  chosen freely except for 25 (always succeeds) and 26 (only after 25).
- `call`, `lastExecuted` and `prompted` are history: the executor call of the
  last step, the function executed last, and the function whose debounce SRC
  answered the last press. No guard reads them.
- Call outs are counted up to six, the number a PEL's text has room for. Stored
  SRCs and event ids are the lengths of their queues; `Executor` has the entries.
- PELs that exist at start are handled as PELs received right after it. The last
  PEL may be deleted at any time, so the model has more deletions than reality.
- An uncaught exception may follow in any callback (`UncaughtException`). sdbusplus
  may catch one thrown in a method called over D-Bus; the physical buttons have no
  such net, and a press stands for both.

`Menu` is what all this is for: a cursor on the circle of enabled functions and
one dialogue with the function at the cursor, which is "asked" after a debounce SRC
and "open" in a sub range or in function 02. `ImplementsMenu` maps the index to the
cursor, and the sub range flag and the marker in sub state 0 to the dialogue. It
says what no single invariant does: every step of every callback is something the
operator did, or leaves cursor and dialogue alone, but for a reset to function 1,
which never happens in a dialogue; and a function is executed only at the cursor,
after the question it asks. It also says that a move ends at an enabled function.
Which functions an event enables is left to `FunctionAccess`.

### Function02

`Function02Next` is a step of the menu together with what `execute02` writes when
that step commits a mode: power restore policy, auto reboot, BIOS attributes, in
this order. It throws at the first write that is not answered, and that write may
have been made. The settings survive the process. Nobody else is assumed to write
the two policies, which other clients of the BMC can do, too.

The code keeps no record of a commit that failed half way. The panel shows the
empty 02 afterwards, because `displayFunc02` runs after the executor displayed FF
(`src/panel_state_manager.cpp:909`), and on reopening the choice is compared
with the mode in the BIOS table only: choosing the old mode again writes nothing.
`PoliciesGoWithMode` therefore excludes what follows a failed commit, and says that
nothing else separates the mode from its policies.

### Executor

A function that PHYP executes makes seven calls (`CallsToSend`), each of which may
fail, and then `createPEL` makes three more (`Calls`); `SendPanelFunctionToPhyp` says
how each set of successes ends. `CreatePEL` has three ends: the PEL is created; a
failed look up of the service is a `runtime_error`, which goes on to the caller; and
every other failure is swallowed (`src/utils.cpp:40`), so the function is neither sent
nor reported and the caller shows 00 all the same. The panel's
`executeFunction` catches less than `executeFunctionDirectly` of the D-Bus
clients, so the same failure is FF, 00 with or without a PEL, InternalFailure, or the
end of the process. Function 74's timer is armed, expired with its handler queued, or
neither; restarting cancels a wait but no handler that is queued already.
`Stored` is `storeIPLSRC` and `storePelEventId`; `GetPelEventIdCount` appends all
PELs of the system again whenever function 64 is opened.

- PELs and progress codes are numbered in the order of their creation, and no PEL
  is erased here (`PelListener` has that).

### PelListener

The logging service creates and erases PELs (`PelCreated`, `PelErased`); each queues
a signal. `GetListOfExistingPels` is the end of `listenPelEvents`, which has
registered the matches before. A PEL has a severity, a number of lines in its
Resolution and an event id that is long enough or not. Any of the reads of a PEL may
fail and all do when it is gone; `PELEventCallBack` goes on with the empty values.

`Access == INSTANCE FunctionAccess WITH ...` maps the listener to the access model:
function 1 and the functions of PELs, all without mask. `ImplementsAccess` says that
the listener switches functions only by `SetPelRelatedFunctionState`,
`PelWithoutResolution` and `PelDeleted`, although it decides by its flag, its path
and reads that fail. `PanelStateManager` builds on exactly these actions.

### ButtonHandler

The device queues each event with the event that ends its report; a read takes
whole reports, as evdev does. `PerformAsyncRead` transfers at once what is there,
into the buffer, because Boost.Asio tries a read before it waits. The handler
calls it *before* it looks at the batch, so `Handled(ipEvent', transferred)` is the
new contents of the buffer with the old count. The loop returns at the first event
whose value is zero, so of a batch only what precedes its first release or end of
report is passed on. `hurried` is history: the operator went on before the last
event was handled.

### Messages and Display

`Messages` encodes every command byte by byte in 8 and 16 bits, reads hex words of a
progress code by their positions, and lists the functions of a bit map. `Display`
uses these messages: the panel interprets a command only if its check sum is
right (external). A situation is what the panel shows and whether a write failed, and
`Written` has the situations after one message, which may be lost. `SendCurrDisplay`
remembers the lines and writes one message for them and one to scroll them if they
are long (`Displayed`, `ScrollType`). `ReadPresentProperty` resets the panel and sends
its configuration (`Reset`), and shows function 01 if the BMC is Ready.

- `DoLampTest`: a lamp test is ended by its duration or by the next display. The
  comment of `bus_handler.hpp` says that function 01 is executed after a test that is
  triggered off; the code sends the last lines again, and so does the model.
- Whether new lines stop the scrolling of the old ones is the panel's, left open.

### Transport

A step of the process is one I2C transfer with the sleep after it, or the
handling of one signal; `pc` is the method it is in. `Start` and `ReadPresent`
are `main` around `listenPanelPresence()`, and `ReadPresentProperty` is the
callback. `CheckAndFixBootLoaderBug` and `PanelI2CWrite` are one turn of their
loops. The first reads the version and writes a jump in one turn: nothing else
is read or decided between them. `isLCD` tells the two panels apart: the base panel
has the update alone, with its key set and without configuration.

The panel, the bus and the inventory are not under `src/` and are modelled by
what the code relies on: a panel runs its main program or its boot loader;
`Plug`, `Unplug` and `InventoryChanged` may come between any two steps; a read may
return anything the panel could say, garbage or an error; a write may fail after
the panel took it. The inventory reports each change before it notices the next.

- A panel may be replaced by another during an update (`midUpdate`). The program
  cannot notice that, so the properties of the update exclude that panel.
- The image that is written is assumed to be of version `MaxVersion`.
- Answers are "MP", "BL", something else or an error. `gotoBootloader` refuses an
  answer only when both of its letters are wrong (`src/transport.cpp:383`), so
  "something else" may be taken for the boot loader and may not: `ReadBLVersion` has
  both. `doFWUpdate` has such a test, too, but then takes a version from both letters
  only, and an answer without one is below `MinVersion`.
- A main program that is sent chunks because of that is assumed to ignore them, as
  commands without a valid check sum.
- What a plugged LCD panel does to the menu (`updateBMCState` if the BMC is ready)
  is `BMCStateChanged` of PanelStateManager, and what it shows is in `Display`.
- `createPEL` and `logCodeUpdateError` may throw; `Crash` may follow any step.

## 3. What is checked

Every property has a mutant of the code that violates it under the same
configuration; see `mutants` in `PROJECT.json`.

### Runs that pass

| Run | Question | Instance |
|---|---|---|
| `access` | Which functions are enabled? | the whole table, all readings, four PHYP lists, 0, 2 or 5 call outs |
| `menu_ce` | Debounce, CE mode, sub ranges, moves, all system states changing: does the menu implement `Menu`? | functions 1, 3, 14, 22, 25, 26, 30, 73 |
| `menu_ipl` | Editing the IPL parameters with function 02, and what it writes | `Function02` with functions 1, 2, 26, 30; IPL types A and D and unknown |
| `menu_src` | Stored SRCs, PELs and call outs | functions 1, 2, 14 to 16, 63, 64, and 25 and 26, without which there is no CE mode for 63 and 64; queues of 2 |
| `executor` | Who gets which status, does the window close, what do 63 and 64 count through? | 21 at the panel and by clients, 41 at the panel only; queues of 2, 2 PELs, 3 codes, 2 executions of 74 |
| `pel` | Which PEL does the listener follow, and does it implement FunctionAccess? | 3 PELs of any of four kinds |
| `input` | Which presses reach the menu, how often, in which order? | 5 presses, the code's buffer of 10 events |
| `display` | What does the panel show? | four lines, shorter and longer than the 2 visible of 4 characters; 2 waiting signals |
| `transport` | Key, configuration, update, failures of both panels | four versions, image of three chunks, 3 tries |

The properties and what they mean are stated above each of them in the modules.
The ones that matter most:

- `EnabledIffConditionsHold`: no recomputation is ever missed. The one exception is
  a process for which no condition has held yet: it has the defaults of the table,
  which enable six functions whose masks do not hold. The exception is part of
  the property because it is what the code does.
- `PanelAccessImpliesRemoteAccess`: what is offered at the panel with PHYP's consent
  is offered remotely, although the two sides use different tests.
- `ExecutedOnlyWhenConfirmed`: a reboot or a dump is executed only by the press that
  directly follows its prompt, across all signals, resets and restarts.
- `CEModeNeeds25Then26`, `ServiceSwitchIffLast25`, `SwitchAndCEModeExclusive`.
- `OnlyChangesAreWritten`, `PoliciesGoWithMode`, `Edit02InRange`, `CursorReset`.
- `ExecutedSubFunctionExists`, `EnabledCallOutExists`, `SubRangeInRange`.
- `ListenerInv` (its part `LastPelExistsOrIsSignalled`: the removal of the last PEL is
  never missed), `SrcFunctionsShowNewestPel`, `ImplementsAccess`, and the liveness
  property `ErasedPelIsForgotten`.
- `InputInv`, `PatientOperatorIsHeard`, and the liveness property `EventsAreRead`.
- `ExecutorInv` (its parts `WindowHasTimer`, `FailureMeansNotSent`, `QueuesInOrder`),
  `AnswerGoesToCaller`, and the liveness property `WindowCloses`.
- `PanelShowsLastLines`; `DisplayInv`, which contains `MessagesAreRight`: the check sum
  against a formula, the messages of `i2c_message_encoder_test.cpp` and the numbers of
  a bit map.
- `KeyFollowsPresence`, `ReadyPanelIsConfigured`, `FlashedOnlyWhenSupported`,
  `UpdateIsComplete` (after the flash loop the boot loader has the new firmware, and a
  main program that was never left has its own), and the liveness properties `SetTransportKeyEnds` and
  `PresentPanelIsUsed`.

Some of these have premises that the code needs; each was found by TLC:

- Two presses that wait together: the second is lost. A press that arrives between
  a read and its handler takes the place of the one before and is passed on twice
  (`src/button_handler.cpp:76`). So `PatientOperatorIsHeard` is about an operator who
  waits, and `InputInv` allows twice.
- A PEL with a short event id, or one that is gone when its signal is handled,
  enables functions 11 to 13 but is not remembered, so they stay when it is erased.
- A panel that is reset while the BMC is not Ready stays blank.
- Opening function 64 again appends all PELs again, so its entries have repetitions
  although `executor.hpp` calls them the last 25.
- The loop over a bit map ends for less than 32 bytes only (`BitMapEnds`).
- `executor.hpp:303` says that a function for PHYP shows "00 on a successful send and FF on
  a failure". Failures of the socket show 00, with a PEL if that can be created and
  with nothing if it cannot. So `FailureMeansNotSent` is about FF and InternalFailure
  alone; 00 means no more than that the call returned.
- Leaving CE mode by 25 arms service switch 1 again, so 26 directly afterwards enters
  it again: `ServiceSwitchIffLast25` and `CEModeNeeds25Then26` permit that.

### Bounds

- The menu is checked on three parts of the table because the product of the whole
  table with all signals is too large. Each part has, for its question, every
  kind of function that question involves and the signals that change them;
  the functions left out have the same kind (same mask, same sub range or
  debounce) as one that is there. The proofs have no such bound.
- Queues of 2 (`SrcLimit`, `MaxStored`) instead of 25 entries: empty,
  filling, full and overflowing; three codes overflow two entries.
- Three PELs (`MaxPels`): the last one, one before it, and one created while signals
  wait. The kinds cover every combination the listener treats differently.
- Five presses with their releases are up to 20 events, two buffers full: a batch
  that fills the buffer, one that does not, and the rests of both.
- Two executions of function 74 (`MaxExecutions`): open, restart, and restart with the
  old handler queued. Without this bound `WindowCloses` does not hold: an operator who
  executes 74 again and again keeps the window open, as intended.
- Lines of 4 characters with 2 visible instead of 80 and 16: shorter, scrolled, cut.
- 3 tries of a write instead of 6 (`MaxRetry`): first, middle, last.
- Three chunks (2, 2, 1 bytes): first, middle and a cut last one.
- Versions 1 to 4 with `MinVersion` 2 and `MaxVersion` 3: unsupported, to be
  updated, newest, newer.
- Two waiting signals (`MaxSignals`): the panel may come and go while the process
  is busy. `InventoryChanged` waits while the queue is full.

### Fairness

`Transport` assumes `WF_vars(ProcessStep)`: the process is not suspended for ever
while it has a step to do. On one thread with an event loop, a step is the next
statement, or the next handler in the queue; a process that ended is started by
systemd. The panel, the inventory and `Crash` are not assumed to act or to stop.
`PresentPanelIsUsed` has as its premise that the panel stays, the inventory says
so and the process does not end any more. In the same way `ButtonHandler` and
`PelListener` assume weak fairness of the handlers in the event loop, and `Executor`
of the timer, which expires, and of its handler. No operator, client, PEL or
failure is assumed. The menu's specification and `Display` have no fairness: their
properties are safety properties.

### Runs that show disagreements

| Run | Text | What the code does |
|---|---|---|
| `access_revoked` | `panel_state_manager.cpp:250`: a revoked function "should be disabled" | its flag becomes 0xFE, which satisfies every mask without the PHYP bit: with the power on at run time, but not in manual mode, 42 is disabled even while PHYP names it, and *enabled* by not being named any more |
| `menu_callout` | `executor.cpp:615`: no size check as functions are enabled by the count | EXECUTE on a function disabled since it was selected reads beyond the vector |
| `menu_unreadable` | `panel_state_manager.cpp:438`: "Display FF" when values cannot be read | the display uses the invalid sub states as indices, and the process ends |

One more needs no run, since nothing happens between its steps. The comments of
`progressCodeCallBack` (`src/bus_monitor.cpp:472` to `488`) say that it reads as many hex
words as are valid, four bytes each, and clears earlier data. `Messages` has what the
code does (`HexWordPositions`, `HexWord`) beside what the comments say
(`CommentedPositions`, `CommentedWord`), and `HexWordsAreNotAsCommented` proves that they
differ: the last word is not read, every other one becomes twenty digits instead of
eight, and beyond 17 words the array is left, which ends the process.

## 4. What is proved

Every safety invariant, every action property and both refinements that the runs
check are also theorems. They hold for every value of the constants under the named
assumptions of the modules: `TableAssumption`, `UnconditionalAssumption`,
`RemoteAssumption` (FunctionAccess), `MenuAssumption`, `SubRangeAssumption`
(PanelStateManager), `ExecutorAssumption`, `PelAssumption`, `BufferAssumption`
(ButtonHandler), `LineAssumption` (Messages), `TextAssumption` (Display) and
`TransportAssumption`. The assumptions say of the table what `functionalityList`
fulfils (function 1 needs no condition, a function has a debounce SRC or sub
functions but not both, ...), of the buffer that it holds whole reports, of the
panel that a line has at least the characters it shows at a time, and of the
rest their types. TLC evaluates them in every run.

- **PanelStateManagerProofs**. First FunctionAccess alone: `AccessInv` is the type
  invariant with `EnabledIffConditionsHold` and `SomeFunctionEnabled`; it is inductive
  because every action either leaves functions with a mask alone or recomputes all of
  them. `PanelAccessIsRemoteAccess` follows from it and `RemoteAssumption`: 0xFE lacks
  exactly the bit that the remotely supported functions need. Then the menu: every
  step of the program is, on the variables of access, a step of FunctionAccess or a
  restart (`NextIsAccessStep`), so `AccessInv` carries over. `MenuInv` adds to the
  properties that sub ranges of the table never change (`FixedSubRanges`), that sub
  states are at rest outside an edit (`IdleSubStates`) and that a debounce state
  belongs to the last prompt (`DebounceWasPrompted`). `ExecutedOnlyWhenConfirmed` rests
  on the last one: that the marker is set at a debounce function does not say yet that
  the last press put it there.
- **PanelExecutionProofs**. `CallInv` relates the service switch, CE mode and the
  history; `EnabledCallOutExists` is inductive with it; `OpenRangeIsStored` says that
  the last sub function of an open 63 or 64 has an entry, which stays true because
  entries are only added. The action properties follow from these invariants and
  a classification of the steps that call the executor (`NextExecutes`). The
  composition with the settings implements the menu (`Function02ImplementsMenu`), so
  all these theorems hold in it, too; `MenuHoldsInComposition` names those which the
  run of the composition checks. `PoliciesGoWithMode` needs `WholeUnlessRefused`, its
  part about states. `PanelImplementsMenu` is the refinement of `Menu`, with one lemma
  per kind of step. It rests on most of the invariant: a function that opens never
  asks (`OpeningFunctionsOpen`, from `FixedSubRanges` and the table), a dialogue is
  closed at every function that has none (`DialogueOfFunction`, from `SubRangeInRange`
  and `DebounceIsForCurrentFunction`), and `Menu` knows CE mode by the last function
  executed only because service switch 1 does (`ServiceSwitchIffLast25`).
- **ExecutorProofs**. `ExecutorInv` needs `TimerBound`: handlers that are queued and a
  timer that runs are no more than the executions of 74, without which the type of
  `expired` is not preserved. `StoredIsSuffix` is what the queues rest on.
- **PelListenerProofs**. `ListenerIndInv` adds that signals of new PELs wait in the
  order of their creation (`AddedInOrder`) and that the listener knows the newest
  serious PEL of those whose signals it has handled (`KnowsNewest`). Neither
  `SrcFunctionsShowNewestPel` nor the refinement follows from the listener's own
  state: a PEL found in the list at start is signalled again. The refinement is
  `ListenerImplementsAccess`: initial states map to initial states, and every step to
  a step of FunctionAccess or a stutter, so the theorems of the first item hold of
  the listener.
- **ButtonHandlerProofs**. `InputIndInv`: the queue has whole reports
  (`ReportsAreWhole`) of increasing presses (`QueueInOrder`) that are later than what
  the buffer starts with (`FrontNotOld`): only the first entry of the buffer can
  still be passed on, once. `PatientInv` says for the patient operator that only one
  event is under way.
- **MessagesProofs**. `CheckSumRight`: for a message of *any* length, the check sum with
  the carries that are left over adds its bytes up to nothing, the formula that the
  run compares for samples only. `ListIsNumber`: for any two bytes PHYP sends, the
  functions of the bit map are the binary digits of the number, but bit 0, which the
  loop does not look at. `MessagesRight` is the property of the run, from these and
  from the bytes of the commands. `HexWordsAreNotAsCommented` compares code and comments
  for every number of hex words and all their bytes. Sums are recursive functions, and
  what such a function computes needs first that it exists: `RecursionExists` builds it
  from its finite beginnings, with `NatSetInduction`, an induction over a *set* of numbers that
  follows from the well-foundedness of `<`.
- **DisplayProofs**. The panel reads back exactly what `Messages` encodes
  (`RawDisplayIsRead`, `ScrollIsRead` and so on: the check sum matches, and the lines are
  found at their positions), so a display that is written shows the lines and scrolls
  those that need it (`DisplayedShows`), from every situation. `DispInv` needs more
  than `PanelShowsLastLines`: the lines are right while the lamps are on and before the
  process is running (`LinesShown`, `NothingShownYet`), the last of the signals that wait
  tells whether the panel is there (`SignalsTell`), and without signals and failures
  the key is set (`KeyTells`). Without the key a display would be remembered and not
  written.
- **TransportProofs**. `KeyInv`: if a signal waits, the last one tells `present`
  (`SignalsTell`); if none waits, the key does (`KeyTells`). `ConfigInv`: the buttons
  of the messages before the current one are on, unless one was not delivered
  (`ButtonsSoFar`). `UpdateInv`: inside the update the firmware is supported
  (`OnlySupportedIsUpdated`), a panel never has another firmware than the one it came
  with, a part, or the new one (`FirmwareIsKnown`), and until the image is written a
  main program has the one it came with (`ImageIsWritten`): the boot loader's answer
  does not tell which program the chunks go to. `LoopInv` has the limits of the three loops.

Liveness under fairness and ENABLED are out of the prover's reach, so the five liveness
properties are model-checked. Their safety is proved: four theorems state a bound
for what is left to do, which no interleaving can raise, so that only the fairness
is taken from TLC.

| Liveness property | Theorem | What is proved |
|---|---|---|
| `SetTransportKeyEnds` | `SetTransportKeyIsBounded` | a call takes at most `LongestCall` steps: tries of the boot loader, chunks of the image, four messages of `MaxRetry` tries; every step of the process lowers `StepsLeft`, whatever the panel does |
| `WindowCloses` | `WindowEnds` | an open window has a timer or a handler, and every step closes it, leaves it alone or lowers `HandlersLeft`, at most three per execution of 74 |
| `ErasedPelIsForgotten` | `RemovalIsNotHeldUp` | the removal of the last PEL waits at a started process, and every signal that is handled brings it one place forward |
| `EventsAreRead` | `EventsAreTaken` | while events wait, every step of operator and handler lowers `EventsLeft`: no handler comes back without having read some |
| `PresentPanelIsUsed` | `KeyIsRight` | the key is right as soon as no signal waits |

RECURSIVE operators would be out of reach, too; no module here declares one.

## 5. What is not modelled, and the plan

Not modelled for good: texts and their layout on the display, logging, the
command line tool, the D-Bus reads of single functions that only show values, the
contents of firmware images, look up of device paths, the LEDs of the Everest base
panel (`resetLEDState`: one write per LED, no state), the layout of a PLDM request.
Functions that call other services and show the result (03, 04, 08, 42, 43, 55, 73)
are their outcome; 73 may fail between the reset it requests and the reboot.

Left to do, in this order:

1. An abstract `Panel` (absent, being prepared, ready) with `Transport` shown to
   implement it.
2. `PanelStateManager` composed with `PelListener` in place of its free `PelReceived`
   and `LastPelDeleted`; the refinement to `FunctionAccess` is the step that allows it.
3. `PanelApp`: base and LCD panel together with the start order that `main`'s comment
   demands, and the restart of the whole process.
