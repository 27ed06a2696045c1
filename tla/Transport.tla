----------------------------- MODULE Transport -----------------------------
(* The connection to one operator panel: class Transport, and the part of    *)
(* main and PanelPresence that sets its transport key. Unlike the menu,      *)
(* these methods are long sequences of I2C calls and sleeps, and the panel   *)
(* may be unplugged, plugged in again or fail between any two of them: a     *)
(* step of the process is one I2C transfer (with the sleep after it), or the *)
(* handling of one signal.                                                   *)
EXTENDS Integers, Sequences

CONSTANTS
  Versions,           \* the firmware versions of panels
  MinVersion,         \* constants::minPanelVersion
  MaxVersion,         \* constants::maxLCDVersion or maxBaseVersion
  ImageSize,          \* the size of firmware::lcd or firmware::base
  MaxFlashWriteChunk, \* constants::maxFlashWriteChunk
  FixRetries,         \* the retries of checkAndFixBootLoaderBug
  MaxRetry,           \* maxRetry of panelI2CWrite
  MaxSignals          \* bound: signals of the inventory that wait

VARIABLES
  \* the panel and the inventory, which are not under src/
  plugged,      \* a panel is plugged in
  program,      \* the program it runs: its main program or its boot loader
  firmware,     \* the version of its main program, PARTIAL while it is rewritten
  buttonsOn,    \* the buttons it reports
  present,      \* Present of the panel in the inventory
  signals,      \* PropertiesChanged signals of Present that wait in io_context
  \* the process
  isLCD,        \* panelType = PanelType::LCD, given to the constructor
  pc,           \* the method the process is in
  transportKey,
  retries,      \* of the loops of checkAndFixBootLoaderBug and panelI2CWrite
  chunkIndex,   \* the bytes of the image that have been written
  message,      \* the message of doSoftReset and doButtonConfig to be written
  \* history
  pluggedVersion, \* firmware when the panel was plugged in
  midUpdate,      \* the panel was plugged in during the update of another
  undelivered,    \* a message of the last configuration did not get through
  unread          \* the read of Present at the start failed

panelVars == <<plugged, program, firmware, buttonsOn>>
inventoryVars == <<present, signals>>
processVars == <<pc, transportKey, retries, chunkIndex, message>>
historyVars == <<pluggedVersion, midUpdate, undelivered, unread>>
vars == <<isLCD, panelVars, inventoryVars, processVars, historyVars>>

PARTIAL == 0

ASSUME TransportAssumption ==
  /\ Versions \subseteq Nat \ {PARTIAL}
  /\ MinVersion \in Versions /\ MaxVersion \in Versions
  /\ ImageSize \in Nat \ {0} /\ MaxFlashWriteChunk \in Nat \ {0}
  /\ FixRetries \in Nat \ {0} /\ MaxRetry \in Nat \ {0} /\ MaxSignals \in Nat

Buttons == 0..2
\* doSoftReset writes message 0, doButtonConfig messages 1 to 3, one per button.
LastMessage == 3

Methods == {"down", "main", "io", "checkAndFixBootLoaderBug", "doFWUpdate",
            "gotoBootloader", "blVersion", "updateFlash", "gotoMainProgram",
            "mpVersion", "panelI2CWrite"}
\* From the version check of doFWUpdate to the end of the update.
Updating == {"gotoBootloader", "blVersion", "updateFlash", "gotoMainProgram", "mpVersion"}

-----------------------------------------------------------------------------
\* What a read of the version may return: the program that runs, something
\* that is neither program's name, or an error.
Replies == {"none", "other"} \cup (IF plugged THEN {program} ELSE {})

\* The panel takes a jump or not. The jump to the main program only works when
\* there is one, and a program that is started does not report buttons.
Jump(to) ==
  /\ program' \in {program} \cup
       (IF plugged /\ (to = "MP" => firmware # PARTIAL) THEN {to} ELSE {})
  /\ buttonsOn' = IF program' = program THEN buttonsOn ELSE {}

-----------------------------------------------------------------------------
\* The end of setTransportKey: an LCD panel is configured.
Configure ==
  IF isLCD
  THEN /\ pc' = "panelI2CWrite" /\ message' = 0 /\ retries' = 0
       /\ undelivered' = FALSE
  ELSE /\ pc' = "io"
       /\ UNCHANGED <<message, retries, undelivered>>

SetTransportKey(keyValue) ==
  /\ transportKey' = keyValue
  /\ IF keyValue
     THEN pc' = "checkAndFixBootLoaderBug" /\ retries' = FixRetries
     ELSE pc' = "io" /\ UNCHANGED retries

\* main up to presence->listenPanelPresence(): signals are received from here.
Start ==
  /\ pc = "down"
  /\ pc' = "main" /\ transportKey' = FALSE /\ signals' = <<>>
  /\ UNCHANGED <<panelVars, present, retries, chunkIndex, message, historyVars>>

\* main reads Present after it listens, and sets the key by it; a failed read
\* gives FALSE. The key of a base panel is set without a look at the inventory.
\* Mutant: a panel that was there a moment ago is taken for present.
ReadPresent_Assumed ==
  /\ pc = "main"
  /\ SetTransportKey(TRUE)
  /\ unread' = FALSE
  /\ UNCHANGED <<panelVars, inventoryVars, chunkIndex, message,
                 pluggedVersion, midUpdate, undelivered>>
ReadPresent ==
  /\ pc = "main"
  /\ \E value \in IF isLCD THEN {present, FALSE} ELSE {TRUE} :
       /\ SetTransportKey(value)
       /\ unread' = (isLCD /\ value # present)
  /\ UNCHANGED <<panelVars, inventoryVars, chunkIndex, message,
                 pluggedVersion, midUpdate, undelivered>>

\* PanelPresence::readPresentProperty
\* Mutant: only the removal of a panel is handled.
ReadPresentProperty_Removal ==
  /\ pc = "io" /\ signals # <<>>
  /\ SetTransportKey(Head(signals) /\ transportKey)
  /\ signals' = Tail(signals)
  /\ unread' = FALSE
  /\ UNCHANGED <<panelVars, present, chunkIndex, message,
                 pluggedVersion, midUpdate, undelivered>>
ReadPresentProperty ==
  /\ pc = "io" /\ signals # <<>>
  /\ SetTransportKey(Head(signals))
  /\ signals' = Tail(signals)
  /\ unread' = FALSE
  /\ UNCHANGED <<panelVars, present, chunkIndex, message,
                 pluggedVersion, midUpdate, undelivered>>

-----------------------------------------------------------------------------
\* One turn of the loop of checkAndFixBootLoaderBug: a read of the version and,
\* for the boot loader, the write of the jump, which may not get through.
\* Mutant: after a jump the tries are counted from the start again.
CheckAndFixBootLoaderBug_RetriesAnew ==
  /\ pc = "checkAndFixBootLoaderBug"
  /\ \/ /\ retries = 0
        /\ pc' = "doFWUpdate" /\ UNCHANGED <<retries, program, buttonsOn>>
     \/ \E reply \in Replies :
          /\ retries > 0
          /\ retries' = IF reply = "BL" THEN FixRetries ELSE retries - 1
          /\ pc' = IF reply = "MP" THEN "doFWUpdate" ELSE pc
          /\ IF reply = "BL" THEN Jump("MP") ELSE UNCHANGED <<program, buttonsOn>>
  /\ UNCHANGED <<plugged, firmware, inventoryVars, transportKey, chunkIndex,
                 message, historyVars>>
CheckAndFixBootLoaderBug ==
  /\ pc = "checkAndFixBootLoaderBug"
  /\ \/ /\ retries = 0
        /\ pc' = "doFWUpdate" /\ UNCHANGED <<retries, program, buttonsOn>>
     \/ \E reply \in Replies :
          /\ retries > 0
          /\ retries' = retries - 1
          /\ pc' = IF reply = "MP" THEN "doFWUpdate" ELSE pc
          /\ IF reply = "BL" THEN Jump("MP") ELSE UNCHANGED <<program, buttonsOn>>
  /\ UNCHANGED <<plugged, firmware, inventoryVars, transportKey, chunkIndex,
                 message, historyVars>>

\* doFWUpdate up to gotoBootloader: only the main program tells its version.
\* Mutant: a panel with a newer firmware is updated, too.
NeedsUpdate_AnyOther == firmware >= MinVersion /\ firmware # MaxVersion
NeedsUpdate == firmware >= MinVersion /\ firmware < MaxVersion

DoFWUpdate ==
  /\ pc = "doFWUpdate"
  /\ \E reply \in Replies :
       IF reply = "MP" /\ NeedsUpdate
       THEN pc' = "gotoBootloader" /\ UNCHANGED <<message, retries, undelivered>>
       ELSE Configure
  /\ UNCHANGED <<panelVars, inventoryVars, transportKey, chunkIndex,
                 pluggedVersion, midUpdate, unread>>

\* gotoBootloader: the write of the jump. Like every write it may fail for other
\* reasons than a missing panel, and the panel may have taken it then.
GotoBootloader ==
  /\ pc = "gotoBootloader"
  /\ Jump("BL")
  /\ \/ plugged /\ pc' = "blVersion" /\ UNCHANGED <<message, retries, undelivered>>
     \/ Configure
  /\ UNCHANGED <<plugged, firmware, inventoryVars, transportKey, chunkIndex,
                 pluggedVersion, midUpdate, unread>>

\* The second half of gotoBootloader. The answer is refused only when both of its
\* letters are wrong: one right letter of a garbled answer is enough, whichever
\* program runs.
ReadBLVersion ==
  /\ pc = "blVersion"
  /\ \E reply \in Replies :
       \/ /\ reply \in {"BL", "other"}
          /\ pc' = "updateFlash" /\ chunkIndex' = 0
          /\ UNCHANGED <<message, retries, undelivered>>
       \/ reply # "BL" /\ Configure /\ UNCHANGED chunkIndex
  /\ UNCHANGED <<panelVars, inventoryVars, transportKey, pluggedVersion,
                 midUpdate, unread>>

\* The size of the next chunk. Mutant: the last chunk is not cut.
MaxAvailBytes_Uncut == MaxFlashWriteChunk
MaxAvailBytes ==
  IF ImageSize - chunkIndex < MaxFlashWriteChunk
  THEN ImageSize - chunkIndex ELSE MaxFlashWriteChunk

\* What a chunk does to the firmware of the panel: it has the new one once it
\* received the whole image, and none before; a panel that was plugged in after
\* the first chunk may miss a part. The main program ignores the chunks.
Flashed(written) ==
  CASE program # "BL" -> {firmware}
    [] program = "BL" /\ written < ImageSize -> {PARTIAL}
    [] OTHER -> {MaxVersion} \cup (IF midUpdate THEN {PARTIAL} ELSE {})

\* One turn of the loop of updateFlash.
UpdateFlash ==
  /\ pc = "updateFlash" /\ chunkIndex < ImageSize
  /\ \/ /\ plugged
        /\ chunkIndex' = chunkIndex + MaxAvailBytes
        /\ firmware' \in Flashed(chunkIndex')
        /\ pc' = IF chunkIndex' < ImageSize THEN pc ELSE "gotoMainProgram"
        /\ UNCHANGED <<message, retries, undelivered>>
     \/ /\ firmware' \in {firmware} \cup (IF plugged /\ program = "BL" THEN {PARTIAL} ELSE {})
        /\ Configure /\ UNCHANGED chunkIndex
  /\ UNCHANGED <<plugged, program, buttonsOn, inventoryVars, transportKey,
                 pluggedVersion, midUpdate, unread>>

\* gotoMainProgram: EIO is taken for a success, any other error is not.
GotoMainProgram ==
  /\ pc = "gotoMainProgram"
  /\ Jump("MP")
  /\ \/ pc' = "mpVersion" /\ UNCHANGED <<message, retries, undelivered>>
     \/ Configure
  /\ UNCHANGED <<plugged, firmware, inventoryVars, transportKey, chunkIndex,
                 pluggedVersion, midUpdate, unread>>

\* The read of the new version only decides what is logged.
\* Mutant: a panel that was updated is not configured.
ReadMPVersion_Returns ==
  /\ pc = "mpVersion"
  /\ pc' = "io"
  /\ undelivered' = FALSE
  /\ UNCHANGED <<panelVars, inventoryVars, transportKey, chunkIndex, message,
                 retries, pluggedVersion, midUpdate, unread>>
ReadMPVersion ==
  /\ pc = "mpVersion"
  /\ Configure
  /\ UNCHANGED <<panelVars, inventoryVars, transportKey, chunkIndex,
                 pluggedVersion, midUpdate, unread>>

-----------------------------------------------------------------------------
\* The main program takes a message: a soft reset turns all buttons off.
Took(m) ==
  CASE program # "MP" -> buttonsOn
    [] program = "MP" /\ m = 0 -> {}
    [] OTHER -> buttonsOn \cup {m - 1}

NextMessage ==
  IF message = LastMessage
  THEN pc' = "io" /\ UNCHANGED <<message, retries>>
  ELSE message' = message + 1 /\ retries' = 0 /\ UNCHANGED pc

\* One turn of the loop of panelI2CWrite for the current message of the
\* configuration. After a failure Present is read; the loop goes on only when
\* it is TRUE, and a failed read is FALSE. The last failure logs a PEL.
PanelI2CWrite ==
  /\ pc = "panelI2CWrite"
  /\ \/ /\ plugged
        /\ buttonsOn' = Took(message)
        /\ NextMessage
        /\ UNCHANGED undelivered
     \/ \E value \in {present, FALSE} :
          /\ IF value /\ retries + 1 < MaxRetry
             THEN retries' = retries + 1 /\ UNCHANGED <<pc, message, undelivered>>
             ELSE NextMessage /\ undelivered' = TRUE
          /\ buttonsOn' \in {buttonsOn} \cup (IF plugged THEN {Took(message)} ELSE {})
  /\ UNCHANGED <<plugged, program, firmware, inventoryVars, transportKey,
                 chunkIndex, pluggedVersion, midUpdate, unread>>

\* An exception, for instance of createPEL, or any other end of the process.
Crash ==
  /\ pc # "down"
  /\ pc' = "down"
  /\ UNCHANGED <<panelVars, inventoryVars, transportKey, retries, chunkIndex,
                 message, historyVars>>

-----------------------------------------------------------------------------
\* Some panel is plugged in. It starts in its main program if it has one, and
\* sometimes stays in its boot loader.
Plug ==
  /\ ~plugged /\ present = plugged
  /\ plugged' = TRUE
  /\ firmware' \in Versions \cup {firmware}
  /\ program' \in IF firmware' = PARTIAL THEN {"BL"} ELSE {"MP", "BL"}
  /\ buttonsOn' = {}
  /\ pluggedVersion' = firmware'
  /\ midUpdate' = (pc \in Updating)
  /\ UNCHANGED <<inventoryVars, processVars, undelivered, unread>>

Unplug ==
  /\ plugged /\ present = plugged
  /\ plugged' = FALSE
  /\ UNCHANGED <<program, firmware, buttonsOn, inventoryVars, processVars, historyVars>>

\* The inventory notices the change and signals it to the processes that listen.
InventoryChanged ==
  /\ present # plugged /\ Len(signals) < MaxSignals
  /\ present' = plugged
  /\ signals' = IF isLCD /\ pc # "down" THEN Append(signals, plugged) ELSE signals
  /\ UNCHANGED <<panelVars, processVars, historyVars>>

Init ==
  /\ isLCD \in BOOLEAN
  /\ plugged \in BOOLEAN /\ present = plugged
  /\ firmware \in Versions \cup {PARTIAL}
  /\ program \in IF firmware = PARTIAL THEN {"BL"} ELSE {"MP", "BL"}
  /\ buttonsOn = {} /\ signals = <<>>
  /\ pc = "down" /\ transportKey = FALSE
  /\ retries = 0 /\ chunkIndex = 0 /\ message = 0
  /\ pluggedVersion = firmware
  /\ midUpdate = FALSE /\ undelivered = FALSE /\ unread = FALSE

\* systemd restarts the process; main and the event loop do the rest.
ProcessStep ==
  /\ \/ Start \/ ReadPresent \/ ReadPresentProperty
     \/ CheckAndFixBootLoaderBug \/ DoFWUpdate \/ GotoBootloader \/ ReadBLVersion
     \/ UpdateFlash \/ GotoMainProgram \/ ReadMPVersion \/ PanelI2CWrite
  /\ UNCHANGED isLCD

Next ==
  \/ ProcessStep
  \/ (Crash \/ Plug \/ Unplug \/ InventoryChanged) /\ UNCHANGED isLCD

\* The process is never suspended for ever while it has something to do.
Spec == Init /\ [][Next]_vars /\ WF_vars(ProcessStep)

-----------------------------------------------------------------------------
\* The type invariant.
TransportTypeOK ==
  /\ isLCD \in BOOLEAN
  /\ plugged \in BOOLEAN /\ present \in BOOLEAN
  /\ program \in {"MP", "BL"}
  /\ firmware \in Versions \cup {PARTIAL} /\ pluggedVersion \in Versions \cup {PARTIAL}
  /\ buttonsOn \subseteq Buttons
  /\ signals \in Seq(BOOLEAN)
  /\ pc \in Methods
  /\ transportKey \in BOOLEAN
  /\ retries \in Nat
  /\ chunkIndex \in 0..ImageSize
  /\ message \in 0..LastMessage
  /\ midUpdate \in BOOLEAN /\ undelivered \in BOOLEAN /\ unread \in BOOLEAN

\* Once the process has handled what happened, the key tells whether the LCD panel
\* is there: neither a panel that comes or goes while the process starts (the race
\* main describes before it reads Present) nor one that does during an update or
\* the retries of a write leaves a wrong key. Only a failed read of Present does.
KeyFollowsPresence ==
  isLCD /\ pc = "io" /\ signals = <<>> /\ ~unread => transportKey = present

\* A panel in use reports its buttons: no order of plugging, updating, restarts
\* and retried writes leaves a panel that took all messages of its configuration
\* without them.
ReadyPanelIsConfigured ==
  /\ isLCD /\ pc = "io" /\ signals = <<>> /\ plugged /\ present
  /\ transportKey /\ program = "MP" /\ ~undelivered
  => buttonsOn = Buttons

\* The firmware of a panel is rewritten only if doFWUpdate found a version it can
\* update and that is older, however often panels, process and writes fail. A
\* panel that takes the place of another during its update is not protected.
FlashedOnlyWhenSupported ==
  firmware # pluggedVersion /\ ~midUpdate =>
    pluggedVersion >= MinVersion /\ pluggedVersion < MaxVersion

\* When the program leaves the flash loop, it has written the image to its end and
\* not beyond. A panel that was there all the time never has a part of a firmware
\* then: its boot loader has the new one, and a main program that was not left for
\* the boot loader, but passed for it with a garbled answer, is the old one or the
\* new one that was started since.
UpdateIsComplete ==
  pc \in {"gotoMainProgram", "mpVersion"} =>
    /\ chunkIndex = ImageSize
    /\ plugged /\ ~midUpdate =>
         firmware \in {MaxVersion} \cup (IF program = "MP" THEN {pluggedVersion} ELSE {})

\* setTransportKey ends, whatever the panel answers: its loops are bounded.
SetTransportKeyEnds == pc \notin {"down", "io"} ~> pc \in {"down", "io"}

\* A panel that stays is used at last, also when it came during the start, an
\* update or a retry.
PresentPanelIsUsed ==
  isLCD /\ <>[](pc # "down" /\ plugged /\ present) => <>[](transportKey \/ unread)

=============================================================================
