-------------------------- MODULE TransportProofs --------------------------
(* The safety properties of Transport, for every set of versions, size of    *)
(* the image and of its chunks, number of retries and length of the signal   *)
(* queue. The invariants are proved one on top of the other: types, the key, *)
(* the configuration, the update, and the length of a call.                  *)
EXTENDS Transport, SequenceTheorems, TLAPS

\* Every exit of setTransportKey's I2C part, and its begin, keep the types.
LEMMA ConfigureTypes ==
  ASSUME TransportTypeOK, Configure
  PROVE  /\ pc' \in Methods /\ message' \in 0..LastMessage /\ retries' \in Nat
         /\ undelivered' \in BOOLEAN
<1>1. pc' \in Methods /\ message' \in 0..LastMessage /\ retries' \in Nat
  <2>1. CASE isLCD
    BY <2>1 DEF Configure, Methods, LastMessage
  <2>2. CASE ~isLCD
    BY <2>2 DEF Configure, TransportTypeOK, Methods
  <2> QED BY <2>1, <2>2
<1>2. undelivered' \in BOOLEAN
  BY Zenon DEF Configure, TransportTypeOK
<1> QED BY <1>1, <1>2

LEMMA SetTransportKeyTypes ==
  ASSUME TransportTypeOK, NEW value \in BOOLEAN, SetTransportKey(value)
  PROVE  pc' \in Methods /\ transportKey' \in BOOLEAN /\ retries' \in Nat
  BY TransportAssumption DEF SetTransportKey, TransportTypeOK, Methods

LEMMA JumpTypes ==
  ASSUME TransportTypeOK, NEW to \in {"MP", "BL"}, Jump(to)
  PROVE  program' \in {"MP", "BL"} /\ buttonsOn' \subseteq Buttons
  BY DEF Jump, TransportTypeOK

\* The next chunk fits what is left of the image, and is not empty.
LEMMA ChunkFits ==
  ASSUME TransportTypeOK, chunkIndex < ImageSize
  PROVE  /\ MaxAvailBytes \in Nat \ {0}
         /\ chunkIndex + MaxAvailBytes \in 0..ImageSize
  BY TransportAssumption DEF TransportTypeOK, MaxAvailBytes

LEMMA InitTypes == Init => TransportTypeOK
<1> SUFFICES ASSUME Init PROVE TransportTypeOK
  OBVIOUS
<1>1. plugged \in BOOLEAN /\ present \in BOOLEAN /\ transportKey \in BOOLEAN
  BY DEF Init
<1>2. midUpdate \in BOOLEAN /\ undelivered \in BOOLEAN /\ unread \in BOOLEAN
  BY DEF Init
<1>3. /\ program \in {"MP", "BL"} /\ buttonsOn \subseteq Buttons
      /\ firmware \in Versions \cup {PARTIAL} /\ pluggedVersion \in Versions \cup {PARTIAL}
  BY DEF Init
<1>4. signals \in Seq(BOOLEAN) /\ pc \in Methods /\ retries \in Nat
  BY DEF Init, Methods
<1>5. chunkIndex \in 0..ImageSize /\ message \in 0..LastMessage
  BY TransportAssumption DEF Init, LastMessage
<1>6. isLCD \in BOOLEAN
  BY DEF Init
<1> QED BY <1>1, <1>2, <1>3, <1>4, <1>5, <1>6 DEF TransportTypeOK

\* The parts of the step relation, named for the case splits below.
LEMMA NextCases ==
  ASSUME [Next]_vars
  PROVE  \/ Start \/ ReadPresent \/ ReadPresentProperty
         \/ CheckAndFixBootLoaderBug \/ DoFWUpdate \/ GotoBootloader
         \/ ReadBLVersion \/ UpdateFlash \/ GotoMainProgram \/ ReadMPVersion
         \/ PanelI2CWrite \/ Crash \/ Plug \/ Unplug \/ InventoryChanged
         \/ UNCHANGED vars
  BY DEF Next, ProcessStep

LEMMA PanelTypeIsFixed == [Next]_vars => isLCD' = isLCD
  BY DEF Next, ProcessStep, vars

LEMMA NextKeepsTypes == TransportTypeOK /\ [Next]_vars => TransportTypeOK'
<1> SUFFICES ASSUME TransportTypeOK, [Next]_vars PROVE TransportTypeOK'
  OBVIOUS
<1> USE DEF panelVars, inventoryVars, processVars, historyVars
<1>0. isLCD' = isLCD
  BY PanelTypeIsFixed
<1> USE <1>0
<1>1. CASE Start
  <2>1. signals' \in Seq(BOOLEAN) /\ pc' \in Methods
    BY <1>1 DEF Start, Methods
  <2>2. transportKey' \in BOOLEAN
    BY <1>1 DEF Start
  <2> QED BY <1>1, <2>1, <2>2 DEF Start, TransportTypeOK
<1>2. CASE ReadPresent
  <2>1. PICK value \in BOOLEAN : SetTransportKey(value) /\ unread' \in BOOLEAN
    BY <1>2 DEF ReadPresent, TransportTypeOK
  <2> QED BY <1>2, <2>1, SetTransportKeyTypes DEF ReadPresent, TransportTypeOK
<1>3. CASE ReadPresentProperty
  <2>1. Head(signals) \in BOOLEAN /\ Tail(signals) \in Seq(BOOLEAN)
    BY <1>3 DEF ReadPresentProperty, TransportTypeOK
  <2> QED
    BY <1>3, <2>1, SetTransportKeyTypes DEF ReadPresentProperty, TransportTypeOK
<1>4. CASE CheckAndFixBootLoaderBug
  <2>1. /\ program' \in {"MP", "BL"} /\ buttonsOn' \subseteq Buttons
        /\ retries' \in Nat /\ pc' \in Methods
    BY <1>4, JumpTypes DEF CheckAndFixBootLoaderBug, TransportTypeOK, Methods
  <2> QED BY <1>4, <2>1 DEF CheckAndFixBootLoaderBug, TransportTypeOK
<1>5. CASE DoFWUpdate
  <2>1. /\ pc' \in Methods /\ message' \in 0..LastMessage /\ retries' \in Nat
        /\ undelivered' \in BOOLEAN
    BY <1>5, ConfigureTypes DEF DoFWUpdate, TransportTypeOK, Methods
  <2> QED BY <1>5, <2>1 DEF DoFWUpdate, TransportTypeOK
<1>6. CASE GotoBootloader
  <2>1. /\ pc' \in Methods /\ message' \in 0..LastMessage /\ retries' \in Nat
        /\ undelivered' \in BOOLEAN
    BY <1>6, ConfigureTypes DEF GotoBootloader, TransportTypeOK, Methods
  <2> QED BY <1>6, <2>1, JumpTypes DEF GotoBootloader, TransportTypeOK
<1>7. CASE ReadBLVersion
  <2>1. /\ pc' \in Methods /\ message' \in 0..LastMessage /\ retries' \in Nat
        /\ undelivered' \in BOOLEAN /\ chunkIndex' \in 0..ImageSize
    BY <1>7, ConfigureTypes, TransportAssumption
    DEF ReadBLVersion, TransportTypeOK, Methods
  <2> QED BY <1>7, <2>1 DEF ReadBLVersion, TransportTypeOK
<1>8. CASE UpdateFlash
  <2>1. /\ pc' \in Methods /\ message' \in 0..LastMessage /\ retries' \in Nat
        /\ undelivered' \in BOOLEAN
    BY <1>8, ConfigureTypes DEF UpdateFlash, TransportTypeOK, Methods
  <2>2. firmware' \in Versions \cup {PARTIAL}
    BY <1>8, TransportAssumption DEF UpdateFlash, Flashed, TransportTypeOK
  <2>3. chunkIndex' \in 0..ImageSize
    BY <1>8, ChunkFits DEF UpdateFlash, TransportTypeOK
  <2> QED BY <1>8, <2>1, <2>2, <2>3 DEF UpdateFlash, TransportTypeOK
<1>9. CASE GotoMainProgram
  <2>1. /\ pc' \in Methods /\ message' \in 0..LastMessage /\ retries' \in Nat
        /\ undelivered' \in BOOLEAN
    BY <1>9, ConfigureTypes DEF GotoMainProgram, TransportTypeOK, Methods
  <2> QED BY <1>9, <2>1, JumpTypes DEF GotoMainProgram, TransportTypeOK
<1>10. CASE ReadMPVersion
  BY <1>10, ConfigureTypes DEF ReadMPVersion, TransportTypeOK
<1>11. CASE PanelI2CWrite
  <2>1. Took(message) \subseteq Buttons
    BY DEF Took, TransportTypeOK, Buttons, LastMessage
  <2>2. pc' \in Methods /\ message' \in 0..LastMessage /\ retries' \in Nat
    BY <1>11 DEF PanelI2CWrite, NextMessage, TransportTypeOK, Methods, LastMessage
  <2>4. undelivered' \in BOOLEAN
    BY <1>11, Zenon DEF PanelI2CWrite, TransportTypeOK
  <2>3. buttonsOn' \subseteq Buttons
    BY <1>11, <2>1 DEF PanelI2CWrite, TransportTypeOK
  <2> QED BY <1>11, <2>2, <2>3, <2>4 DEF PanelI2CWrite, TransportTypeOK
<1>12. CASE Crash
  BY <1>12 DEF Crash, TransportTypeOK, Methods
<1>13. CASE Plug
  BY <1>13 DEF Plug, TransportTypeOK
<1>14. CASE Unplug
  BY <1>14 DEF Unplug, TransportTypeOK
<1>15. CASE InventoryChanged
  <2>1. present' \in BOOLEAN
    BY <1>15 DEF InventoryChanged, TransportTypeOK
  <2>2. Append(signals, plugged) \in Seq(BOOLEAN)
    BY DEF TransportTypeOK
  <2>3. signals' \in Seq(BOOLEAN)
    BY <1>15, <2>2, Zenon DEF InventoryChanged, TransportTypeOK
  <2> QED BY <1>15, <2>1, <2>3 DEF InventoryChanged, TransportTypeOK
<1>16. CASE UNCHANGED vars
  BY <1>16 DEF vars, TransportTypeOK
<1> QED
  BY <1>1, <1>2, <1>3, <1>4, <1>5, <1>6, <1>7, <1>8, <1>9, <1>10, <1>11, <1>12,
     <1>13, <1>14, <1>15, <1>16, NextCases

\* The type invariant of the transport.
THEOREM TransportTypeCorrectness == Spec => []TransportTypeOK
<1>1. Init => TransportTypeOK
  BY InitTypes
<1>2. TransportTypeOK /\ [Next]_vars => TransportTypeOK'
  BY NextKeepsTypes
<1> QED BY <1>1, <1>2, PTL DEF Spec
-----------------------------------------------------------------------------
(* The key. A signal that waits carries the present state of the panel if it *)
(* is the last one, so what has been handled is up to date when none waits.  *)
SignalsTell ==
  isLCD /\ pc # "down" /\ signals # <<>> => signals[Len(signals)] = present
KeyTells ==
  isLCD /\ pc \notin {"down", "main"} /\ signals = <<>> /\ ~unread =>
    transportKey = present

KeyInv == TransportTypeOK /\ SignalsTell /\ KeyTells

\* The methods that run inside setTransportKey touch neither key nor signals, and
\* end neither the process nor the start.
LEMMA InsideSetTransportKey ==
  ASSUME \/ CheckAndFixBootLoaderBug \/ DoFWUpdate \/ GotoBootloader
         \/ ReadBLVersion \/ UpdateFlash \/ GotoMainProgram \/ ReadMPVersion
         \/ PanelI2CWrite
  PROVE  /\ pc \notin {"down", "main"} /\ pc' \notin {"down", "main"}
         /\ UNCHANGED <<plugged, present, signals, transportKey, unread>>
<1> USE DEF panelVars, inventoryVars, historyVars
<1>1. UNCHANGED <<plugged, present, signals, transportKey, unread>>
  BY DEF CheckAndFixBootLoaderBug, DoFWUpdate, GotoBootloader, ReadBLVersion,
         UpdateFlash, GotoMainProgram, ReadMPVersion, PanelI2CWrite
<1>2. pc \notin {"down", "main"}
  BY DEF CheckAndFixBootLoaderBug, DoFWUpdate, GotoBootloader, ReadBLVersion,
         UpdateFlash, GotoMainProgram, ReadMPVersion, PanelI2CWrite
<1>3. Configure => pc' \notin {"down", "main"}
  BY DEF Configure
<1>4. pc' \notin {"down", "main"}
  BY <1>2, <1>3
  DEF CheckAndFixBootLoaderBug, DoFWUpdate, GotoBootloader, ReadBLVersion,
      UpdateFlash, GotoMainProgram, ReadMPVersion, PanelI2CWrite, NextMessage
<1> QED BY <1>1, <1>2, <1>4

\* A queue of signals is empty when its length is zero.
LEMMA EmptyQueue ==
  ASSUME NEW s \in Seq(BOOLEAN)
  PROVE  Len(s) \in Nat /\ (s = <<>> <=> Len(s) = 0)
<1>1. s # <<>> => Len(s) \in Nat \ {0}
  BY EmptySeq, Zenon
<1>2. Len(<<>>) = 0
  BY EmptySeq, Zenon
<1> QED BY <1>1, <1>2

LEMMA NextKeepsKeyInv == KeyInv /\ [Next]_vars => KeyInv'
<1> SUFFICES ASSUME KeyInv, [Next]_vars PROVE SignalsTell' /\ KeyTells'
  BY NextKeepsTypes DEF KeyInv
<1> USE DEF panelVars, inventoryVars, processVars, historyVars
<1>0. isLCD' = isLCD
  BY PanelTypeIsFixed
<1> USE <1>0
<1>1. CASE Start
  BY <1>1 DEF Start, SignalsTell, KeyTells
<1>2. CASE ReadPresent
  <2>1. PICK value \in BOOLEAN :
          SetTransportKey(value) /\ unread' = (isLCD /\ value # present)
    BY <1>2 DEF ReadPresent, KeyInv, TransportTypeOK
  <2>2. transportKey' = value
    BY <2>1 DEF SetTransportKey
  <2> QED BY <1>2, <2>1, <2>2 DEF ReadPresent, KeyInv, SignalsTell, KeyTells
<1>3. CASE ReadPresentProperty
  <2>1. signals \in Seq(BOOLEAN) /\ signals # <<>> /\ pc = "io"
    BY <1>3 DEF ReadPresentProperty, KeyInv, TransportTypeOK
  <2>2. transportKey' = Head(signals)
    BY <1>3, Zenon DEF ReadPresentProperty, SetTransportKey
  <2>3. signals' = Tail(signals) /\ present' = present
    BY <1>3 DEF ReadPresentProperty
  <2>4. Head(signals) = signals[1]
    BY <2>1
  <2>7. /\ Tail(signals) \in Seq(BOOLEAN) /\ Len(signals) \in Nat
        /\ Len(Tail(signals)) = Len(signals) - 1
        /\ \A i \in 1..Len(Tail(signals)) : Tail(signals)[i] = signals[i+1]
    BY <2>1, HeadTailProperties
  <2>8. Tail(signals) = <<>> <=> Len(Tail(signals)) = 0
    BY <2>7, EmptyQueue, Zenon
  <2>5. CASE Len(signals) = 1
    <3>1. Tail(signals) = <<>>
      BY <2>5, <2>7, <2>8
    <3> QED BY <2>1, <2>2, <2>3, <2>4, <2>5, <3>1 DEF KeyInv, SignalsTell, KeyTells
  <2>6. CASE Len(signals) # 1
    <3>1. Len(signals) > 1
      BY <2>1, <2>6, <2>7, EmptyQueue
    <3>2. Tail(signals)[Len(signals) - 1] = signals[Len(signals)]
      BY <2>7, <3>1
    <3>3. Tail(signals) # <<>>
      BY <2>7, <2>8, <3>1
    <3> QED BY <2>1, <2>3, <2>7, <3>2, <3>3 DEF KeyInv, SignalsTell, KeyTells
  <2> QED BY <2>5, <2>6
<1>4. CASE Crash
  BY <1>4 DEF Crash, SignalsTell, KeyTells
<1>5. CASE Plug \/ Unplug
  BY <1>5 DEF Plug, Unplug, KeyInv, SignalsTell, KeyTells
<1>6. CASE InventoryChanged
  <2>1. CASE isLCD /\ pc # "down"
    <3>1. signals \in Seq(BOOLEAN) /\ signals' = Append(signals, plugged)
      BY <1>6, <2>1 DEF InventoryChanged, KeyInv, TransportTypeOK
    <3>2. signals' # <<>> /\ signals'[Len(signals')] = plugged
      BY <3>1
    <3> QED BY <1>6, <3>2 DEF InventoryChanged, SignalsTell, KeyTells
  <2>2. CASE ~(isLCD /\ pc # "down")
    BY <1>6, <2>2 DEF InventoryChanged, SignalsTell, KeyTells
  <2> QED BY <2>1, <2>2
<1>7. CASE UNCHANGED vars
  BY <1>7 DEF vars, KeyInv, SignalsTell, KeyTells
<1>8. CASE \/ CheckAndFixBootLoaderBug \/ DoFWUpdate \/ GotoBootloader
           \/ ReadBLVersion \/ UpdateFlash \/ GotoMainProgram \/ ReadMPVersion
           \/ PanelI2CWrite
  BY <1>8, InsideSetTransportKey DEF KeyInv, SignalsTell, KeyTells
<1> QED
  BY <1>1, <1>2, <1>3, <1>4, <1>5, <1>6, <1>7, <1>8, NextCases

\* The key of an LCD panel follows its presence, for any number of signals that
\* may wait and however the process is restarted.
THEOREM KeyIsRight == Spec => []KeyFollowsPresence
<1>1. Init => KeyInv
  BY InitTypes DEF Init, KeyInv, SignalsTell, KeyTells
<1>2. KeyInv /\ [Next]_vars => KeyInv'
  BY NextKeepsKeyInv
<1>3. KeyInv => KeyFollowsPresence
  BY DEF KeyInv, KeyTells, KeyFollowsPresence
<1> QED BY <1>1, <1>2, <1>3, PTL DEF Spec
-----------------------------------------------------------------------------
(* The configuration. While its messages are written to a panel that stays,  *)
(* the buttons of the messages before the current one are on.                *)
ButtonsSoFar ==
  /\ isLCD /\ pc = "panelI2CWrite" /\ signals = <<>> /\ plugged /\ present
  /\ program = "MP" /\ ~undelivered
  => \A b \in Buttons : b + 1 < message => b \in buttonsOn

ConfigInv == TransportTypeOK /\ ButtonsSoFar /\ ReadyPanelIsConfigured

\* Configure starts with the first message, before which no button has to be on.
LEMMA ConfigureStarts ==
  ASSUME TransportTypeOK, Configure, isLCD' = isLCD
  PROVE  ButtonsSoFar' /\ ReadyPanelIsConfigured'
<1>1. CASE isLCD
  BY <1>1 DEF Configure, ButtonsSoFar, ReadyPanelIsConfigured, Buttons
<1>2. CASE ~isLCD
  BY <1>2 DEF ButtonsSoFar, ReadyPanelIsConfigured
<1> QED BY <1>1, <1>2

LEMMA NextKeepsConfigInv == ConfigInv /\ [Next]_vars => ConfigInv'
<1> SUFFICES ASSUME ConfigInv, [Next]_vars
             PROVE  ButtonsSoFar' /\ ReadyPanelIsConfigured'
  BY NextKeepsTypes DEF ConfigInv
<1> USE DEF panelVars, inventoryVars, processVars, historyVars
<1>a. isLCD' = isLCD
  BY PanelTypeIsFixed
<1> USE <1>a
<1>0. TransportTypeOK
  BY DEF ConfigInv
<1>1. CASE Start \/ Crash
  BY <1>1 DEF Start, Crash, ButtonsSoFar, ReadyPanelIsConfigured
<1>2. CASE ReadPresent \/ ReadPresentProperty
  <2>1. PICK value : SetTransportKey(value)
    BY <1>2 DEF ReadPresent, ReadPresentProperty
  <2>2. pc' # "panelI2CWrite" /\ (pc' = "io" => ~transportKey')
    BY <2>1 DEF SetTransportKey
  <2> QED BY <2>2 DEF ButtonsSoFar, ReadyPanelIsConfigured
<1>3. CASE \/ CheckAndFixBootLoaderBug \/ DoFWUpdate \/ GotoBootloader
           \/ ReadBLVersion \/ UpdateFlash \/ GotoMainProgram \/ ReadMPVersion
  <2>1. pc' \notin {"panelI2CWrite", "io"} \/ Configure
    BY <1>3
    DEF CheckAndFixBootLoaderBug, DoFWUpdate, GotoBootloader, ReadBLVersion,
        UpdateFlash, GotoMainProgram, ReadMPVersion
  <2>2. CASE Configure
    BY <1>0, <2>2, ConfigureStarts
  <2>3. CASE pc' \notin {"panelI2CWrite", "io"}
    BY <2>3 DEF ButtonsSoFar, ReadyPanelIsConfigured
  <2> QED BY <2>1, <2>2, <2>3
<1>4. CASE PanelI2CWrite
  <2>1. message \in 0..3 /\ buttonsOn \subseteq Buttons
    BY <1>0 DEF TransportTypeOK, LastMessage
  <2>2. /\ pc = "panelI2CWrite"
        /\ UNCHANGED <<plugged, program, present, signals, transportKey>>
    BY <1>4 DEF PanelI2CWrite
  <2> SUFFICES ASSUME isLCD, signals = <<>>, plugged, present, program = "MP",
                      ~undelivered'
               PROVE  ButtonsSoFar' /\ ReadyPanelIsConfigured'
    BY <2>2 DEF ButtonsSoFar, ReadyPanelIsConfigured
  <2>3. CASE buttonsOn' = Took(message) /\ NextMessage /\ UNCHANGED undelivered
    <3>1. \A b \in Buttons : b + 1 < message => b \in buttonsOn
      <4>1. ~undelivered
        BY <2>3, Zenon
      <4> QED BY <2>2, <4>1 DEF ConfigInv, ButtonsSoFar
    <3>2. \A b \in Buttons : b + 1 <= message => b \in buttonsOn'
      BY <2>1, <2>3, <3>1 DEF Took, Buttons
    <3>3. CASE message = 3
      <4>1. pc' = "io" /\ buttonsOn' = Buttons
        <5>1. buttonsOn' \subseteq Buttons
          BY <2>1, <2>3, <3>3 DEF Took, Buttons
        <5>2. Buttons \subseteq buttonsOn'
          BY <3>2, <3>3 DEF Buttons
        <5>3. pc' = "io"
          BY <2>3, <3>3 DEF NextMessage, LastMessage
        <5> QED BY <5>1, <5>2, <5>3
      <4> QED BY <4>1 DEF ButtonsSoFar, ReadyPanelIsConfigured
    <3>4. CASE message # 3
      <4>1. pc' = pc /\ message' = message + 1
        BY <2>3, <3>4 DEF NextMessage, LastMessage
      <4>2. \A b \in Buttons : b + 1 < message' => b \in buttonsOn'
        BY <2>1, <3>2, <4>1 DEF Buttons
      <4> QED BY <2>2, <4>1, <4>2 DEF ButtonsSoFar, ReadyPanelIsConfigured
    <3> QED BY <3>3, <3>4
  <2>4. CASE /\ UNCHANGED <<pc, message, undelivered>>
             /\ buttonsOn' \in {buttonsOn, Took(message)}
    <3>1. \A b \in Buttons : b + 1 < message => b \in buttonsOn
      <4>1. ~undelivered
        BY <2>4, Zenon
      <4> QED BY <2>2, <4>1 DEF ConfigInv, ButtonsSoFar
    <3>2. \A b \in Buttons : b + 1 < message => b \in buttonsOn'
      BY <2>1, <2>4, <3>1 DEF Took, Buttons
    <3> QED BY <2>2, <2>4, <3>2 DEF ButtonsSoFar, ReadyPanelIsConfigured
  <2>5. undelivered' = TRUE \/ (/\ UNCHANGED <<pc, message, undelivered>>
                                /\ buttonsOn' \in {buttonsOn, Took(message)})
          \/ (buttonsOn' = Took(message) /\ NextMessage /\ UNCHANGED undelivered)
    BY <1>4 DEF PanelI2CWrite
  <2> QED BY <2>3, <2>4, <2>5
<1>5. CASE Plug \/ Unplug
  BY <1>0, <1>5 DEF Plug, Unplug, ButtonsSoFar, ReadyPanelIsConfigured, TransportTypeOK
<1>6. CASE InventoryChanged
  <2>1. CASE isLCD /\ pc # "down"
    <3>1. signals' # <<>>
      BY <1>0, <1>6, <2>1 DEF InventoryChanged, TransportTypeOK
    <3> QED BY <3>1 DEF ButtonsSoFar, ReadyPanelIsConfigured
  <2>2. CASE ~(isLCD /\ pc # "down")
    BY <1>6, <2>2 DEF InventoryChanged, ButtonsSoFar, ReadyPanelIsConfigured
  <2> QED BY <2>1, <2>2
<1>7. CASE UNCHANGED vars
  BY <1>7 DEF vars, ConfigInv, ButtonsSoFar, ReadyPanelIsConfigured
<1> QED
  BY <1>1, <1>2, <1>3, <1>4, <1>5, <1>6, <1>7, NextCases

\* A panel that took its whole configuration reports all its buttons.
THEOREM ConfigurationIsComplete == Spec => []ReadyPanelIsConfigured
<1>1. Init => ConfigInv
  BY InitTypes DEF Init, ConfigInv, ButtonsSoFar, ReadyPanelIsConfigured
<1>2. ConfigInv /\ [Next]_vars => ConfigInv'
  BY NextKeepsConfigInv
<1>3. ConfigInv => ReadyPanelIsConfigured
  BY DEF ConfigInv
<1> QED BY <1>1, <1>2, <1>3, PTL DEF Spec
-----------------------------------------------------------------------------
(* The update. From the version check on, the panel that is updated is one   *)
(* that may be; the flash loop has something to write; and a main program    *)
(* that was not left has the firmware the panel was plugged in with, unless  *)
(* another panel has taken its place.                                        *)
Supported == pluggedVersion >= MinVersion /\ pluggedVersion < MaxVersion

OnlySupportedIsUpdated ==
  pc \in Updating /\ plugged /\ ~midUpdate => Supported

\* Whatever is on the panel, it had it, or an update left it there.
FirmwareIsKnown == ~midUpdate => firmware \in {pluggedVersion, PARTIAL, MaxVersion}

BeforeFlashed == {"gotoBootloader", "blVersion", "updateFlash"}

ImageIsWritten ==
  /\ pc = "updateFlash" => chunkIndex < ImageSize
  /\ pc \in BeforeFlashed /\ plugged /\ ~midUpdate /\ program = "MP" =>
       firmware = pluggedVersion

UpdateInv ==
  /\ TransportTypeOK /\ FlashedOnlyWhenSupported /\ OnlySupportedIsUpdated
  /\ FirmwareIsKnown /\ ImageIsWritten /\ UpdateIsComplete

\* Outside of an update nothing has to be shown but that the firmware is as it was.
LEMMA OutsideUpdate ==
  ASSUME UpdateInv, pc' \notin Updating,
         UNCHANGED <<firmware, pluggedVersion, midUpdate>>
  PROVE  /\ FlashedOnlyWhenSupported' /\ OnlySupportedIsUpdated'
         /\ FirmwareIsKnown' /\ ImageIsWritten' /\ UpdateIsComplete'
  BY DEF UpdateInv, FlashedOnlyWhenSupported, OnlySupportedIsUpdated,
         FirmwareIsKnown, ImageIsWritten, BeforeFlashed, UpdateIsComplete, Updating

\* Configure ends the update.
LEMMA ConfigureEnds == Configure => pc' \notin Updating
  BY DEF Configure, Updating

\* The flash loop: a chunk goes to the boot loader of a panel that may be updated,
\* and the last one completes the image.
LEMMA UpdateFlashKeepsUpdateInv ==
  ASSUME UpdateInv, UpdateFlash
  PROVE  /\ FlashedOnlyWhenSupported' /\ OnlySupportedIsUpdated'
         /\ FirmwareIsKnown' /\ ImageIsWritten' /\ UpdateIsComplete'
<1> USE DEF panelVars, inventoryVars
<1>1. /\ pc = "updateFlash" /\ pc \in Updating /\ chunkIndex < ImageSize
      /\ UNCHANGED <<plugged, program, pluggedVersion, midUpdate>>
  BY DEF UpdateFlash, Updating
<1>2. TransportTypeOK
  BY DEF UpdateInv
<1>3. /\ plugged /\ ~midUpdate => Supported
      /\ plugged /\ ~midUpdate /\ program # "BL" => firmware = pluggedVersion
      /\ program # "BL" => program = "MP"
  BY <1>1, <1>2
  DEF UpdateInv, OnlySupportedIsUpdated, ImageIsWritten, BeforeFlashed, TransportTypeOK
<1>4. /\ firmware' # firmware => plugged /\ program = "BL"
      /\ firmware' \in {firmware, PARTIAL, MaxVersion}
  <2>1. CASE plugged /\ firmware' \in Flashed(chunkIndex')
    <3>1. CASE program # "BL"
      <4>1. Flashed(chunkIndex') = {firmware}
        BY <3>1 DEF Flashed
      <4> QED BY <2>1, <4>1
    <3>2. CASE program = "BL" /\ chunkIndex' < ImageSize
      <4>1. Flashed(chunkIndex') = {PARTIAL}
        BY <3>2 DEF Flashed
      <4> QED BY <2>1, <3>2, <4>1
    <3>3. CASE program = "BL" /\ ~(chunkIndex' < ImageSize)
      <4>1. Flashed(chunkIndex') = {MaxVersion} \cup (IF midUpdate THEN {PARTIAL} ELSE {})
        BY <3>3 DEF Flashed
      <4> QED BY <2>1, <3>3, <4>1
    <3> QED BY <3>1, <3>2, <3>3
  <2>2. CASE firmware' \in {firmware} \cup (IF plugged /\ program = "BL" THEN {PARTIAL} ELSE {})
    BY <2>2
  <2> QED BY <2>1, <2>2 DEF UpdateFlash
<1>5. FlashedOnlyWhenSupported' /\ FirmwareIsKnown'
  <2>1. CASE firmware' = firmware
    BY <1>1, <2>1 DEF UpdateInv, FlashedOnlyWhenSupported, FirmwareIsKnown
  <2>2. CASE firmware' # firmware
    BY <1>1, <1>3, <1>4, <2>2 DEF FlashedOnlyWhenSupported, Supported, FirmwareIsKnown
  <2> QED BY <2>1, <2>2
<1>6. OnlySupportedIsUpdated'
  BY <1>1, <1>3 DEF OnlySupportedIsUpdated, Supported
<1>7. CASE Configure
  BY <1>5, <1>6, <1>7, ConfigureEnds DEF ImageIsWritten, BeforeFlashed, UpdateIsComplete, Updating
<1>8. CASE /\ plugged /\ chunkIndex' = chunkIndex + MaxAvailBytes
           /\ firmware' \in Flashed(chunkIndex')
           /\ pc' = IF chunkIndex' < ImageSize THEN pc ELSE "gotoMainProgram"
  <2>1. chunkIndex' \in 0..ImageSize
    BY <1>1, <1>2, <1>8, ChunkFits
  <2>2. ImageSize \in Nat
    BY TransportAssumption
  <2>3. CASE chunkIndex' < ImageSize
    BY <1>1, <1>3, <1>4, <1>5, <1>6, <1>8, <2>3
    DEF ImageIsWritten, BeforeFlashed, UpdateIsComplete
  <2>4. CASE ~(chunkIndex' < ImageSize)
    <3>1. chunkIndex' = ImageSize /\ pc' = "gotoMainProgram"
      BY <1>8, <2>1, <2>2, <2>4
    <3>2. program = "BL" /\ ~midUpdate => firmware' = MaxVersion
      BY <1>8, <2>2, <3>1 DEF Flashed
    <3>3. program # "BL" /\ ~midUpdate => firmware' = pluggedVersion
      BY <1>3, <1>4, <1>8
    <3> QED
      BY <1>1, <1>3, <1>5, <1>6, <3>1, <3>2, <3>3
      DEF ImageIsWritten, BeforeFlashed, UpdateIsComplete
  <2> QED BY <2>3, <2>4
<1> QED BY <1>7, <1>8 DEF UpdateFlash

LEMMA NextKeepsUpdateInv == UpdateInv /\ [Next]_vars => UpdateInv'
<1> SUFFICES ASSUME UpdateInv, [Next]_vars
             PROVE  /\ FlashedOnlyWhenSupported' /\ OnlySupportedIsUpdated'
                    /\ FirmwareIsKnown' /\ ImageIsWritten' /\ UpdateIsComplete'
  BY NextKeepsTypes DEF UpdateInv
<1> USE DEF panelVars, inventoryVars, processVars, historyVars
<1>a. isLCD' = isLCD
  BY PanelTypeIsFixed
<1> USE <1>a
<1>0. TransportTypeOK
  BY DEF UpdateInv
<1>1. CASE \/ Start \/ Crash \/ ReadPresent \/ ReadPresentProperty
           \/ CheckAndFixBootLoaderBug \/ ReadMPVersion \/ PanelI2CWrite
  <2>1. UNCHANGED <<firmware, pluggedVersion, midUpdate>>
    BY <1>1
    DEF Start, Crash, ReadPresent, ReadPresentProperty, CheckAndFixBootLoaderBug,
        ReadMPVersion, PanelI2CWrite
  <2>2. pc' \notin Updating
    BY <1>1, ConfigureEnds
    DEF Start, Crash, ReadPresent, ReadPresentProperty, SetTransportKey,
        CheckAndFixBootLoaderBug, ReadMPVersion, PanelI2CWrite, NextMessage, Updating
  <2> QED BY <2>1, <2>2, OutsideUpdate
<1>2. CASE DoFWUpdate
  <2>1. UNCHANGED <<plugged, firmware, pluggedVersion, midUpdate>>
    BY <1>2 DEF DoFWUpdate
  <2>2. CASE pc' = "gotoBootloader" /\ NeedsUpdate
    <3>1. ~midUpdate => Supported
      BY <2>2 DEF UpdateInv, FlashedOnlyWhenSupported, NeedsUpdate, Supported
    <3>2. PARTIAL < MinVersion
      BY TransportAssumption DEF PARTIAL
    <3>3. ~midUpdate => firmware = pluggedVersion
      BY <2>2, <3>2, TransportAssumption DEF UpdateInv, FirmwareIsKnown, NeedsUpdate, PARTIAL
    <3> QED
      BY <2>1, <2>2, <3>1, <3>3
      DEF UpdateInv, FlashedOnlyWhenSupported, OnlySupportedIsUpdated, Supported,
          FirmwareIsKnown, ImageIsWritten, BeforeFlashed, UpdateIsComplete
  <2>3. CASE Configure
    BY <2>1, <2>3, ConfigureEnds, OutsideUpdate
  <2> QED BY <1>2, <2>2, <2>3 DEF DoFWUpdate
<1>3. CASE GotoBootloader \/ ReadBLVersion \/ GotoMainProgram
  <2>1. UNCHANGED <<plugged, firmware, pluggedVersion, midUpdate>> /\ pc \in Updating
    BY <1>3 DEF GotoBootloader, ReadBLVersion, GotoMainProgram, Updating
  <2>2. CASE Configure
    BY <2>1, <2>2, ConfigureEnds, OutsideUpdate
  <2>3. CASE GotoBootloader /\ pc' = "blVersion"
    <3>1. pc = "gotoBootloader" /\ (program' = "MP" => program = "MP")
      BY <2>3 DEF GotoBootloader, Jump
    <3> QED
      BY <2>1, <2>3, <3>1
      DEF UpdateInv, FlashedOnlyWhenSupported, OnlySupportedIsUpdated, Supported,
          FirmwareIsKnown, ImageIsWritten, BeforeFlashed, UpdateIsComplete
  <2>4. CASE ReadBLVersion /\ pc' = "updateFlash" /\ chunkIndex' = 0
    <3>1. pc = "blVersion" /\ program' = program /\ 0 < ImageSize
      BY <2>4, TransportAssumption DEF ReadBLVersion
    <3> QED
      BY <2>1, <2>4, <3>1
      DEF UpdateInv, FlashedOnlyWhenSupported, OnlySupportedIsUpdated, Supported,
          FirmwareIsKnown, ImageIsWritten, BeforeFlashed, UpdateIsComplete
  <2>5. CASE GotoMainProgram /\ pc' = "mpVersion"
    <3>1. pc = "gotoMainProgram" /\ chunkIndex' = chunkIndex
      BY <2>5 DEF GotoMainProgram
    <3>2. ~midUpdate /\ plugged /\ program = "BL" => firmware = MaxVersion
      BY <3>1 DEF UpdateInv, UpdateIsComplete
    <3>3. program \in {"MP", "BL"} /\ program' \in {program, "MP"}
      BY <1>0, <2>5 DEF GotoMainProgram, Jump, TransportTypeOK
    <3> QED
      BY <2>1, <2>5, <3>1, <3>2, <3>3
      DEF UpdateInv, FlashedOnlyWhenSupported, OnlySupportedIsUpdated, Supported,
          FirmwareIsKnown, ImageIsWritten, BeforeFlashed, UpdateIsComplete
  <2> QED
    BY <1>3, <2>2, <2>3, <2>4, <2>5 DEF GotoBootloader, ReadBLVersion, GotoMainProgram
<1>4. CASE UpdateFlash
  BY <1>4, UpdateFlashKeepsUpdateInv
<1>5. CASE Plug
  BY <1>5
  DEF Plug, UpdateInv, FlashedOnlyWhenSupported, OnlySupportedIsUpdated,
      FirmwareIsKnown, ImageIsWritten, BeforeFlashed, UpdateIsComplete, Updating
<1>6. CASE Unplug \/ InventoryChanged \/ UNCHANGED vars
  BY <1>6
  DEF Unplug, InventoryChanged, vars, UpdateInv, FlashedOnlyWhenSupported,
      OnlySupportedIsUpdated, Supported, FirmwareIsKnown, ImageIsWritten, BeforeFlashed, UpdateIsComplete
<1> QED
  BY <1>1, <1>2, <1>3, <1>4, <1>5, <1>6, NextCases

\* Firmware is only rewritten on a panel that doFWUpdate may update, and the flash
\* loop writes exactly the image, for every image size and chunk size.
THEOREM UpdateIsSafe == Spec => [](FlashedOnlyWhenSupported /\ UpdateIsComplete)
<1>1. Init => UpdateInv
  BY InitTypes
  DEF Init, UpdateInv, FlashedOnlyWhenSupported, OnlySupportedIsUpdated,
      FirmwareIsKnown, ImageIsWritten, BeforeFlashed, UpdateIsComplete, Updating
<1>2. UpdateInv /\ [Next]_vars => UpdateInv'
  BY NextKeepsUpdateInv
<1>3. UpdateInv => FlashedOnlyWhenSupported /\ UpdateIsComplete
  BY DEF UpdateInv
<1> QED BY <1>1, <1>2, <1>3, PTL DEF Spec
-----------------------------------------------------------------------------
(* The length of a call of setTransportKey: how many steps are left, whatever *)
(* the panel answers and however it comes and goes meanwhile.                 *)

OutsideCall == {"down", "main", "io"}

\* The chunks of an image, and those that are left.
Chunks == (ImageSize + (MaxFlashWriteChunk - 1)) \div MaxFlashWriteChunk
ChunksLeft == (ImageSize - chunkIndex + (MaxFlashWriteChunk - 1)) \div MaxFlashWriteChunk

\* The turns of panelI2CWrite for a whole configuration.
ConfigureTurns == (LastMessage + 1) * MaxRetry

StepsLeft ==
  CASE pc = "panelI2CWrite" -> (LastMessage + 1 - message) * MaxRetry - retries
    [] pc = "mpVersion" -> ConfigureTurns + 1
    [] pc = "gotoMainProgram" -> ConfigureTurns + 2
    [] pc = "updateFlash" -> ConfigureTurns + 2 + ChunksLeft
    [] pc = "blVersion" -> ConfigureTurns + 3 + Chunks
    [] pc = "gotoBootloader" -> ConfigureTurns + 4 + Chunks
    [] pc = "doFWUpdate" -> ConfigureTurns + 5 + Chunks
    [] pc = "checkAndFixBootLoaderBug" -> ConfigureTurns + 6 + Chunks + retries
    [] OTHER -> 0

LongestCall == ConfigureTurns + 6 + Chunks + FixRetries

\* A call has no more steps than the longest one, and is over when none is left.
CallIsBounded ==
  /\ StepsLeft \in 0..LongestCall
  /\ StepsLeft = 0 <=> pc \in OutsideCall

\* Every step of the process brings the end of the call closer; nothing else that
\* happens makes it longer, and the end of the process ends it, too.
CallStep ==
  pc \notin OutsideCall =>
    /\ ProcessStep => StepsLeft' < StepsLeft
    /\ ~ProcessStep => pc' = "down" \/ StepsLeft' = StepsLeft

\* The limits of the three loops, with the types the inductive invariant.
LoopLimits ==
  /\ pc = "checkAndFixBootLoaderBug" => retries <= FixRetries
  /\ pc = "updateFlash" => chunkIndex < ImageSize
  /\ pc = "panelI2CWrite" => retries < MaxRetry

LoopInv == TransportTypeOK /\ LoopLimits

\* A quotient by its remainder.
LEMMA DivFacts ==
  ASSUME NEW m \in Nat \ {0}, NEW x \in Int
  PROVE  x \div m \in Int /\ m * (x \div m) <= x /\ x < m * (x \div m) + m
  OBVIOUS

\* A whole chunk less is one chunk less.
LEMMA DivMinus ==
  ASSUME NEW m \in Nat \ {0}, NEW x \in Int
  PROVE  (x - m) \div m = (x \div m) - 1
<1> DEFINE q == x \div m
           r == (x - m) \div m
<1>1. q \in Int /\ m * q <= x /\ x < m * q + m
  BY DivFacts
<1>2. r \in Int /\ m * r <= x - m /\ x - m < m * r + m
  BY DivFacts
<1> HIDE DEF q, r
<1>3. ~(r < q - 1)
  <2> SUFFICES ASSUME r + 2 <= q PROVE FALSE
    BY <1>1, <1>2
  <2>1. m * (r + 2) <= m * q
    BY <1>1, <1>2
  <2> QED BY <1>1, <1>2, <2>1
<1>4. ~(q - 1 < r)
  <2> SUFFICES ASSUME q <= r PROVE FALSE
    BY <1>1, <1>2
  <2>1. m * q <= m * r
    BY <1>1, <1>2
  <2> QED BY <1>1, <1>2, <2>1
<1> QED BY <1>1, <1>2, <1>3, <1>4 DEF q, r

\* Fewer bytes are no more chunks.
LEMMA DivMonotone ==
  ASSUME NEW m \in Nat \ {0}, NEW x \in Int, NEW y \in Int, x <= y
  PROVE  x \div m <= y \div m
<1> DEFINE q == x \div m
           r == y \div m
<1>1. q \in Int /\ m * q <= x /\ x < m * q + m
  BY DivFacts
<1>2. r \in Int /\ m * r <= y /\ y < m * r + m
  BY DivFacts
<1> HIDE DEF q, r
<1>3. ~(r < q)
  <2> SUFFICES ASSUME r + 1 <= q PROVE FALSE
    BY <1>1, <1>2
  <2>1. m * (r + 1) <= m * q
    BY <1>1, <1>2
  <2> QED BY <1>1, <1>2, <2>1
<1> QED BY <1>1, <1>2, <1>3 DEF q, r

\* There are chunks left exactly while the flash loop runs, never more than at first.
LEMMA ChunksCounted ==
  ASSUME TransportTypeOK
  PROVE  /\ Chunks \in Nat /\ ChunksLeft \in Nat /\ ChunksLeft <= Chunks
         /\ chunkIndex = 0 => ChunksLeft = Chunks
         /\ chunkIndex < ImageSize => ChunksLeft >= 1
<1> DEFINE m == MaxFlashWriteChunk
           x == ImageSize - chunkIndex + (m - 1)
           y == ImageSize + (m - 1)
<1>1. m \in Nat \ {0} /\ ImageSize \in Nat /\ chunkIndex \in 0..ImageSize
  BY TransportAssumption DEF TransportTypeOK
<1> HIDE DEF m
<1>2. x \in Int /\ y \in Int /\ x <= y /\ x >= 0 /\ (chunkIndex < ImageSize => m <= x)
      /\ (chunkIndex = 0 => x = y)
  BY <1>1
<1>3. Chunks = y \div m /\ ChunksLeft = x \div m
  BY DEF Chunks, ChunksLeft, m
<1> HIDE DEF x, y
<1>4. x \div m \in Int /\ y \div m \in Int /\ x \div m <= y \div m
  BY <1>1, <1>2, DivFacts, DivMonotone
<1>5. 0 \div m = 0 /\ m \div m = 1
  BY <1>1
<1>6. x \div m >= 0
  <2>1. 0 <= x /\ 0 \in Int
    BY <1>2
  <2>2. 0 \div m <= x \div m
    BY <1>1, <1>2, <2>1, DivMonotone
  <2> QED BY <1>4, <1>5, <2>2
<1>7. chunkIndex < ImageSize => x \div m >= 1
  <2> SUFFICES ASSUME chunkIndex < ImageSize PROVE x \div m >= 1
    OBVIOUS
  <2>1. m <= x /\ m \in Int
    BY <1>1, <1>2
  <2>2. m \div m <= x \div m
    BY <1>1, <1>2, <2>1, DivMonotone
  <2> QED BY <1>4, <1>5, <2>2
<1> QED BY <1>2, <1>3, <1>4, <1>6, <1>7

\* The next chunk is one of those that were left.
LEMMA ChunkCounts ==
  ASSUME TransportTypeOK, chunkIndex < ImageSize,
         chunkIndex' = chunkIndex + MaxAvailBytes, chunkIndex' < ImageSize
  PROVE  ChunksLeft' = ChunksLeft - 1
<1> DEFINE m == MaxFlashWriteChunk
           x == ImageSize - chunkIndex + (m - 1)
<1>1. m \in Nat \ {0} /\ ImageSize \in Nat /\ chunkIndex \in 0..ImageSize
  BY TransportAssumption DEF TransportTypeOK
<1>2. chunkIndex' = chunkIndex + m
  BY <1>1 DEF MaxAvailBytes
<1>3. ChunksLeft = x \div m
  BY DEF ChunksLeft
<1>4. ChunksLeft' = (x - m) \div m
  <2>1. ImageSize - chunkIndex' + (m - 1) = x - m
    BY <1>1, <1>2
  <2> QED BY <2>1 DEF ChunksLeft
<1>5. x \in Int
  BY <1>1
<1> HIDE DEF m, x
<1> QED BY <1>1, <1>3, <1>4, <1>5, DivMinus

\* The turns that are left for the messages of a configuration.
LEMMA TurnsCounted ==
  ASSUME TransportTypeOK
  PROVE  /\ ConfigureTurns \in Nat /\ ConfigureTurns = 4 * MaxRetry
         /\ pc = "panelI2CWrite" /\ retries < MaxRetry =>
              /\ StepsLeft \in 1..ConfigureTurns
              /\ StepsLeft = (4 - message) * MaxRetry - retries
<1>1. MaxRetry \in Nat \ {0} /\ retries \in Nat /\ message \in {0, 1, 2, 3}
  BY TransportAssumption DEF TransportTypeOK, LastMessage
<1>2. ConfigureTurns = 4 * MaxRetry
  BY <1>1 DEF ConfigureTurns, LastMessage
<1>3. ASSUME pc = "panelI2CWrite", retries < MaxRetry
      PROVE  /\ StepsLeft \in 1..ConfigureTurns
             /\ StepsLeft = (4 - message) * MaxRetry - retries
  <2>1. StepsLeft = (4 - message) * MaxRetry - retries
    <3>1. LastMessage + 1 - message = 4 - message
      BY <1>1 DEF LastMessage
    <3> QED BY <1>3, <3>1 DEF StepsLeft
  <2>2. (4 - message) * MaxRetry \in {4 * MaxRetry, 3 * MaxRetry, 2 * MaxRetry, MaxRetry}
    BY <1>1
  <2> QED BY <1>1, <1>2, <1>3, <2>1, <2>2
<1> QED BY <1>1, <1>2, <1>3

\* The configuration is what remains last.
LEMMA ConfigureCounts ==
  ASSUME LoopInv, TransportTypeOK', isLCD' = isLCD, Configure
  PROVE  LoopLimits' /\ StepsLeft' \in 0..ConfigureTurns
<1>1. MaxRetry \in Nat \ {0} /\ ConfigureTurns = 4 * MaxRetry
  BY TransportAssumption, TurnsCounted DEF LoopInv, LoopLimits
<1>2. CASE isLCD
  <2>1. pc' = "panelI2CWrite" /\ message' = 0 /\ retries' = 0
    BY <1>2 DEF Configure
  <2>2. StepsLeft' = (LastMessage + 1 - 0) * MaxRetry - 0
    BY <2>1 DEF StepsLeft
  <2>3. (LastMessage + 1 - 0) * MaxRetry - 0 = 4 * MaxRetry
    BY <1>1 DEF LastMessage
  <2> QED BY <1>1, <2>1, <2>2, <2>3 DEF LoopLimits
<1>3. CASE ~isLCD
  <2>1. pc' = "io"
    BY <1>3 DEF Configure
  <2>2. StepsLeft' = 0
    BY <2>1 DEF StepsLeft
  <2> QED BY <1>1, <2>1, <2>2 DEF LoopLimits
<1> QED BY <1>2, <1>3

\* A turn of the loop of panelI2CWrite is one of those that were left.
LEMMA PanelI2CWriteCounts ==
  ASSUME LoopInv, TransportTypeOK', PanelI2CWrite
  PROVE  LoopLimits' /\ StepsLeft' < StepsLeft
<1>1. /\ MaxRetry \in Nat \ {0} /\ retries \in Nat /\ retries < MaxRetry
      /\ message \in {0, 1, 2, 3} /\ pc = "panelI2CWrite"
  BY TransportAssumption DEF LoopInv, LoopLimits, TransportTypeOK, LastMessage, PanelI2CWrite
<1>2. StepsLeft \in 1..ConfigureTurns /\ StepsLeft = (4 - message) * MaxRetry - retries
      /\ ConfigureTurns \in Nat
  BY <1>1, TurnsCounted DEF LoopInv, LoopLimits
<1>3. CASE NextMessage
  <2>1. CASE message = 3
    <3>1. pc' = "io"
      BY <1>3, <2>1 DEF NextMessage, LastMessage
    <3>2. StepsLeft' = 0
      BY <3>1 DEF StepsLeft
    <3> QED BY <1>2, <3>1, <3>2 DEF LoopLimits
  <2>2. CASE message # 3
    <3>1. message' = message + 1 /\ retries' = 0 /\ pc' = "panelI2CWrite"
      BY <1>1, <1>3, <2>2 DEF NextMessage, LastMessage
    <3>2. LoopLimits'
      BY <1>1, <3>1 DEF LoopLimits
    <3>3. StepsLeft' = (LastMessage + 1 - (message + 1)) * MaxRetry - 0
      BY <3>1 DEF StepsLeft
    <3>4. (LastMessage + 1 - (message + 1)) * MaxRetry - 0 = (3 - message) * MaxRetry
      BY <1>1 DEF LastMessage
    <3>5. (3 - message) * MaxRetry < (4 - message) * MaxRetry - retries
      BY <1>1
    <3> QED BY <1>2, <3>2, <3>3, <3>4, <3>5
  <2> QED BY <2>1, <2>2
<1>4. CASE retries + 1 < MaxRetry /\ retries' = retries + 1 /\ UNCHANGED <<pc, message>>
  <2>1. LoopLimits'
    BY <1>1, <1>4 DEF LoopLimits
  <2>2. StepsLeft' = (LastMessage + 1 - message) * MaxRetry - (retries + 1)
    BY <1>1, <1>4 DEF StepsLeft
  <2>3. (LastMessage + 1 - message) * MaxRetry - (retries + 1)
          < (4 - message) * MaxRetry - retries
    BY <1>1 DEF LastMessage
  <2> QED BY <1>2, <2>1, <2>2, <2>3
<1> QED BY <1>3, <1>4 DEF PanelI2CWrite

\* So is every other step of a call.
LEMMA CallCounts ==
  ASSUME LoopInv, TransportTypeOK', isLCD' = isLCD,
         \/ CheckAndFixBootLoaderBug \/ DoFWUpdate \/ GotoBootloader \/ ReadBLVersion
         \/ UpdateFlash \/ GotoMainProgram \/ ReadMPVersion \/ PanelI2CWrite
  PROVE  LoopLimits' /\ StepsLeft' < StepsLeft
<1> DEFINE T == ConfigureTurns
<1>1. /\ T \in Nat /\ Chunks \in Nat /\ ChunksLeft \in Nat /\ retries \in Nat
      /\ FixRetries \in Nat /\ retries' \in Nat
  BY TurnsCounted, ChunksCounted, TransportAssumption DEF LoopInv, LoopLimits, TransportTypeOK
<1>2. Configure => LoopLimits' /\ StepsLeft' \in 0..T
  BY ConfigureCounts
<1> HIDE DEF T
<1>3. CASE CheckAndFixBootLoaderBug
  <2>1. pc = "checkAndFixBootLoaderBug" /\ StepsLeft = T + 6 + Chunks + retries
        /\ retries <= FixRetries
    BY <1>3 DEF CheckAndFixBootLoaderBug, StepsLeft, T, LoopInv, LoopLimits
  <2>2. CASE pc' = "doFWUpdate"
    <3>1. StepsLeft' = T + 5 + Chunks
      BY <2>2 DEF StepsLeft, T, ConfigureTurns, Chunks
    <3> QED BY <1>1, <2>1, <2>2, <3>1 DEF LoopLimits
  <2>3. CASE pc' = pc /\ retries > 0 /\ retries' = retries - 1
    <3>1. StepsLeft' = T + 6 + Chunks + (retries - 1)
      BY <2>1, <2>3 DEF StepsLeft, T, ConfigureTurns, Chunks
    <3> QED BY <1>1, <2>1, <2>3, <3>1 DEF LoopLimits
  <2> QED BY <1>3, <2>2, <2>3 DEF CheckAndFixBootLoaderBug
<1>4. CASE DoFWUpdate
  <2>1. StepsLeft = T + 5 + Chunks
    BY <1>4 DEF DoFWUpdate, StepsLeft, T
  <2>2. CASE pc' = "gotoBootloader"
    <3>1. StepsLeft' = T + 4 + Chunks
      BY <2>2 DEF StepsLeft, T, ConfigureTurns, Chunks
    <3> QED BY <1>1, <2>1, <2>2, <3>1 DEF LoopLimits
  <2>3. CASE Configure
    BY <1>1, <1>2, <2>1, <2>3
  <2> QED BY <1>4, <2>2, <2>3 DEF DoFWUpdate
<1>5. CASE GotoBootloader
  <2>1. StepsLeft = T + 4 + Chunks
    BY <1>5 DEF GotoBootloader, StepsLeft, T
  <2>2. CASE pc' = "blVersion"
    <3>1. StepsLeft' = T + 3 + Chunks
      BY <2>2 DEF StepsLeft, T, ConfigureTurns, Chunks
    <3> QED BY <1>1, <2>1, <2>2, <3>1 DEF LoopLimits
  <2>3. CASE Configure
    BY <1>1, <1>2, <2>1, <2>3
  <2> QED BY <1>5, <2>2, <2>3 DEF GotoBootloader
<1>6. CASE ReadBLVersion
  <2>1. StepsLeft = T + 3 + Chunks
    BY <1>6 DEF ReadBLVersion, StepsLeft, T
  <2>2. CASE pc' = "updateFlash" /\ chunkIndex' = 0
    <3>1. StepsLeft' = T + 2 + ChunksLeft'
      BY <2>2 DEF StepsLeft, T, ConfigureTurns
    <3>2. ChunksLeft' = Chunks
      BY <2>2, TransportAssumption DEF ChunksLeft, Chunks
    <3>3. 0 < ImageSize
      BY TransportAssumption
    <3> QED BY <1>1, <2>1, <2>2, <3>1, <3>2, <3>3 DEF LoopLimits
  <2>3. CASE Configure
    BY <1>1, <1>2, <2>1, <2>3
  <2> QED BY <1>6, <2>2, <2>3 DEF ReadBLVersion
<1>7. CASE UpdateFlash
  <2>1. StepsLeft = T + 2 + ChunksLeft /\ pc = "updateFlash" /\ chunkIndex < ImageSize
        /\ ChunksLeft >= 1
    BY <1>7, ChunksCounted DEF UpdateFlash, StepsLeft, T, LoopInv, LoopLimits
  <2>2. CASE chunkIndex' = chunkIndex + MaxAvailBytes /\ chunkIndex' < ImageSize /\ pc' = pc
    <3>1. StepsLeft' = T + 2 + ChunksLeft'
      BY <2>1, <2>2 DEF StepsLeft, T, ConfigureTurns
    <3>2. ChunksLeft' = ChunksLeft - 1
      BY <2>1, <2>2, ChunkCounts DEF LoopInv, LoopLimits
    <3> QED BY <1>1, <2>1, <2>2, <3>1, <3>2 DEF LoopLimits
  <2>3. CASE pc' = "gotoMainProgram"
    <3>1. StepsLeft' = T + 2
      BY <2>3 DEF StepsLeft, T, ConfigureTurns
    <3> QED BY <1>1, <2>1, <2>3, <3>1 DEF LoopLimits
  <2>4. CASE Configure
    BY <1>1, <1>2, <2>1, <2>4
  <2> QED BY <1>7, <2>2, <2>3, <2>4 DEF UpdateFlash
<1>8. CASE GotoMainProgram
  <2>1. StepsLeft = T + 2
    BY <1>8 DEF GotoMainProgram, StepsLeft, T
  <2>2. CASE pc' = "mpVersion"
    <3>1. StepsLeft' = T + 1
      BY <2>2 DEF StepsLeft, T, ConfigureTurns
    <3> QED BY <1>1, <2>1, <2>2, <3>1 DEF LoopLimits
  <2>3. CASE Configure
    BY <1>1, <1>2, <2>1, <2>3
  <2> QED BY <1>8, <2>2, <2>3 DEF GotoMainProgram
<1>9. CASE ReadMPVersion
  <2>1. StepsLeft = T + 1
    BY <1>9 DEF ReadMPVersion, StepsLeft, T
  <2> QED BY <1>1, <1>2, <1>9, <2>1 DEF ReadMPVersion
<1>10. CASE PanelI2CWrite
  BY <1>10, PanelI2CWriteCounts
<1> QED BY <1>3, <1>4, <1>5, <1>6, <1>7, <1>8, <1>9, <1>10

\* The process keeps to the limits of its loops, also when it begins a call.
LEMMA NextKeepsLoopInv == LoopInv /\ [Next]_vars => LoopInv'
<1> SUFFICES ASSUME LoopInv, [Next]_vars PROVE LoopInv'
  OBVIOUS
<1>1. TransportTypeOK' /\ isLCD' = isLCD
  BY NextKeepsTypes, PanelTypeIsFixed DEF LoopInv
<1>2. CASE \/ CheckAndFixBootLoaderBug \/ DoFWUpdate \/ GotoBootloader \/ ReadBLVersion
           \/ UpdateFlash \/ GotoMainProgram \/ ReadMPVersion \/ PanelI2CWrite
  BY <1>1, <1>2, CallCounts DEF LoopInv
<1>3. CASE Start
  BY <1>1, <1>3 DEF Start, LoopInv, LoopLimits
<1>4. CASE ReadPresent \/ ReadPresentProperty
  <2>1. PICK value : SetTransportKey(value)
    BY <1>4 DEF ReadPresent, ReadPresentProperty
  <2>2. \/ pc' = "checkAndFixBootLoaderBug" /\ retries' = FixRetries
        \/ pc' = "io"
    BY <2>1 DEF SetTransportKey
  <2> QED BY <1>1, <2>2, TransportAssumption DEF LoopInv, LoopLimits
<1>5. CASE Crash
  BY <1>1, <1>5 DEF Crash, LoopInv, LoopLimits
<1>6. CASE Plug \/ Unplug \/ InventoryChanged \/ UNCHANGED vars
  <2>1. UNCHANGED processVars
    BY <1>6 DEF Plug, Unplug, InventoryChanged, vars
  <2> QED BY <1>1, <2>1 DEF processVars, LoopInv, LoopLimits
<1> QED BY <1>2, <1>3, <1>4, <1>5, <1>6, NextCases

\* The steps that are left are bounded by what the longest call takes.
LEMMA CallLength == LoopInv => CallIsBounded
<1> SUFFICES ASSUME LoopInv PROVE CallIsBounded
  OBVIOUS
<1> DEFINE T == ConfigureTurns
<1>1. /\ T \in Nat /\ Chunks \in Nat /\ ChunksLeft \in Nat /\ ChunksLeft <= Chunks
      /\ retries \in Nat /\ FixRetries \in Nat
  BY TurnsCounted, ChunksCounted, TransportAssumption DEF LoopInv, TransportTypeOK
<1>2. pc = "panelI2CWrite" => StepsLeft \in 1..T
  BY TurnsCounted DEF LoopInv, LoopLimits
<1>3. pc \in Methods /\ (pc = "checkAndFixBootLoaderBug" => retries <= FixRetries)
  BY DEF LoopInv, LoopLimits, TransportTypeOK
<1>4. LongestCall = T + 6 + Chunks + FixRetries
  BY DEF LongestCall
<1> HIDE DEF T
<1>5. CASE pc \in OutsideCall
  <2>1. StepsLeft = 0
    BY <1>5 DEF OutsideCall, StepsLeft
  <2> QED BY <1>1, <1>4, <1>5, <2>1 DEF CallIsBounded
<1>6. CASE pc \notin OutsideCall
  <2>1. StepsLeft \in 1..LongestCall
    <3>1. CASE pc = "panelI2CWrite"
      BY <1>1, <1>2, <1>4, <3>1
    <3>2. CASE pc = "mpVersion"
      <4>1. StepsLeft = T + 1
        BY <3>2 DEF StepsLeft, T
      <4> QED BY <1>1, <1>4, <4>1
    <3>3. CASE pc = "gotoMainProgram"
      <4>1. StepsLeft = T + 2
        BY <3>3 DEF StepsLeft, T
      <4> QED BY <1>1, <1>4, <4>1
    <3>4. CASE pc = "updateFlash"
      <4>1. StepsLeft = T + 2 + ChunksLeft
        BY <3>4 DEF StepsLeft, T
      <4> QED BY <1>1, <1>4, <4>1
    <3>5. CASE pc = "blVersion"
      <4>1. StepsLeft = T + 3 + Chunks
        BY <3>5 DEF StepsLeft, T
      <4> QED BY <1>1, <1>4, <4>1
    <3>6. CASE pc = "gotoBootloader"
      <4>1. StepsLeft = T + 4 + Chunks
        BY <3>6 DEF StepsLeft, T
      <4> QED BY <1>1, <1>4, <4>1
    <3>7. CASE pc = "doFWUpdate"
      <4>1. StepsLeft = T + 5 + Chunks
        BY <3>7 DEF StepsLeft, T
      <4> QED BY <1>1, <1>4, <4>1
    <3>8. CASE pc = "checkAndFixBootLoaderBug"
      <4>1. StepsLeft = T + 6 + Chunks + retries
        BY <3>8 DEF StepsLeft, T
      <4> QED BY <1>1, <1>3, <1>4, <3>8, <4>1
    <3> QED
      BY <1>3, <1>6, <3>1, <3>2, <3>3, <3>4, <3>5, <3>6, <3>7, <3>8
      DEF Methods, OutsideCall
  <2>2. LongestCall \in Nat
    BY <1>1, <1>4
  <2> QED BY <1>6, <2>1, <2>2 DEF CallIsBounded
<1> QED BY <1>5, <1>6

\* No step makes the call longer.
LEMMA StepsCounted == LoopInv /\ [Next]_vars => CallStep
<1> SUFFICES ASSUME LoopInv, [Next]_vars, pc \notin OutsideCall
             PROVE  /\ ProcessStep => StepsLeft' < StepsLeft
                    /\ ~ProcessStep => pc' = "down" \/ StepsLeft' = StepsLeft
  BY DEF CallStep
<1>1. ASSUME ProcessStep PROVE StepsLeft' < StepsLeft
  <2>1. ~Start /\ ~ReadPresent /\ ~ReadPresentProperty
    BY DEF Start, ReadPresent, ReadPresentProperty, OutsideCall
  <2>2. \/ CheckAndFixBootLoaderBug \/ DoFWUpdate \/ GotoBootloader \/ ReadBLVersion
        \/ UpdateFlash \/ GotoMainProgram \/ ReadMPVersion \/ PanelI2CWrite
    BY <1>1, <2>1 DEF ProcessStep
  <2>3. TransportTypeOK' /\ isLCD' = isLCD
    BY NextKeepsTypes, PanelTypeIsFixed DEF LoopInv
  <2> QED BY <2>2, <2>3, CallCounts
<1>2. ASSUME ~ProcessStep PROVE pc' = "down" \/ StepsLeft' = StepsLeft
  <2>1. Crash \/ Plug \/ Unplug \/ InventoryChanged \/ UNCHANGED vars
    BY <1>2 DEF Next
  <2>2. CASE Crash
    BY <2>2 DEF Crash
  <2>3. CASE UNCHANGED processVars
    BY <2>3 DEF processVars, StepsLeft, ConfigureTurns, Chunks, ChunksLeft
  <2> QED
    BY <2>1, <2>2, <2>3 DEF Plug, Unplug, InventoryChanged, vars
<1> QED BY <1>1, <1>2

\* The safety of SetTransportKeyEnds: a call of setTransportKey takes at most the
\* steps of LongestCall, whatever the panel answers, however often it comes and goes
\* and for every size of the image and number of retries; no step of the process
\* within the call starts a loop again. That the steps are taken is the fairness.
THEOREM SetTransportKeyIsBounded == Spec => []CallIsBounded /\ [][CallStep]_vars
<1>1. Init => LoopInv
  <2> SUFFICES ASSUME Init PROVE LoopInv
    OBVIOUS
  <2>1. pc = "down" /\ TransportTypeOK
    BY InitTypes DEF Init
  <2> QED BY <2>1 DEF LoopInv, LoopLimits
<1>2. LoopInv /\ [Next]_vars => LoopInv'
  BY NextKeepsLoopInv
<1>3. LoopInv => CallIsBounded
  BY CallLength
<1>4. LoopInv /\ [Next]_vars => CallStep
  BY StepsCounted
<1>5. Spec => []LoopInv
  BY <1>1, <1>2, PTL DEF Spec
<1> QED BY <1>3, <1>4, <1>5, PTL DEF Spec
=============================================================================
