------------------------------ MODULE Display ------------------------------
(* What the LCD panel shows: the lines the process asks it to show, by its    *)
(* functions, by progress codes and for D-Bus clients, the lamp test, and     *)
(* the panel itself, which comes and goes, loses what it showed and misses    *)
(* commands. Transport says what a command goes through on its way; here it   *)
(* arrives or it does not.                                                    *)
EXTENDS Messages

CONSTANTS
  Texts,       \* the lines that are shown
  MaxSignals   \* bound: presence signals that wait

VARIABLES
  \* the inventory, the state of the BMC and the panel, which are not under src/
  present,      \* the panel is plugged in
  signals,      \* the values of Present that wait in io_context
  bmcReady,     \* CurrentBMCState is Ready
  panel,        \* what the panel shows
  \* the process
  phase,        \* of main: "off", "listening", "keyed" or "running"
  transportKey,
  restoreLine1, restoreLine2,
  \* history
  failed,       \* the lines did not reach a panel that is there
  resetUnready  \* the panel was reset while the BMC was not Ready, or its state
                \* could not be read, and nothing was shown since

envVars == <<present, signals, bmcReady>>
lineVars == <<restoreLine1, restoreLine2>>
vars == <<envVars, panel, phase, transportKey, lineVars, failed, resetUnready>>

ASSUME TextAssumption == Texts \subseteq Seq(Byte) /\ MaxSignals \in Nat

Lines == [1..LineLength -> Byte]
ScrollControls == {0, BOTH_LEFT, LINE1_LEFT, LINE2_LEFT}
PanelAtReset == [line1 |-> FitLine(<<>>), line2 |-> FitLine(<<>>), scroll |-> 0, lamps |-> FALSE]

-----------------------------------------------------------------------------
(* The panel. It ignores a command whose check sum is wrong. Whether new      *)
(* lines stop the scrolling of the old ones is left open.                     *)
Interpreted(p, message) ==
  LET bytes == SubSeq(message, 1, Len(message) - 1)
      lineAt(i) == [k \in 1..LineLength |-> message[i + k]]
  IN  IF message # Encoded(bytes) THEN {p}
      ELSE CASE message[2] = 128 ->
                  {[line1 |-> lineAt(2), line2 |-> lineAt(2 + LineLength),
                    scroll |-> control, lamps |-> FALSE] : control \in {0, p.scroll}}
             [] message[2] = 136 -> {[p EXCEPT !.scroll = message[3]]}
             [] message[2] = 84 -> {[p EXCEPT !.lamps = TRUE]}
             [] message[2] = 0 -> {PanelAtReset}
             [] OTHER -> {p}

\* Present changes; the signal reaches the process once its match is registered.
PresentChanges(value) ==
  /\ Len(signals) < MaxSignals
  /\ present' = value
  /\ signals' = IF phase = "off" THEN signals ELSE Append(signals, value)
  /\ panel' = IF value THEN PanelAtReset ELSE panel
  /\ UNCHANGED <<bmcReady, phase, transportKey, lineVars, failed, resetUnready>>

Plug == ~present /\ PresentChanges(TRUE)
Unplug == present /\ PresentChanges(FALSE)

\* The lamp test ends after its duration.
LampTestEnds ==
  /\ panel.lamps
  /\ panel' = [panel EXCEPT !.lamps = FALSE]
  /\ UNCHANGED <<envVars, phase, transportKey, lineVars, failed, resetUnready>>

-----------------------------------------------------------------------------
\* A situation is what the panel shows and whether a write failed. These are the
\* situations after panelI2CWrite of each of the messages: without the key nothing
\* is written, and a write that fails to the end is logged and forgotten.
Situation == [panel : [line1 : Lines, line2 : Lines, scroll : ScrollControls, lamps : BOOLEAN],
              failed : BOOLEAN]

panelI2CWrite(s, message) ==
  {[s EXCEPT !.failed = TRUE]} \cup {[s EXCEPT !.panel = p] : p \in Interpreted(s.panel, message)}

Written(key, situations, message) ==
  IF key /\ present THEN UNION {panelI2CWrite(s, message) : s \in situations} ELSE situations

\* sendCurrDisplayToPanel: lines longer than the panel shows are scrolled.
\* Mutant: only the first of two long lines is scrolled.
ScrollType_OneLine(line1, line2) ==
  IF Len(line1) > VisibleLength THEN LINE1_LEFT
  ELSE IF Len(line2) > VisibleLength THEN LINE2_LEFT
  ELSE 0
ScrollType(line1, line2) ==
  LET wide1 == Len(line1) > VisibleLength
      wide2 == Len(line2) > VisibleLength
  IN  CASE wide1 /\ wide2 -> BOTH_LEFT
        [] wide1 /\ ~wide2 -> LINE1_LEFT
        [] ~wide1 /\ wide2 -> LINE2_LEFT
        [] OTHER -> 0

Displayed(key, situations, line1, line2) ==
  LET shown == Written(key, situations, rawDisplay(line1, line2))
      type == ScrollType(line1, line2)
  IN  IF type = 0 THEN shown ELSE Written(key, shown, scroll(type))

\* What is displayed is remembered whether it reaches the panel or not.
SendCurrDisplay(key, s, line1, line2) ==
  /\ restoreLine1' = line1 /\ restoreLine2' = line2
  /\ \E t \in Displayed(key, {[s EXCEPT !.failed = ~key /\ s.failed]}, line1, line2) :
       panel' = t.panel /\ failed' = t.failed
  /\ resetUnready' = FALSE

Now == [panel |-> panel, failed |-> failed]

-----------------------------------------------------------------------------
\* Any function, progress code, PEL, and BusHandler::display.
Display(line1, line2) ==
  /\ phase = "running"
  /\ SendCurrDisplay(transportKey, Now, line1, line2)
  /\ UNCHANGED <<envVars, phase, transportKey>>

\* doLampTest: of function 04, after its write to the LED group, and of
\* triggerPanelLampTest(true).
DoLampTest ==
  /\ phase = "running"
  /\ \E t \in Written(transportKey, {Now}, lampTest) : panel' = t.panel /\ failed' = t.failed
  /\ UNCHANGED <<envVars, phase, transportKey, lineVars, resetUnready>>

\* The progress code that clears the display: blank lines, then function 01.
ClearDisplay ==
  /\ phase = "running"
  /\ \E s \in Displayed(transportKey, {Now}, <<>>, <<>>) :
       \E line1, line2 \in Texts : SendCurrDisplay(transportKey, s, line1, line2)
  /\ UNCHANGED <<envVars, phase, transportKey>>

\* restoreDisplayOnPanel: triggerPanelLampTest(false).
RestoreDisplayOnPanel == Display(restoreLine1, restoreLine2)

\* setTransportKey of the LCD panel, without what Transport says of its firmware.
Reset(value, s) ==
  LET button(i, situations) == Written(TRUE, situations, buttonControl(i, 1))
  IN  IF value THEN button(2, button(1, button(0, Written(TRUE, {s}, softReset)))) ELSE {s}

\* The BMC state is read, and function 01 executed if it is Ready: its lines, or
\* the status of its failure. A read that fails is a state that is not Ready.
ShowFunction01IfReady(key, s, wasReset) ==
  \/ /\ bmcReady
     /\ \E line1, line2 \in Texts : SendCurrDisplay(key, s, line1, line2)
  \/ /\ panel' = s.panel /\ failed' = s.failed
     /\ resetUnready' = (resetUnready \/ wasReset)
     /\ UNCHANGED lineVars

\* readPresentProperty.
ReadPresentProperty ==
  /\ phase = "running" /\ signals # <<>>
  /\ signals' = Tail(signals)
  /\ transportKey' = Head(signals)
  /\ \E s \in Reset(Head(signals), Now) :
       IF Head(signals) THEN ShowFunction01IfReady(TRUE, s, TRUE)
       ELSE /\ panel' = s.panel /\ failed' = s.failed
            /\ UNCHANGED <<lineVars, resetUnready>>
  /\ UNCHANGED <<present, bmcReady, phase>>

\* The BMC becomes Ready, or leaves that state; SystemStatus executes function 01
\* in the first case.
BMCStateChanges ==
  /\ bmcReady' = ~bmcReady
  /\ UNCHANGED <<present, signals, panel, phase, transportKey, lineVars, failed, resetUnready>>

\* main: the match is registered, then the key is set from Present, which may be
\* unreadable and is then taken for FALSE, then SystemStatus reads the BMC state.
ListenPanelPresence ==
  /\ phase = "off" /\ phase' = "listening"
  /\ UNCHANGED <<envVars, panel, transportKey, lineVars, failed, resetUnready>>

SetTransportKeyAtStart ==
  /\ phase = "listening" /\ phase' = "keyed"
  /\ \E read \in {present, FALSE} :
       /\ transportKey' = read
       /\ \E s \in Reset(read, [Now EXCEPT !.failed = present /\ ~read]) :
            panel' = s.panel /\ failed' = s.failed
  /\ UNCHANGED <<envVars, lineVars, resetUnready>>

StartSystemStatus ==
  /\ phase = "keyed" /\ phase' = "running"
  /\ ShowFunction01IfReady(transportKey, Now, FALSE)
  /\ UNCHANGED <<envVars, transportKey>>

\* The process ends; the panel keeps what it shows.
Exit ==
  /\ phase # "off" /\ phase' = "off"
  /\ signals' = <<>> /\ transportKey' = FALSE
  /\ restoreLine1' = <<>> /\ restoreLine2' = <<>>
  /\ failed' = FALSE /\ resetUnready' = FALSE
  /\ UNCHANGED <<present, bmcReady, panel>>

-----------------------------------------------------------------------------
Init ==
  /\ present \in BOOLEAN /\ signals = <<>> /\ bmcReady \in BOOLEAN
  /\ panel = PanelAtReset
  /\ phase = "off" /\ transportKey = FALSE
  /\ restoreLine1 = <<>> /\ restoreLine2 = <<>>
  /\ failed = FALSE /\ resetUnready = FALSE

Next ==
  \/ Plug \/ Unplug \/ LampTestEnds \/ BMCStateChanges
  \/ \E line1, line2 \in Texts : Display(line1, line2)
  \/ ClearDisplay \/ DoLampTest \/ RestoreDisplayOnPanel
  \/ ReadPresentProperty
  \/ ListenPanelPresence \/ SetTransportKeyAtStart \/ StartSystemStatus \/ Exit

Spec == Init /\ [][Next]_vars

-----------------------------------------------------------------------------
DisplayTypeOK ==
  /\ present \in BOOLEAN /\ bmcReady \in BOOLEAN /\ signals \in Seq(BOOLEAN)
  /\ Now \in Situation
  /\ phase \in {"off", "listening", "keyed", "running"} /\ transportKey \in BOOLEAN
  /\ restoreLine1 \in Seq(Byte) /\ restoreLine2 \in Seq(Byte)
  /\ resetUnready \in BOOLEAN

\* The state has its types, and the messages are what the tests and the senders
\* mean by them: the check sum with its carries, the encoded commands, the hex
\* words of progress codes and the bit map of functions.
DisplayInv == DisplayTypeOK /\ MessagesAreRight

\* A panel that is there shows the lines the process remembers, which are the last
\* ones it was asked to show, and scrolls those that are longer than it shows,
\* after it was plugged in, after a lamp test, after a restart of the process:
\* unless a write to it or the read of Present has failed, or it was reset while
\* the BMC was not Ready: the lines are then not sent again.
PanelShowsLastLines ==
  phase = "running" /\ present /\ signals = <<>> /\ ~panel.lamps /\ ~failed /\ ~resetUnready
  => /\ panel.line1 = FitLine(restoreLine1) /\ panel.line2 = FitLine(restoreLine2)
     /\ Len(restoreLine1) > VisibleLength => panel.scroll \in {BOTH_LEFT, LINE1_LEFT}
     /\ Len(restoreLine2) > VisibleLength => panel.scroll \in {BOTH_LEFT, LINE2_LEFT}
=============================================================================
