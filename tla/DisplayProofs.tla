---------------------------- MODULE DisplayProofs ----------------------------
(* The panel shows the last lines it was asked to show, for all lines, with   *)
(* every number of signals that wait.                                         *)
EXTENDS Display, MessagesProofs

\* What a panel may show.
Panels == [line1 : Lines, line2 : Lines, scroll : ScrollControls, lamps : BOOLEAN]

\* The panel shows the lines, and scrolls those that are longer than it shows.
Shows(p, line1, line2) ==
  /\ p.line1 = FitLine(line1) /\ p.line2 = FitLine(line2)
  /\ Len(line1) > VisibleLength => p.scroll \in {BOTH_LEFT, LINE1_LEFT}
  /\ Len(line2) > VisibleLength => p.scroll \in {BOTH_LEFT, LINE2_LEFT}

\* The last signal that waits tells whether the panel is there.
SignalsTell ==
  phase # "off" /\ signals # <<>> => signals[Len(signals)] = present

\* A process that does not run has neither signals nor a key.
OffIsEmpty == phase = "off" => signals = <<>> /\ ~transportKey

\* All signals are handled, and no write failed at a panel that is there.
Settled == phase \in {"keyed", "running"} /\ present /\ signals = <<>> /\ ~failed

\* The key is then set: SetTransportKeyAtStart counts a failed read as a failure.
KeyTells == Settled => transportKey

\* Nothing is displayed before StartSystemStatus.
NothingShownYet == phase # "running" => restoreLine1 = <<>> /\ restoreLine2 = <<>>

\* What settled shows the lines, also while the lamps are on, and from the first reset.
LinesShown == Settled /\ ~resetUnready => Shows(panel, restoreLine1, restoreLine2)

\* The inductive invariant.
DispInv ==
  /\ DisplayTypeOK /\ SignalsTell /\ OffIsEmpty
  /\ KeyTells /\ NothingShownYet /\ LinesShown

-----------------------------------------------------------------------------
\* The panel after a reset is a panel.
LEMMA ResetIsPanel == PanelAtReset \in Panels
<1>1. FitLine(<<>>) \in Lines
  <2>1. <<>> \in Seq(Byte)
    OBVIOUS
  <2> QED BY <2>1, FitLineIsLine DEF Lines
<1> QED BY <1>1 DEF PanelAtReset, Panels, ScrollControls

\* The panel after a command of five bytes.
AfterCommand(p, command, argument) ==
  IF command = 136 THEN {[p EXCEPT !.scroll = argument]}
  ELSE IF command = 84 THEN {[p EXCEPT !.lamps = TRUE]}
  ELSE {p}

\* The five bytes of a command to the panel, with their check sum, are read back.
LEMMA FiveAreRead ==
  ASSUME NEW p, NEW y1 \in Byte, NEW y2 \in Byte, NEW y3 \in Byte, NEW y4 \in Byte,
         NEW y5 \in Byte, y2 \in {84, 136, 176}
  PROVE  Interpreted(p, Encoded(<<y1, y2, y3, y4, y5>>)) = AfterCommand(p, y2, y3)
<1> DEFINE q == <<y1, y2, y3, y4, y5>>
           m == Encoded(q)
<1>1. q \in Seq(Byte) /\ Len(q) = 5 /\ q[2] = y2 /\ q[3] = y3
  OBVIOUS
<1> HIDE DEF q
<1>2. SubSeq(m, 1, Len(m) - 1) = q /\ m[2] = y2 /\ m[3] = y3
  <2>1. 2 \in 1..Len(q) /\ 3 \in 1..Len(q)
    BY <1>1
  <2>2. SubSeq(m, 1, Len(m) - 1) = q /\ \A i \in 1..Len(q) : m[i] = q[i]
    BY <1>1, EncodedKeeps
  <2> HIDE DEF m
  <2> QED BY <1>1, <2>1, <2>2, Zenon
<1>3. m = Encoded(SubSeq(m, 1, Len(m) - 1))
  BY <1>2, Zenon
<1> HIDE DEF m
<1>4. CASE y2 = 136
  <2>1. Interpreted(p, m) = {[p EXCEPT !.scroll = y3]}
    BY <1>2, <1>3, <1>4 DEF Interpreted
  <2> QED BY <1>4, <2>1 DEF m, q, AfterCommand
<1>5. CASE y2 = 84
  <2>1. Interpreted(p, m) = {[p EXCEPT !.lamps = TRUE]}
    BY <1>2, <1>3, <1>5 DEF Interpreted
  <2> QED BY <1>5, <2>1 DEF m, q, AfterCommand
<1>6. CASE y2 = 176
  <2>1. Interpreted(p, m) = {p}
    BY <1>2, <1>3, <1>6 DEF Interpreted
  <2> QED BY <1>6, <2>1 DEF m, q, AfterCommand
<1> QED BY <1>4, <1>5, <1>6

\* The panel obeys the scroll commands of the process.
LEMMA ScrollIsRead ==
  ASSUME NEW p, NEW control \in ScrollControls
  PROVE  Interpreted(p, scroll(control)) = {[p EXCEPT !.scroll = control]}
<1>1. 255 \in Byte /\ 136 \in Byte /\ control \in Byte /\ 10 \in Byte /\ 1 \in Byte
  BY DEF ScrollControls, Byte, BOTH_LEFT, LINE1_LEFT, LINE2_LEFT
<1>2. 136 \in {84, 136, 176}
  OBVIOUS
<1>3. Interpreted(p, Encoded(<<255, 136, control, 10, 1>>)) = AfterCommand(p, 136, control)
  BY <1>1, <1>2, FiveAreRead
<1> QED BY <1>3 DEF AfterCommand, scroll

\* The panel obeys the lamp test of the process.
LEMMA LampTestIsRead ==
  ASSUME NEW p
  PROVE  Interpreted(p, lampTest) = {[p EXCEPT !.lamps = TRUE]}
<1>1. 255 \in Byte /\ 84 \in Byte /\ 240 \in Byte /\ 50 \in Byte
  BY DEF Byte
<1>2. 84 \in {84, 136, 176}
  OBVIOUS
<1>3. Interpreted(p, Encoded(<<255, 84, 240, 50, 50>>)) = AfterCommand(p, 84, 240)
  BY <1>1, <1>2, FiveAreRead
<1> QED BY <1>3 DEF AfterCommand, lampTest

\* The configuration of a button does not change what the panel shows.
LEMMA ButtonControlIsRead ==
  ASSUME NEW p, NEW i \in Byte
  PROVE  Interpreted(p, buttonControl(i, 1)) = {p}
<1>1. 255 \in Byte /\ 176 \in Byte /\ 20 \in Byte /\ 1 \in Byte
  BY DEF Byte
<1>2. 176 \in {84, 136, 176}
  OBVIOUS
<1>3. Interpreted(p, Encoded(<<255, 176, i, 20, 1>>)) = AfterCommand(p, 176, i)
  BY <1>1, <1>2, FiveAreRead
<1> QED BY <1>3 DEF AfterCommand, buttonControl

\* The panel obeys the soft reset of the process.
LEMMA SoftResetIsRead ==
  ASSUME NEW p
  PROVE  Interpreted(p, softReset) = {PanelAtReset}
<1> DEFINE q == <<255, 0>>
           m == Encoded(q)
<1>1. q \in Seq(Byte) /\ Len(q) = 2 /\ q[2] = 0
  BY BytesThere
<1> HIDE DEF q
<1>2. SubSeq(m, 1, Len(m) - 1) = q /\ m[2] = 0
  BY <1>1, EncodedKeeps
<1> HIDE DEF m
<1>3. m = Encoded(SubSeq(m, 1, Len(m) - 1))
  BY <1>2 DEF m
<1>4. Interpreted(p, m) = {PanelAtReset}
  BY <1>2, <1>3 DEF Interpreted
<1> QED BY <1>4 DEF softReset, m, q

\* The panel finds both lines of a display message, and may go on scrolling.
LEMMA RawDisplayIsRead ==
  ASSUME NEW p, NEW line1 \in Seq(Byte), NEW line2 \in Seq(Byte)
  PROVE  Interpreted(p, rawDisplay(line1, line2)) =
           {[line1 |-> FitLine(line1), line2 |-> FitLine(line2),
             scroll |-> control, lamps |-> FALSE] : control \in {0, p.scroll}}
<1> DEFINE head == <<255, 128>>
           fit1 == FitLine(line1)
           fit2 == FitLine(line2)
           two == head \o fit1
           q == two \o fit2
           m == Encoded(q)
<1>1. head \in Seq(Byte) /\ Len(head) = 2 /\ head[2] = 128
  BY BytesThere
<1>2. fit1 \in [1..LineLength -> Byte] /\ fit2 \in [1..LineLength -> Byte]
  BY FitLineIsLine DEF Lines
<1> HIDE DEF head, fit1, fit2
<1>3. LineLength \in Nat
  BY LineAssumption
<1>4. /\ fit1 \in Seq(Byte) /\ Len(fit1) = LineLength
      /\ fit2 \in Seq(Byte) /\ Len(fit2) = LineLength
  BY <1>2, <1>3
<1>5. /\ two \in Seq(Byte) /\ Len(two) = 2 + LineLength /\ two[2] = 128
      /\ \A k \in 1..LineLength : two[2 + k] = fit1[k]
  <2>1. 2 \in 1..2
    OBVIOUS
  <2>2. /\ two \in Seq(Byte) /\ Len(two) = Len(head) + Len(fit1)
        /\ \A i \in 1..Len(head) : two[i] = head[i]
        /\ \A i \in 1..Len(fit1) : two[Len(head) + i] = fit1[i]
    BY <1>1, <1>4, ConcatLemma
  <2> HIDE DEF two
  <2> QED BY <1>1, <1>4, <2>1, <2>2
<1> HIDE DEF two
<1>6. /\ q \in Seq(Byte) /\ Len(q) = 2 + LineLength + LineLength /\ q[2] = 128
      /\ \A k \in 1..LineLength : q[2 + k] = fit1[k] /\ q[2 + LineLength + k] = fit2[k]
  <2>1. 2 \in 1..Len(two) /\ \A k \in 1..LineLength : 2 + k \in 1..Len(two)
    BY <1>3, <1>5
  <2>2. /\ q \in Seq(Byte) /\ Len(q) = Len(two) + Len(fit2)
        /\ \A i \in 1..Len(two) : q[i] = two[i]
        /\ \A i \in 1..Len(fit2) : q[Len(two) + i] = fit2[i]
    <3>1. two \in Seq(Byte) /\ fit2 \in Seq(Byte)
      BY <1>4, <1>5
    <3> QED BY <3>1, ConcatLemma
  <2> HIDE DEF q
  <2> QED BY <1>4, <1>5, <2>1, <2>2
<1> HIDE DEF q
<1>7. /\ SubSeq(m, 1, Len(m) - 1) = q /\ m[2] = 128
      /\ \A k \in 1..LineLength : m[2 + k] = fit1[k] /\ m[2 + LineLength + k] = fit2[k]
  <2>1. /\ 2 \in 1..Len(q)
        /\ \A k \in 1..LineLength : 2 + k \in 1..Len(q) /\ 2 + LineLength + k \in 1..Len(q)
    BY <1>3, <1>6
  <2> QED BY <1>6, <2>1, EncodedKeeps
<1>8. m = Encoded(SubSeq(m, 1, Len(m) - 1))
  BY <1>7
<1> HIDE DEF m
<1>9. /\ [k \in 1..LineLength |-> m[2 + k]] = fit1
      /\ [k \in 1..LineLength |-> m[2 + LineLength + k]] = fit2
  BY <1>2, <1>7
<1>10. Interpreted(p, m) = {[line1 |-> fit1, line2 |-> fit2, scroll |-> control, lamps |-> FALSE]
                              : control \in {0, p.scroll}}
  <2>1. Interpreted(p, m) =
          {[line1 |-> [k \in 1..LineLength |-> m[2 + k]],
            line2 |-> [k \in 1..LineLength |-> m[2 + LineLength + k]],
            scroll |-> control, lamps |-> FALSE] : control \in {0, p.scroll}}
    BY <1>7, <1>8 DEF Interpreted
  <2> QED BY <1>9, <2>1, Zenon
<1>11. rawDisplay(line1, line2) = m
  BY DEF rawDisplay, m, q, two, head, fit1, fit2
<1> QED BY <1>10, <1>11 DEF fit1, fit2

\* A situation is a panel and whether a write failed.
LEMMA SituationIs == Situation = [panel : Panels, failed : BOOLEAN]
BY DEF Situation, Panels

\* A write goes out: there is a key, and a panel.
Reaches(key) == key /\ present

\* A write fails, or the panel does what the message tells it.
LEMMA WriteIs ==
  ASSUME NEW s \in Situation, NEW message, NEW t \in panelI2CWrite(s, message)
  PROVE  \/ t = [s EXCEPT !.failed = TRUE]
         \/ \E p \in Interpreted(s.panel, message) : t = [s EXCEPT !.panel = p]
BY DEF panelI2CWrite

\* A situation after a write: nothing was written, or one of those before went on.
LEMMA WrittenIs ==
  ASSUME NEW key, NEW situations, NEW message, NEW t \in Written(key, situations, message)
  PROVE  \/ ~Reaches(key) /\ t \in situations
         \/ Reaches(key) /\ \E s \in situations : t \in panelI2CWrite(s, message)
BY DEF Written, Reaches

-----------------------------------------------------------------------------
\* What a command makes of a panel, and of a failed write.
LEMMA WrittenBetween ==
  ASSUME NEW key, NEW situations, situations \subseteq Situation,
         NEW message, NEW After, After \subseteq Panels,
         \A p \in Panels : Interpreted(p, message) \subseteq Panels,
         \A s \in situations : ~s.failed => Interpreted(s.panel, message) \subseteq After,
         NEW t \in Written(key, situations, message)
  PROVE  /\ t \in Situation
         /\ ~Reaches(key) => t \in situations
         /\ Reaches(key) /\ ~t.failed => t.panel \in After
<1>1. CASE ~Reaches(key)
  <2>1. t \in situations
    BY <1>1, WrittenIs
  <2> QED BY <1>1, <2>1
<1>2. CASE Reaches(key)
  <2>1. PICK s \in situations : t \in panelI2CWrite(s, message)
    BY <1>2, WrittenIs
  <2>2. s \in Situation /\ s = [panel |-> s.panel, failed |-> s.failed]
        /\ s.panel \in Panels /\ s.failed \in BOOLEAN
    BY SituationIs
  <2>3. CASE t = [s EXCEPT !.failed = TRUE]
    <3>1. t = [panel |-> s.panel, failed |-> TRUE]
      BY <2>2, <2>3
    <3> QED BY <1>2, <2>2, <3>1, SituationIs
  <2>4. CASE \E p \in Interpreted(s.panel, message) : t = [s EXCEPT !.panel = p]
    <3>1. PICK p \in Interpreted(s.panel, message) : t = [s EXCEPT !.panel = p]
      BY <2>4
    <3>2. t = [panel |-> p, failed |-> s.failed] /\ p \in Panels
      BY <2>2, <3>1
    <3> QED BY <1>2, <2>2, <3>1, <3>2, SituationIs
  <2> QED BY <2>1, <2>2, <2>3, <2>4, WriteIs
<1> QED BY <1>1, <1>2

\* sendCurrDisplayToPanel: unless a write fails, the panel shows the lines.
LEMMA DisplayedShows ==
  ASSUME NEW key, NEW situations, situations \subseteq Situation,
         NEW line1 \in Seq(Byte), NEW line2 \in Seq(Byte),
         NEW t \in Displayed(key, situations, line1, line2)
  PROVE  /\ t \in Situation
         /\ ~Reaches(key) => t \in situations
         /\ Reaches(key) /\ ~t.failed => Shows(t.panel, line1, line2)
<1> DEFINE shown == Written(key, situations, rawDisplay(line1, line2))
           type == ScrollType(line1, line2)
           After == {p \in Panels : p.line1 = FitLine(line1) /\ p.line2 = FitLine(line2)}
           Scrolled == {p \in After : p.scroll = type}
<1>1. FitLine(line1) \in Lines /\ FitLine(line2) \in Lines /\ 0 \in ScrollControls
  BY FitLineIsLine DEF ScrollControls, Lines
<1>2. \A p \in Panels : Interpreted(p, rawDisplay(line1, line2)) \subseteq After
  <2> SUFFICES ASSUME NEW p \in Panels, NEW r \in Interpreted(p, rawDisplay(line1, line2))
               PROVE  r \in After
    OBVIOUS
  <2>1. PICK control \in {0, p.scroll} :
          r = [line1 |-> FitLine(line1), line2 |-> FitLine(line2),
               scroll |-> control, lamps |-> FALSE]
    BY RawDisplayIsRead
  <2>2. control \in ScrollControls
    BY <1>1 DEF Panels
  <2> QED BY <1>1, <2>1, <2>2 DEF Panels
<1>3. ASSUME NEW s \in shown
      PROVE  /\ s \in Situation
             /\ ~Reaches(key) => s \in situations
             /\ Reaches(key) /\ ~s.failed => s.panel \in After
  <2>1. /\ After \subseteq Panels
        /\ \A p \in Panels : Interpreted(p, rawDisplay(line1, line2)) \subseteq Panels
        /\ \A u \in situations : Interpreted(u.panel, rawDisplay(line1, line2)) \subseteq After
    BY <1>2, SituationIs
  <2> HIDE DEF After
  <2> QED BY <2>1, WrittenBetween
<1>4. type \in ScrollControls
  BY DEF ScrollType, ScrollControls
<1>5. CASE type = 0
  <2>1. ~(Len(line1) > VisibleLength) /\ ~(Len(line2) > VisibleLength)
    BY <1>5 DEF ScrollType, BOTH_LEFT, LINE1_LEFT, LINE2_LEFT
  <2>2. t \in shown
    BY <1>5 DEF Displayed
  <2>3. /\ t \in Situation
        /\ ~Reaches(key) => t \in situations
        /\ Reaches(key) /\ ~t.failed => t.panel \in After
    BY <1>3, <2>2, Zenon
  <2>4. \A p \in After : Shows(p, line1, line2)
    BY <2>1 DEF Shows
  <2> QED BY <2>3, <2>4, Zenon
<1>6. CASE type # 0
  <2>1. t \in Written(key, shown, scroll(type))
    BY <1>6 DEF Displayed
  <2>2. \A p \in Panels : Interpreted(p, scroll(type)) \subseteq Panels
    BY <1>4, ScrollIsRead DEF Panels
  <2>3. \A p \in After : Interpreted(p, scroll(type)) \subseteq Scrolled
    BY <1>4, ScrollIsRead DEF Panels
  <2>4. /\ t \in Situation
        /\ ~Reaches(key) => t \in shown
        /\ Reaches(key) /\ ~t.failed => t.panel \in Scrolled
    <3>1. CASE ~Reaches(key)
      BY <1>3, <2>1, <3>1, WrittenIs
    <3>2. CASE Reaches(key)
      <4>1. \A s \in shown : s \in Situation /\ (~s.failed => Interpreted(s.panel, scroll(type)) \subseteq Scrolled)
        <5> HIDE DEF After, Scrolled, shown
        <5> QED BY <1>3, <2>3, <3>2
      <4>2. Scrolled \subseteq Panels
        OBVIOUS
      <4> HIDE DEF Scrolled, shown, type
      <4> QED BY <2>1, <2>2, <3>2, <4>1, <4>2, WrittenBetween
    <3> QED BY <3>1, <3>2
  <2>5. \A p \in Scrolled : Shows(p, line1, line2)
    BY <1>6 DEF Shows, ScrollType
  <2> QED BY <1>3, <2>4, <2>5
<1> QED BY <1>5, <1>6

\* setTransportKey: a key that is set comes with a reset of the panel.
LEMMA ResetShows ==
  ASSUME NEW value \in BOOLEAN, NEW s \in Situation, NEW t \in Reset(value, s)
  PROVE  /\ t \in Situation
         /\ ~value => t = s
         /\ value /\ Reaches(TRUE) /\ ~t.failed => t.panel = PanelAtReset
<1>1. CASE ~value
  BY <1>1 DEF Reset
<1>2. CASE value
  <2> DEFINE r0 == Written(TRUE, {s}, softReset)
             r1 == Written(TRUE, r0, buttonControl(0, 1))
             r2 == Written(TRUE, r1, buttonControl(1, 1))
             r3 == Written(TRUE, r2, buttonControl(2, 1))
             Fits(r) == \A u \in r : /\ u \in Situation
                                     /\ Reaches(TRUE) /\ ~u.failed => u.panel \in {PanelAtReset}
  <2>1. {PanelAtReset} \subseteq Panels
    BY ResetIsPanel
  <2>2. Fits(r0)
    <3>1. /\ \A p \in Panels : Interpreted(p, softReset) \subseteq Panels
          /\ \A u \in {s} : Interpreted(u.panel, softReset) \subseteq {PanelAtReset}
      BY <2>1, SoftResetIsRead
    <3>2. {s} \subseteq Situation
      OBVIOUS
    <3>3. ASSUME NEW u \in r0
          PROVE  u \in Situation /\ (Reaches(TRUE) /\ ~u.failed => u.panel \in {PanelAtReset})
      <4>1. \A v \in {s} : ~v.failed => Interpreted(v.panel, softReset) \subseteq {PanelAtReset}
        BY <3>1
      <4> QED BY <2>1, <3>1, <3>2, <4>1, WrittenBetween, Zenon
    <3> QED BY <3>3
  <2>3. ASSUME NEW r, Fits(r), NEW i \in Byte PROVE Fits(Written(TRUE, r, buttonControl(i, 1)))
    <3>1. /\ \A p \in Panels : Interpreted(p, buttonControl(i, 1)) \subseteq Panels
          /\ \A u \in r : Reaches(TRUE) /\ ~u.failed =>
                            Interpreted(u.panel, buttonControl(i, 1)) \subseteq {PanelAtReset}
      <4>1. \A p : Interpreted(p, buttonControl(i, 1)) = {p}
        BY <2>3, ButtonControlIsRead
      <4>2. ASSUME NEW u \in r, Reaches(TRUE), ~u.failed
            PROVE  Interpreted(u.panel, buttonControl(i, 1)) \subseteq {PanelAtReset}
        <5>1. u.panel = PanelAtReset
          BY <2>3, <4>2, Zenon
        <5> QED BY <4>1, <5>1
      <4>3. \A p \in Panels : Interpreted(p, buttonControl(i, 1)) \subseteq Panels
        BY <4>1
      <4> QED BY <4>2, <4>3, Zenon
    <3>2. r \subseteq Situation
      BY <2>3
    <3>3. CASE Reaches(TRUE)
      BY <2>1, <3>1, <3>2, <3>3, WrittenBetween
    <3>4. CASE ~Reaches(TRUE)
      BY <3>2, <3>4, WrittenIs
    <3> QED BY <3>3, <3>4
  <2>4. Fits(r3)
    <3>1. 0 \in Byte /\ 1 \in Byte /\ 2 \in Byte
      BY DEF Byte
    <3> HIDE DEF r0, Fits
    <3>2. Fits(r1)
      BY <2>2, <2>3, <3>1
    <3> HIDE DEF r1
    <3>3. Fits(r2)
      BY <2>3, <3>1, <3>2
    <3> HIDE DEF r2
    <3> QED BY <2>3, <3>1, <3>3
  <2>5. t \in r3
    BY <1>2 DEF Reset
  <2> QED BY <1>2, <2>4, <2>5
<1> QED BY <1>1, <1>2

-----------------------------------------------------------------------------
\* A step that ends in a situation has it as its next state.
LEMMA NowIs ==
  ASSUME NEW t \in Situation, panel' = t.panel, failed' = t.failed
  PROVE  Now' = t /\ Now' \in Situation
<1>1. t = [panel |-> t.panel, failed |-> t.failed]
  BY SituationIs
<1> QED BY <1>1 DEF Now

\* sendCurrDisplayToPanel: the lines are remembered, and shown unless a write fails.
LEMMA SendShows ==
  ASSUME NEW key \in BOOLEAN, NEW s \in Situation,
         NEW line1 \in Seq(Byte), NEW line2 \in Seq(Byte),
         SendCurrDisplay(key, s, line1, line2)
  PROVE  /\ Now' \in Situation
         /\ restoreLine1' = line1 /\ restoreLine2' = line2 /\ resetUnready' = FALSE
         /\ Reaches(key) /\ ~failed' => Shows(panel', line1, line2)
         /\ ~key => failed' = s.failed
<1> DEFINE u == [s EXCEPT !.failed = ~key /\ s.failed]
<1>1. u \in Situation /\ (~key => u.failed = s.failed)
  BY SituationIs
<1>2. PICK t \in Displayed(key, {u}, line1, line2) : panel' = t.panel /\ failed' = t.failed
  BY DEF SendCurrDisplay
<1> HIDE DEF u
<1>3. /\ t \in Situation
      /\ ~Reaches(key) => t \in {u}
      /\ Reaches(key) /\ ~t.failed => Shows(t.panel, line1, line2)
  <2>1. {u} \subseteq Situation
    BY <1>1
  <2> QED BY <2>1, DisplayedShows
<1>4. Now' \in Situation
  BY <1>2, <1>3, NowIs
<1>5. ~key => failed' = s.failed
  BY <1>1, <1>2, <1>3 DEF Reaches
<1>6. Reaches(key) /\ ~failed' => Shows(panel', line1, line2)
  BY <1>2, <1>3
<1> QED BY <1>4, <1>5, <1>6 DEF SendCurrDisplay

\* Function 01 is executed, or the process goes on as it was.
LEMMA Function01Shows ==
  ASSUME NEW key \in BOOLEAN, NEW s \in Situation, NEW wasReset \in BOOLEAN,
         ShowFunction01IfReady(key, s, wasReset)
  PROVE  \/ \E line1, line2 \in Seq(Byte) : SendCurrDisplay(key, s, line1, line2)
         \/ /\ Now' = s
            /\ resetUnready' = (resetUnready \/ wasReset)
            /\ restoreLine1' = restoreLine1 /\ restoreLine2' = restoreLine2
<1>1. CASE \E line1, line2 \in Texts : SendCurrDisplay(key, s, line1, line2)
  BY <1>1, TextAssumption
<1>2. CASE /\ panel' = s.panel /\ failed' = s.failed
           /\ resetUnready' = (resetUnready \/ wasReset)
           /\ UNCHANGED lineVars
  BY <1>2, NowIs DEF lineVars
<1> QED BY <1>1, <1>2 DEF ShowFunction01IfReady

\* The lines are sent with the key that was there: what settles then shows them.
LEMMA SentIsSettled ==
  ASSUME DispInv, phase' = "running", UNCHANGED <<envVars, transportKey>>,
         NEW s \in Situation, NEW line1 \in Seq(Byte), NEW line2 \in Seq(Byte),
         SendCurrDisplay(transportKey, s, line1, line2),
         phase \in {"keyed", "running"},
         ~transportKey => s.failed = failed
  PROVE  DispInv'
<1>1. /\ Now' \in Situation
      /\ restoreLine1' = line1 /\ restoreLine2' = line2 /\ resetUnready' = FALSE
      /\ Reaches(transportKey) /\ ~failed' => Shows(panel', line1, line2)
      /\ ~transportKey => failed' = s.failed
  BY SendShows DEF DispInv, DisplayTypeOK
<1>2. DisplayTypeOK'
  BY <1>1 DEF DispInv, DisplayTypeOK, envVars
<1>3. SignalsTell'
  BY DEF DispInv, SignalsTell, envVars
<1>4. OffIsEmpty' /\ NothingShownYet'
  BY DEF OffIsEmpty, NothingShownYet
<1>5. KeyTells'
  BY <1>1 DEF DispInv, KeyTells, Settled, envVars
<1>6. LinesShown'
  BY <1>1, <1>5 DEF LinesShown, KeyTells, Settled, envVars, Reaches
<1> QED BY <1>2, <1>3, <1>4, <1>5, <1>6 DEF DispInv

\* The panel has no lines to show before the process starts.
LEMMA DispInit == Init => DispInv
<1> SUFFICES ASSUME Init PROVE DispInv
  OBVIOUS
<1>1. DisplayTypeOK
  <2>1. [panel |-> PanelAtReset, failed |-> FALSE] \in Situation
    BY ResetIsPanel, SituationIs
  <2>2. <<>> \in Seq(Byte) /\ <<>> \in Seq(BOOLEAN)
    BY EmptySeq
  <2> QED BY <2>1, <2>2 DEF Init, DisplayTypeOK, Now
<1> QED BY <1>1 DEF Init, DispInv, SignalsTell, OffIsEmpty, KeyTells, Settled,
                    NothingShownYet, LinesShown

\* The last signal of a queue that loses its first is still the last.
LEMMA TailLast ==
  ASSUME NEW q \in Seq(BOOLEAN), q # <<>>
  PROVE  /\ Head(q) \in BOOLEAN /\ Tail(q) \in Seq(BOOLEAN)
         /\ Tail(q) # <<>> => Tail(q)[Len(Tail(q))] = q[Len(q)]
         /\ Tail(q) = <<>> => Head(q) = q[Len(q)]
<1>1. /\ Head(q) \in BOOLEAN /\ Tail(q) \in Seq(BOOLEAN)
      /\ Len(Tail(q)) = Len(q) - 1
      /\ \A i \in 1..Len(Tail(q)) : Tail(q)[i] = q[i + 1]
  BY HeadTailProperties
<1>2. Len(q) \in Nat \ {0} /\ Len(Tail(q)) \in Nat
  BY <1>1, LenProperties, EmptySeq
<1>3. CASE Tail(q) # <<>>
  <2>1. Len(Tail(q)) # 0
    BY <1>1, <1>3, EmptySeq
  <2>2. Len(Tail(q)) \in 1..Len(Tail(q)) /\ Len(Tail(q)) + 1 = Len(q)
    BY <1>1, <1>2, <2>1
  <2> QED BY <1>1, <1>3, <2>2
<1>4. CASE Tail(q) = <<>>
  <2>1. Len(Tail(q)) = 0
    BY <1>4, EmptySeq
  <2>2. Len(q) = 1
    <3>1. Len(q) - 1 = 0
      BY <1>1, <2>1, Zenon
    <3> QED BY <1>2, <3>1
  <2>3. Head(q) = q[1]
    BY <1>2
  <2> QED BY <1>1, <1>4, <2>2, <2>3
<1> QED BY <1>3, <1>4

\* A new signal is the last one.
LEMMA AppendLast ==
  ASSUME NEW q \in Seq(BOOLEAN), NEW x \in BOOLEAN
  PROVE  /\ Append(q, x) \in Seq(BOOLEAN) /\ Append(q, x) # <<>>
         /\ Append(q, x)[Len(Append(q, x))] = x
BY AppendProperties, LenProperties

\* A panel that comes or goes is signalled last, so nothing is settled.
LEMMA PresentKeeps == DispInv /\ (Plug \/ Unplug) => DispInv'
<1> SUFFICES ASSUME DispInv, NEW value \in BOOLEAN, PresentChanges(value) PROVE DispInv'
  BY DEF Plug, Unplug
<1>1. DisplayTypeOK'
  <2>1. panel' \in Panels /\ failed' = failed /\ failed \in BOOLEAN
    BY ResetIsPanel, SituationIs DEF PresentChanges, DispInv, DisplayTypeOK, Now
  <2>2. Now' \in Situation
    BY <2>1, SituationIs DEF Now
  <2>3. signals' \in Seq(BOOLEAN)
    BY AppendLast DEF PresentChanges, DispInv, DisplayTypeOK
  <2> QED BY <2>2, <2>3 DEF PresentChanges, DispInv, DisplayTypeOK, lineVars
<1>2. CASE phase = "off"
  BY <1>1, <1>2 DEF PresentChanges, DispInv, SignalsTell, OffIsEmpty, KeyTells, Settled,
                    NothingShownYet, LinesShown, lineVars
<1>3. CASE phase # "off"
  <2>1. signals' = Append(signals, value) /\ present' = value /\ phase' = phase
    BY <1>3 DEF PresentChanges
  <2>2. signals' # <<>> /\ signals'[Len(signals')] = present'
    BY <2>1, AppendLast DEF DispInv, DisplayTypeOK
  <2>3. NothingShownYet'
    BY DEF PresentChanges, DispInv, NothingShownYet, lineVars
  <2> QED BY <1>1, <1>3, <2>1, <2>2, <2>3 DEF DispInv, SignalsTell, OffIsEmpty, KeyTells,
                                              Settled, LinesShown
<1> QED BY <1>2, <1>3

\* The end of a lamp test changes no line.
LEMMA LampTestEndsKeeps == DispInv /\ LampTestEnds => DispInv'
<1> SUFFICES ASSUME DispInv, LampTestEnds PROVE DispInv'
  OBVIOUS
<1>1. panel \in Panels /\ failed \in BOOLEAN
  BY SituationIs DEF DispInv, DisplayTypeOK, Now
<1>2. /\ panel' \in Panels /\ panel'.line1 = panel.line1 /\ panel'.line2 = panel.line2
      /\ panel'.scroll = panel.scroll
  BY <1>1 DEF LampTestEnds, Panels
<1>3. Now' \in Situation
  BY <1>1, <1>2, SituationIs DEF Now, LampTestEnds
<1>4. DisplayTypeOK'
  BY <1>3 DEF LampTestEnds, DispInv, DisplayTypeOK, envVars, lineVars
<1>5. LinesShown'
  BY <1>2 DEF LampTestEnds, DispInv, LinesShown, Settled, Shows, envVars, lineVars
<1> QED BY <1>4, <1>5 DEF LampTestEnds, DispInv, SignalsTell, OffIsEmpty, KeyTells, Settled,
                          NothingShownYet, envVars, lineVars

\* A display of any lines.
LEMMA DisplayKeeps ==
  ASSUME NEW line1 \in Seq(Byte), NEW line2 \in Seq(Byte), DispInv, Display(line1, line2)
  PROVE  DispInv'
<1>1. Now \in Situation /\ Now.failed = failed
  BY DEF DispInv, DisplayTypeOK, Now
<1> QED BY <1>1, SentIsSettled DEF Display

\* The display is cleared and function 01 executed: the second display counts.
LEMMA ClearDisplayKeeps == DispInv /\ ClearDisplay => DispInv'
<1> SUFFICES ASSUME DispInv, ClearDisplay PROVE DispInv'
  OBVIOUS
<1>1. Now \in Situation /\ Now.failed = failed /\ transportKey \in BOOLEAN
  BY DEF DispInv, DisplayTypeOK, Now
<1>2. PICK s \in Displayed(transportKey, {Now}, <<>>, <<>>) :
        \E line1, line2 \in Texts : SendCurrDisplay(transportKey, s, line1, line2)
  BY DEF ClearDisplay
<1>3. s \in Situation /\ (~Reaches(transportKey) => s \in {Now})
  <2>1. {Now} \subseteq Situation /\ <<>> \in Seq(Byte)
    BY <1>1, EmptySeq
  <2> QED BY <2>1, DisplayedShows
<1>4. ~transportKey => s.failed = failed
  BY <1>1, <1>3 DEF Reaches
<1>5. PICK line1 \in Seq(Byte), line2 \in Seq(Byte) :
        SendCurrDisplay(transportKey, s, line1, line2)
  BY <1>2, TextAssumption
<1>6. /\ phase' = "running" /\ phase \in {"keyed", "running"}
      /\ UNCHANGED <<envVars, transportKey>>
  BY DEF ClearDisplay
<1> QED BY <1>3, <1>4, <1>5, <1>6, SentIsSettled

\* A lamp test changes the lamps alone, or fails.
LEMMA DoLampTestKeeps == DispInv /\ DoLampTest => DispInv'
<1> SUFFICES ASSUME DispInv, DoLampTest PROVE DispInv'
  OBVIOUS
<1>1. Now \in Situation /\ panel \in Panels /\ Now.panel = panel /\ Now.failed = failed
  BY SituationIs DEF DispInv, DisplayTypeOK, Now
<1>2. PICK t \in Written(transportKey, {Now}, lampTest) : panel' = t.panel /\ failed' = t.failed
  BY DEF DoLampTest
<1> DEFINE tested == [panel EXCEPT !.lamps = TRUE]
<1>3. /\ tested \in Panels /\ tested.line1 = panel.line1 /\ tested.line2 = panel.line2
      /\ tested.scroll = panel.scroll
  BY <1>1 DEF Panels
<1> HIDE DEF tested
<1>4. t = Now \/ t = [Now EXCEPT !.failed = TRUE] \/ t = [Now EXCEPT !.panel = tested]
  <2>1. Interpreted(Now.panel, lampTest) = {tested}
    BY <1>1, LampTestIsRead DEF tested
  <2>2. CASE t \in {Now}
    BY <2>2
  <2>3. CASE \E s \in {Now} : t \in panelI2CWrite(s, lampTest)
    BY <1>1, <2>1, <2>3, WriteIs
  <2> QED BY <1>2, <2>2, <2>3, WrittenIs
<1>5. t \in Situation /\ (t.failed \/ (t.failed = failed /\ t.panel \in {panel, tested}))
  BY <1>1, <1>3, <1>4, SituationIs
<1>6. DisplayTypeOK'
  <2>1. Now' \in Situation
    BY <1>2, <1>5, NowIs
  <2> QED BY <2>1 DEF DoLampTest, DispInv, DisplayTypeOK, envVars, lineVars
<1>7. LinesShown'
  <2>1. ASSUME Settled', ~resetUnready' PROVE Shows(panel', restoreLine1', restoreLine2')
    <3>1. Settled /\ ~resetUnready /\ panel' \in {panel, tested}
      BY <1>2, <1>5, <2>1 DEF DoLampTest, Settled, envVars
    <3>2. Shows(panel, restoreLine1, restoreLine2)
      BY <3>1 DEF DispInv, LinesShown
    <3> QED BY <1>3, <3>1, <3>2 DEF DoLampTest, Shows, lineVars
  <2> QED BY <2>1 DEF LinesShown
<1>8. KeyTells'
  BY <1>2, <1>5 DEF DoLampTest, DispInv, KeyTells, Settled, envVars
<1> QED BY <1>6, <1>7, <1>8 DEF DoLampTest, DispInv, SignalsTell, OffIsEmpty, NothingShownYet,
                                envVars, lineVars
\* What readPresentProperty and the start of the process say of the panel.
LEMMA ReadPresentPropertyKeeps == DispInv /\ ReadPresentProperty => DispInv'
<1> SUFFICES ASSUME DispInv, ReadPresentProperty PROVE DispInv'
  OBVIOUS
<1> DEFINE value == Head(signals)
<1>1. /\ value \in BOOLEAN /\ signals' \in Seq(BOOLEAN) /\ transportKey' = value
      /\ signals' # <<>> => signals'[Len(signals')] = present
      /\ signals' = <<>> => value = present
  <2>1. signals \in Seq(BOOLEAN) /\ signals # <<>> /\ signals[Len(signals)] = present
    BY DEF ReadPresentProperty, DispInv, DisplayTypeOK, SignalsTell
  <2> QED BY <2>1, TailLast DEF ReadPresentProperty
<1>2. Now \in Situation /\ phase = "running" /\ phase' = "running" /\ present' = present
      /\ bmcReady' = bmcReady
  BY DEF ReadPresentProperty, DispInv, DisplayTypeOK
<1>3. PICK s \in Reset(value, Now) :
        IF value THEN ShowFunction01IfReady(TRUE, s, TRUE)
        ELSE /\ panel' = s.panel /\ failed' = s.failed
             /\ UNCHANGED <<lineVars, resetUnready>>
  BY DEF ReadPresentProperty
<1> HIDE DEF value
<1>4. s \in Situation
  BY <1>1, <1>2, <1>3, ResetShows
<1>5. /\ Now' \in Situation /\ restoreLine1' \in Seq(Byte) /\ restoreLine2' \in Seq(Byte)
      /\ resetUnready' \in BOOLEAN
      /\ value /\ ~resetUnready' /\ present /\ ~failed'
           => Shows(panel', restoreLine1', restoreLine2')
  <2> DEFINE Sent == \E line1, line2 \in Seq(Byte) : SendCurrDisplay(TRUE, s, line1, line2)
             Kept == /\ Now' = s /\ resetUnready' /\ resetUnready' \in BOOLEAN
                     /\ restoreLine1' = restoreLine1 /\ restoreLine2' = restoreLine2
  <2>1. CASE Sent
    <3>1. PICK line1 \in Seq(Byte), line2 \in Seq(Byte) : SendCurrDisplay(TRUE, s, line1, line2)
      BY <2>1
    <3>2. TRUE \in BOOLEAN
      OBVIOUS
    <3> QED BY <1>4, <3>1, <3>2, SendShows DEF Reaches
  <2>2. CASE Kept
    BY <1>4, <2>2 DEF DispInv, DisplayTypeOK
  <2>3. CASE ~value
    <3>1. Now' \in Situation
      BY <1>3, <1>4, <2>3, NowIs
    <3> QED BY <1>3, <2>3, <3>1 DEF DispInv, DisplayTypeOK, lineVars
  <2>4. value => Sent \/ Kept
    <3>1. value => ShowFunction01IfReady(TRUE, s, TRUE)
      BY <1>3
    <3> QED BY <1>4, <3>1, Function01Shows
  <2> QED BY <2>1, <2>2, <2>3, <2>4
<1>6. DisplayTypeOK'
  BY <1>1, <1>2, <1>5 DEF DispInv, DisplayTypeOK
<1>7. SignalsTell' /\ OffIsEmpty' /\ NothingShownYet'
  BY <1>1, <1>2 DEF SignalsTell, OffIsEmpty, NothingShownYet
<1>8. KeyTells' /\ LinesShown'
  BY <1>1, <1>2, <1>5 DEF KeyTells, LinesShown, Settled
<1> QED BY <1>6, <1>7, <1>8 DEF DispInv

\* The key at the start: right, or the read of Present failed and that is remembered.
LEMMA SetTransportKeyKeeps == DispInv /\ SetTransportKeyAtStart => DispInv'
<1> SUFFICES ASSUME DispInv, SetTransportKeyAtStart PROVE DispInv'
  OBVIOUS
<1>1. PICK read \in {present, FALSE} :
        /\ transportKey' = read
        /\ \E s \in Reset(read, [Now EXCEPT !.failed = present /\ ~read]) :
             panel' = s.panel /\ failed' = s.failed
  BY DEF SetTransportKeyAtStart
<1> DEFINE before == [Now EXCEPT !.failed = present /\ ~read]
<1>2. PICK s \in Reset(read, before) : panel' = s.panel /\ failed' = s.failed
  BY <1>1
<1>3. before \in Situation /\ before.failed = (present /\ ~read) /\ read \in BOOLEAN
  BY SituationIs DEF DispInv, DisplayTypeOK, Now
<1> HIDE DEF before
<1>4. /\ s \in Situation
      /\ ~read => s = before
      /\ read /\ Reaches(TRUE) /\ ~s.failed => s.panel = PanelAtReset
  BY <1>2, <1>3, ResetShows
<1>5. Now' \in Situation
  BY <1>2, <1>4, NowIs
<1>6. DisplayTypeOK' /\ SignalsTell' /\ OffIsEmpty' /\ NothingShownYet'
  BY <1>1, <1>3, <1>5 DEF SetTransportKeyAtStart, DispInv, DisplayTypeOK, SignalsTell, OffIsEmpty,
                          NothingShownYet, envVars, lineVars
<1>7. KeyTells'
  BY <1>1, <1>2, <1>3, <1>4 DEF SetTransportKeyAtStart, KeyTells, Settled, envVars
<1>8. LinesShown'
  <2>1. ASSUME Settled' PROVE Shows(panel', restoreLine1', restoreLine2')
    <3>1. transportKey' /\ present /\ ~failed'
      BY <1>7, <2>1 DEF KeyTells, Settled, SetTransportKeyAtStart, envVars
    <3>2. panel' = PanelAtReset
      BY <1>1, <1>2, <1>4, <3>1 DEF Reaches
    <3>3. restoreLine1' = <<>> /\ restoreLine2' = <<>> /\ ~(0 > VisibleLength)
      BY LineAssumption DEF SetTransportKeyAtStart, DispInv, NothingShownYet, lineVars
    <3>4. Len(<<>>) = 0
      BY EmptySeq
    <3> QED BY <3>2, <3>3, <3>4 DEF Shows, PanelAtReset
  <2> QED BY <2>1 DEF LinesShown
<1> QED BY <1>6, <1>7, <1>8 DEF DispInv

\* The first execution of function 01, or none.
LEMMA StartSystemStatusKeeps == DispInv /\ StartSystemStatus => DispInv'
<1> SUFFICES ASSUME DispInv, StartSystemStatus PROVE DispInv'
  OBVIOUS
<1>1. /\ Now \in Situation /\ Now.failed = failed /\ transportKey \in BOOLEAN
      /\ phase = "keyed" /\ phase' = "running" /\ UNCHANGED <<envVars, transportKey>>
      /\ ShowFunction01IfReady(transportKey, Now, FALSE) /\ resetUnready \in BOOLEAN
  BY DEF StartSystemStatus, DispInv, DisplayTypeOK, Now
<1>2. CASE \E line1, line2 \in Seq(Byte) : SendCurrDisplay(transportKey, Now, line1, line2)
  BY <1>1, <1>2, SentIsSettled
<1>3. CASE Now' = Now /\ resetUnready' = resetUnready
           /\ restoreLine1' = restoreLine1 /\ restoreLine2' = restoreLine2
  <2>1. panel' = panel /\ failed' = failed
    BY <1>3 DEF Now
  <2> QED BY <1>1, <1>3, <2>1 DEF DispInv, DisplayTypeOK, SignalsTell, OffIsEmpty, KeyTells,
                                  Settled, NothingShownYet, LinesShown, envVars
<1>4. \/ \E line1, line2 \in Seq(Byte) : SendCurrDisplay(transportKey, Now, line1, line2)
      \/ /\ Now' = Now /\ resetUnready' = (resetUnready \/ FALSE)
         /\ restoreLine1' = restoreLine1 /\ restoreLine2' = restoreLine2
  <2>1. FALSE \in BOOLEAN
    OBVIOUS
  <2> QED BY <1>1, <2>1, Function01Shows
<1> QED BY <1>1, <1>2, <1>3, <1>4

\* From here signals are received.
LEMMA ListenPanelPresenceKeeps == DispInv /\ ListenPanelPresence => DispInv'
BY DEF ListenPanelPresence, DispInv, DisplayTypeOK, Now, SignalsTell, OffIsEmpty, KeyTells,
       Settled, NothingShownYet, LinesShown, envVars, lineVars

\* The state of the BMC changes nothing on the panel.
LEMMA BMCStateKeeps == DispInv /\ BMCStateChanges => DispInv'
BY DEF BMCStateChanges, DispInv, DisplayTypeOK, Now, SignalsTell, OffIsEmpty, KeyTells,
       Settled, NothingShownYet, LinesShown, lineVars

\* The end of the process: what the panel shows is nobody's any more.
LEMMA ExitKeeps == DispInv /\ Exit => DispInv'
<1> SUFFICES ASSUME DispInv, Exit PROVE DispInv'
  OBVIOUS
<1>1. Now' \in Situation
  BY SituationIs DEF Exit, DispInv, DisplayTypeOK, Now
<1>2. <<>> \in Seq(Byte) /\ <<>> \in Seq(BOOLEAN)
  BY EmptySeq
<1> QED BY <1>1, <1>2 DEF Exit, DispInv, DisplayTypeOK, SignalsTell, OffIsEmpty, KeyTells,
                          Settled, NothingShownYet, LinesShown

\* A step of others changes nothing.
LEMMA StutterKeeps == DispInv /\ UNCHANGED vars => DispInv'
BY DEF vars, DispInv, DisplayTypeOK, Now, SignalsTell, OffIsEmpty, KeyTells, Settled,
       NothingShownYet, LinesShown, envVars, lineVars

\* The invariant of the display.
THEOREM DisplaySettles == Spec => []DispInv
<1>1. DispInv /\ [Next]_vars => DispInv'
  <2> SUFFICES ASSUME DispInv, [Next]_vars PROVE DispInv'
    OBVIOUS
  <2>1. CASE \E line1, line2 \in Texts : Display(line1, line2)
    BY <2>1, DisplayKeeps, TextAssumption
  <2>2. CASE RestoreDisplayOnPanel
    BY <2>2, DisplayKeeps DEF RestoreDisplayOnPanel, DispInv, DisplayTypeOK
  <2> QED BY <2>1, <2>2, PresentKeeps, LampTestEndsKeeps, BMCStateKeeps, ClearDisplayKeeps,
             DoLampTestKeeps, ReadPresentPropertyKeeps, ListenPanelPresenceKeeps,
             SetTransportKeyKeeps, StartSystemStatusKeeps, ExitKeeps, StutterKeeps DEF Next
<1> QED BY <1>1, DispInit, PTL DEF Spec

\* The types of the display, and the messages, which are right for all bytes.
THEOREM DisplayInvariance == Spec => []DisplayInv
<1>1. DispInv => DisplayInv
  BY MessagesRight DEF DispInv, DisplayInv
<1> QED BY <1>1, DisplaySettles, PTL

\* A panel that is there shows the last lines it was asked to show, for every set of
\* lines, all lengths of lines and any number of signals that wait.
THEOREM LastLinesAreShown == Spec => []PanelShowsLastLines
<1>1. DispInv => PanelShowsLastLines
  BY DEF DispInv, LinesShown, Settled, Shows, PanelShowsLastLines
<1> QED BY <1>1, DisplaySettles, PTL
==============================================================================
