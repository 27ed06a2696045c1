SPECIFICATION Spec
CONSTANTS
  LineLength = 4
  VisibleLength = 2
  Texts <- MCTexts
  MaxSignals = 2
INVARIANTS
  
  PanelShowsLastLines
