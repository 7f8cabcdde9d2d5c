CONSTANTS
  Lines <- SomeLines
  MaxLines = 3
  LayoutSym <- Layouts
  Chords <- PressedChords
  MaxRules = 2
SPECIFICATION Spec
INVARIANTS
  KeysDoWhatTheFileSays
  FirstRulesCount
