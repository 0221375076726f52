SPECIFICATION Spec
CONSTANTS
  Blank = Blank
  Default = Default
  EnvTexts = {x}
  FormTexts = {y}
  KeyTexts = {y}
  Torn = Torn
  NoClient = NoClient
  Savers = {w1}
INVARIANTS TypeOK SurvivesRestart
PROPERTY KeyKept
