SPECIFICATION Spec
CONSTANTS
  Blank = Blank
  Default = Default
  EnvTexts = {}
  FormTexts = {x}
  KeyTexts = {x}
  Torn = Torn
  NoClient = NoClient
  Savers = {w1}
INVARIANT StaysConnected
