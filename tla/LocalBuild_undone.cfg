SPECIFICATION Spec
CONSTANTS
  a = a
  b = b
  c = c
  Target = {a, b, c}
  Builds <- Undoing
  MaxEdits = 0
  MaxCleans = 0
  MaxKills = 0
PROPERTY UndoneWorkIsRebuilt
