CONSTANTS
  MaxText = 4
  NoText = NoText
  Plains <- MCPlains
  Texts <- MCTexts
  Indices <- MCIndices
  NumberKeys <- MCNumberKeys
  NameKeys <- MCNameKeys
  BooleanKeys <- MCBooleanKeys
  LuaValues <- MCLuaValues
  PythonValues <- MCPythonValues
SPECIFICATION ScriptSpec
INVARIANTS RoundTrip OverrunOnlyCut DumpsExact 
CHECK_DEADLOCK FALSE
