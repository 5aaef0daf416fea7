CONSTANTS
  Strings <- AllStrings
  Inputs <- AllInputs
  Absolute <- AbsoluteTexts
  Numbers <- NumberTexts
  CFiles <- CNames
SPECIFICATION Spec
INVARIANT TypeOK
INVARIANT ConfigIsMeaning
INVARIANT ToolsAgree
INVARIANT CommandsCohere
