SPECIFICATION Spec
CONSTANTS
  NULL = NULL
  Fonts <- MCFonts
  Texts <- MCTexts
INVARIANTS
  LookupIsFont
  DrawsText
PROPERTY
  PrintReturns
