CONSTANTS
  MaxChars = 4
  MaxCalls = 3
  CharSigned = TRUE
  Inputs <- ShortLines
SPECIFICATION Spec
INVARIANT TypeOK
INVARIANT ReadsTypedLines
