CONSTANTS
  MaxChars = 4
  MaxCalls = 3
  CharSigned = FALSE
  Inputs <- ShortLines
SPECIFICATION Spec
INVARIANT ReadsTypedLines
