CONSTANTS
  MaxChars = 4
  MaxCalls = 3
  CharSigned = TRUE
  Inputs <- ShortLinesFF
SPECIFICATION Spec
INVARIANT ReadsTypedLines
