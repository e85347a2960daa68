CONSTANTS
  MaxChars = 4
  MaxCalls = 3
  CharSigned = TRUE
  Inputs <- AnyLines
SPECIFICATION Spec
INVARIANT ReadsTypedLines
