---------------------------- MODULE MCScanInput ----------------------------
EXTENDS ScanInput

\* Inputs of up to five bytes.
MCMaxInput == 5
AllInputs(bytes) == BoundedSeq(bytes, MCMaxInput)

\* The lines of an input: the runs of bytes between newlines.
LinesFit(in) ==
  \A i, j \in 1..Len(in) :
    (i <= j /\ \A k \in i..j : in[k] # "nl") => j - i + 1 < MaxChars - 1

\* Text of ordinary bytes in lines that fit the buffer.
ShortLines == {in \in AllInputs({"a", "nl"}) : LinesFit(in)}
\* Newline-terminated lines of any length.
AnyLines == {in \in AllInputs({"a", "nl"}) : in # << >> /\ Last(in) = "nl"}
\* Lines that fit, some holding the byte 0xFF.
ShortLinesFF == {in \in AllInputs({"a", "ff", "nl"}) : LinesFit(in)}
=============================================================================
