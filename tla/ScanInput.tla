----------------------------- MODULE ScanInput -----------------------------
(***************************************************************************)
(* scan_input_string and FLUSH_INPUT (src/src/client/client_graphic_v2.c), *)
(* the line reader behind every menu prompt, as an operator over the bytes *)
(* left on stdin, checked against the line reader the menus expect.        *)
(*                                                                         *)
(* Bytes are "a" (any ordinary byte), "ff" (byte 0xFF) and "nl".  getchar  *)
(* past the end of the input returns EOF.  The result is stored in a       *)
(* `char`: where char is signed, EOF and 0xFF both become -1; where it is  *)
(* unsigned, EOF becomes 255 and never compares equal to EOF.              *)
(***************************************************************************)
EXTENDS Integers, Sequences, SequencesExt

CONSTANTS
  Inputs,       \* the byte sequences stdin may hold
  MaxChars,     \* max_chars: the size of the buffer
  CharSigned,   \* whether the build's `char` is signed
  MaxCalls      \* calls of the reader in one behaviour

ASSUME MaxChars \in Nat \ {0} /\ CharSigned \in BOOLEAN /\ MaxCalls \in Nat

\* getchar() at position pos, then the conversion to `char aux_char`.
GetChar(in, pos) ==
  LET c == IF pos <= Len(in) THEN in[pos] ELSE "EOF"
  IN  IF CharSigned THEN (IF c \in {"ff", "EOF"} THEN "minus1" ELSE c)
      ELSE (IF c = "EOF" THEN "ff" ELSE c)

\* Mutant: a read at the end of the input moves past it.
AdvancePastEnd(in, pos) == pos + 1

\* Reading at the end of the input does not move past it.
Advance(in, pos) ==
  IF pos <= Len(in) THEN pos + 1 ELSE pos

\* FLUSH_INPUT(ch): drop bytes up to a newline or EOF.
RECURSIVE FlushInput(_, _)
FlushInput(in, pos) ==
  LET c == GetChar(in, pos) IN
  IF c \in {"nl", "minus1"} \/ pos > Len(in) THEN Advance(in, pos)
  ELSE FlushInput(in, pos + 1)

\* Mutant: the newline ending a line is left on the input.
RECURSIVE ScanLoopKeepsNewline(_, _, _, _)
ScanLoopKeepsNewline(in, pos, buf, max) ==
  IF Len(buf) >= max - 1 THEN [ret |-> Len(buf), buf |-> buf, pos |-> pos]
  ELSE LET c == GetChar(in, pos) IN
       CASE c = "nl" -> [ret |-> Len(buf), buf |-> buf, pos |-> pos]
         [] c = "minus1" -> [ret |-> -1, buf |-> buf, pos |-> Advance(in, pos)]
         [] OTHER -> ScanLoopKeepsNewline(in, Advance(in, pos), Append(buf, c), max)

\* The while loop: store bytes until max_chars-1 are stored, a newline is
\* read, or a byte equal to EOF returns -1.
RECURSIVE ScanLoop(_, _, _, _)
ScanLoop(in, pos, buf, max) ==
  IF Len(buf) >= max - 1 THEN [ret |-> Len(buf), buf |-> buf, pos |-> pos]
  ELSE LET c == GetChar(in, pos) IN
       CASE c = "nl" -> [ret |-> Len(buf), buf |-> buf, pos |-> Advance(in, pos)]
         [] c = "minus1" -> [ret |-> -1, buf |-> buf, pos |-> Advance(in, pos)]
         [] OTHER -> ScanLoop(in, Advance(in, pos), Append(buf, c), max)

\* scan_input_string: the loop, then `if (index >= max_chars) FLUSH_INPUT`.
ScanInputString(in, pos, max) ==
  LET r == ScanLoop(in, pos, << >>, max) IN
  IF r.ret >= max THEN [r EXCEPT !.pos = FlushInput(in, r.pos)] ELSE r

\* The reader the menus are written against: the next whole line is
\* consumed and its first max_chars-1 bytes returned; -1 when the input
\* ends before a newline.
ReadLine(in, pos, max) ==
  LET nls == {i \in pos..Len(in) : in[i] = "nl"}
  IN  IF nls = {} THEN [ret |-> -1, pos |-> Len(in) + 1]
      ELSE LET nl == Min(nls)
               line == SubSeq(in, pos, nl - 1)
               kept == SubSeq(line, 1, Min({Len(line), max - 1}))
           IN  [ret |-> Len(kept), buf |-> kept, pos |-> nl + 1]

VARIABLES
  input,   \* the bytes on stdin
  pos,     \* the next byte getchar returns
  got,     \* what each call of scan_input_string returned
  want     \* what each call should have returned

vars == <<input, pos, got, want>>

Init ==
  /\ input \in Inputs
  /\ pos = 1
  /\ got = << >>
  /\ want = << >>

\* A menu calls get_user_input while no earlier call has returned -1.
Call ==
  /\ Len(got) < MaxCalls
  /\ \A i \in 1..Len(got) : got[i].ret # -1
  /\ LET r == ScanInputString(input, pos, MaxChars) IN
     /\ pos' = r.pos
     /\ got' = Append(got, IF r.ret = -1 THEN [ret |-> -1] ELSE [ret |-> r.ret, buf |-> r.buf])
  /\ want' = Append(want,
       LET w == ReadLine(input,
                  IF want = << >> THEN 1 ELSE Last(want).next, MaxChars)
       IN  IF w.ret = -1 THEN [ret |-> -1, next |-> w.pos]
           ELSE [ret |-> w.ret, buf |-> w.buf, next |-> w.pos])
  /\ UNCHANGED input

Done ==
  /\ \/ Len(got) = MaxCalls
     \/ \E i \in 1..Len(got) : got[i].ret = -1
  /\ UNCHANGED vars

Next == Call \/ Done

Spec == Init /\ [][Next]_vars

-----------------------------------------------------------------------------
TypeOK ==
  /\ input \in Inputs
  /\ pos \in 1..Len(input) + 1
  /\ Len(got) = Len(want)
  /\ Len(got) <= MaxCalls

\* Every call returns what the line reader returns for the same input: the
\* next line (cut to max_chars-1 bytes, the rest of it dropped), or -1 at
\* the end of the input, so that one typed line is one menu command.
ReadsTypedLines ==
  \A i \in 1..Len(got) :
    /\ got[i].ret = want[i].ret
    /\ got[i].ret # -1 => got[i].buf = want[i].buf

=============================================================================
