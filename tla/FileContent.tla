---------------------------- MODULE FileContent ----------------------------
(***************************************************************************)
(* What a file holds (src/src/rleCompression.c): the run-length encoding   *)
(* of everything that was written to it, decoded and encoded again by each *)
(* write (writeToFileHandler in src/src/filesystemApi.c).                  *)
(*                                                                         *)
(* A run of a character is coded as the character alone, or as the         *)
(* character twice and a digit.  The decoder looks at the next two bytes,  *)
(* which may be past the end of the code, or of the buffer that holds it.  *)
(***************************************************************************)
EXTENDS Integers, Sequences

CONSTANTS
  Chars,      \* the characters written, as numbers
  RunLengths, \* a write adds a run of one character
  MaxWrites,
  Garbage     \* what is found past the buffer

ASSUME CharsAssumption == Chars \subseteq -128 .. 127 /\ Garbage \in -128 .. 127
ASSUME RunsAssumption == RunLengths \subseteq Nat \ {0} /\ MaxWrites \in Nat

VARIABLES
  content,           \* the code
  uncompressedSize,
  written,           \* everything that was written (history)
  writes             \* how many times (bound)

vars == <<content, uncompressedSize, written, writes>>

Char0 == 48  \* '0'

Run(c, n) == [k \in 1 .. n |-> c]

\* How often data[i] stands there from i on.
Count(data, i) ==
  CHOOSE n \in 1 .. Len(data) + 1 - i :
    /\ \A k \in i .. i + n - 1 : data[k] = data[i]
    /\ i + n <= Len(data) => data[i + n] # data[i]

\* Variants of definitions, each named for what it gets wrong, are used only to
\* confirm that a property can fail.
EncodeOnes(c, n) ==
  LET code[k \in Nat] ==
        IF k > 9 THEN <<c, c, Char0 + 9>> \o code[k - 9]
                 ELSE <<c, c, Char0 + k>>
  IN code[n]

EncodeLastDigit(c, n) ==
  IF n % 9 > 1 THEN <<c, c, Char0 + (n % 9)>> ELSE <<c>>

\* n times c, by nines.
Encode(c, n) ==
  LET code[k \in Nat] ==
        CASE k > 9 -> <<c, c, Char0 + 9>> \o code[k - 9]
          [] k \in 2 .. 9 -> <<c, c, Char0 + k>>
          [] OTHER -> <<c>>
  IN code[n]

RLEcompress(data) ==
  LET from[i \in Nat \ {0}] ==
        IF i > Len(data) THEN <<>>
          ELSE Encode(data[i], Count(data, i)) \o from[i + Count(data, i)]
  IN from[1]

\* The buffer has twice the size of the data, and is 0 after the code.
Byte(code, size, i) ==
  CASE i <= Len(code) -> code[i]
    [] i \in Len(code) + 1 .. 2 * size -> 0
    [] i > 2 * size /\ i > Len(code) -> Garbage

RLEdecompressToEnd(code, size) ==
  LET from[i \in Nat \ {0}] ==
        IF i > Len(code) THEN <<>>
          ELSE IF code[i] = Byte(code, size, i + 1)
            THEN Run(code[i], Byte(code, size, i + 2) - Char0) \o from[i + 3]
            ELSE <<code[i]>> \o from[i + 1]
  IN from[1]

\* What is left of the code from i, when n characters are done: at <<i, n>>. A digit
\* is a size_t, so what is below '0' is a huge number, but a run stops at the size.
RLEdecompress(code, size) ==
  LET from[at \in (Nat \ {0}) \X Nat] ==
        LET i == at[1]
            n == at[2]
            twice == code[i] = Byte(code, size, i + 1)
            digit == Byte(code, size, i + 2) - Char0
            room == IF size - n > 1 THEN size - n ELSE 1
            occ == IF ~ twice \/ digit \in {0, 1} THEN 1
                     ELSE IF digit \in 2 .. room THEN digit ELSE room
        IN IF i > Len(code) THEN <<>>
             ELSE Run(code[i], occ) \o from[<<i + (IF twice THEN 3 ELSE 1), n + occ>>]
  IN from[<<1, 0>>]

Init ==
  /\ content = <<>>
  /\ uncompressedSize = 0
  /\ written = <<>>
  /\ writes = 0

Write(c, n) ==
  LET decompressed == RLEdecompress(content, uncompressedSize) \o Run(c, n) IN
    /\ writes < MaxWrites
    /\ content' = RLEcompress(decompressed)
    /\ uncompressedSize' = uncompressedSize + n
    /\ written' = written \o Run(c, n)
    /\ writes' = writes + 1

Next == \E c \in Chars, n \in RunLengths : Write(c, n)

Spec == Init /\ [][Next]_vars

-----------------------------------------------------------------------------
\* A reader gets exactly what was written, however often it was coded anew: digits,
\* 0 bytes and long runs included, and whatever is found past the buffer.
ReadsBack ==
  /\ RLEdecompress(content, uncompressedSize) = written
  /\ uncompressedSize = Len(written)

\* The code fits the buffer of RLEcompress, which is twice the size of the data.
FitsBuffer == Len(content) <= 2 * uncompressedSize

\* A file never shrinks in the storage when more is written to it: CacheStorage
\* lets a write give any size from the present one on.
NeverShrinks == [][Len(content') >= Len(content)]_vars
=============================================================================
