------------------------------ MODULE Messages ------------------------------
(* The messages the process writes and reads byte by byte: the commands to    *)
(* the panel, which class MessageEncoder encodes, the hex words of a progress *)
(* code and the bit map of functions that PHYP sends.                         *)
EXTENDS Integers, Sequences

CONSTANTS
  LineLength,    \* the characters of a line of the panel's display data, 80
  VisibleLength  \* those the panel shows at a time, 16

ASSUME LineAssumption ==
  /\ LineLength \in Nat \ {0}
  /\ VisibleLength \in 1..LineLength

Byte == 0..255
Blank == 32

-----------------------------------------------------------------------------
\* calculateCheckSum: the bytes are added in 16 bits, the carry out of the low
\* byte is added to it at once, and the sum is negated in 8 bits.
\* Mutant: the carry is dropped.
AddByte_DropsCarry(sum, b) == (sum + b) % 256
AddByte(sum, b) == IF sum + b > 255 THEN ((sum + b) % 256) + 1 ELSE sum + b

Sum(bytes) ==
  LET upTo[i \in 0..Len(bytes)] == IF i = 0 THEN 0 ELSE AddByte(upTo[i - 1], bytes[i])
  IN  upTo[Len(bytes)]

CheckSum(bytes) == (256 - Sum(bytes)) % 256
Encoded(bytes) == Append(bytes, CheckSum(bytes))

\* A line is filled with blanks, or cut, to the length of the panel's line.
FitLine(line) == [i \in 1..LineLength |-> IF i <= Len(line) THEN line[i] ELSE Blank]

rawDisplay(line1, line2) == Encoded(<<255, 128>> \o FitLine(line1) \o FitLine(line2))
buttonControl(buttonID, buttonOperation) ==
  Encoded(<<255, 176, buttonID, 20, buttonOperation>>)
scroll(scrollControl) == Encoded(<<255, 136, scrollControl, 10, 1>>)
lampTest == Encoded(<<255, 84, 240, 50, 50>>)
softReset == Encoded(<<255, 0>>)
jumpToBootLoader == Encoded(<<255, 48>>)
jumpToMainProgram == Encoded(<<255, 37>>)
displayVersionCmd == Encoded(<<255, 80>>)

\* ScrollType.
BOTH_LEFT == 1
LINE1_LEFT == 17
LINE2_LEFT == 33

-----------------------------------------------------------------------------
\* progressCodeCallBack: the hex words of a progress code are 72 bytes, the number
\* of valid words is the fourth of them, and the words start at the
\* ninth. The loop compares the position of a word with four times that number, so it
\* reads one word less.
HexWordsLength == 72
ValidHexWords(bytes) == bytes[4]
HexWordPositions(valid) == {p \in 0..4 * valid : p >= 8 /\ p % 4 = 0}

\* at() throws beyond the array: the process ends.
HexWordsReadable(valid) == \A p \in HexWordPositions(valid) : p + 4 <= HexWordsLength

\* convert is cleared for a word but not for its bytes, and is appended after each:
\* a word becomes 20 digits that end with its eight.
HexWord(bytes, position) ==
  LET b(i) == bytes[position + i]
  IN  <<b(1), b(1), b(2), b(1), b(2), b(3), b(1), b(2), b(3), b(4)>>

\* toggleFunctionState: bit 0 is never looked at. The index of the bit is a byte, so
\* it stays below the size of a bit map of 32 bytes for ever.
Bit(byte, i) == (byte \div 2^i) % 2
FunctionList(bitMap) ==
  {bit \in 1..(8 * Len(bitMap) - 1) : Bit(bitMap[(bit \div 8) + 1], bit % 8) = 1}
BitMapEnds(bitMap) == 8 * Len(bitMap) <= 255

-----------------------------------------------------------------------------
\* The check sum as a formula over the total of the bytes, on short messages with
\* all the bytes where a carry begins or ends.
SampleBytes == {0, 1, 2, 127, 128, 129, 254, 255}
Total(bytes) ==
  LET upTo[i \in 0..Len(bytes)] == IF i = 0 THEN 0 ELSE upTo[i - 1] + bytes[i]
  IN  upTo[Len(bytes)]
CheckSumIsFormula ==
  \A n \in 0..4 : \A bytes \in [1..n -> SampleBytes] :
    LET total == Total(bytes)
    IN  (CheckSum(bytes) + (IF total = 0 THEN 0 ELSE ((total - 1) % 255) + 1)) % 256 = 0

\* The messages the tests of the encoder expect.
EncodedAsTested ==
  /\ CheckSum(<<255, 128, 0, 1, 255>>) = 127 /\ CheckSum(<<255, 128, 0, 255, 255>>) = 128
  /\ buttonControl(2, 1) = <<255, 176, 2, 20, 1, 57>>
  /\ scroll(0) = <<255, 136, 0, 10, 1, 109>> /\ scroll(2) = <<255, 136, 2, 10, 1, 107>>
  /\ scroll(35) = <<255, 136, 35, 10, 1, 74>>
  /\ lampTest = <<255, 84, 240, 50, 50, 87>> /\ softReset = <<255, 0, 1>>
  /\ jumpToBootLoader = <<255, 48, 208>> /\ displayVersionCmd = <<255, 80, 176>>

\* PHYP names functions by the bits of a number in little endian: without bit 0 the
\* list is that number again.
BitMapIsNumber ==
  \A low, high \in SampleBytes :
    LET list == FunctionList(<<low, high>>)
        value[f \in 0..15] == IF f = 0 THEN 0 ELSE value[f - 1] + (IF f \in list THEN 2^f ELSE 0)
    IN  value[15] = (low + 256 * high) - (low % 2)

\* All of these.
MessagesAreRight == CheckSumIsFormula /\ EncodedAsTested /\ BitMapIsNumber

\* The comments of progressCodeCallBack: "read 4*validHexWords bytes to read all the
\* hexwords", "clear any previous data", "read 4 bytes, convert them to HEX".
CommentedPositions(valid) == {8 + 4 * k : k \in 0..(valid - 1)}
CommentedWord(bytes, position) == SubSeq(bytes, position + 1, position + 4)

\* The code does not do what its comments say: the last of the words is not read; every
\* word that is read gets the digits of ten bytes instead of its four; and the array is
\* left exactly when it is said to have more than 17 words.
HexWordsDiffer ==
  \A valid \in Byte :
    /\ HexWordsReadable(valid) <=> valid <= 17
    /\ CommentedPositions(valid) \ HexWordPositions(valid) =
         IF valid = 0 THEN {} ELSE {4 * valid + 4}
    /\ \A p \in HexWordPositions(valid), bytes \in Seq(Byte) :
         p + 4 <= Len(bytes) => HexWord(bytes, p) # CommentedWord(bytes, p)
=============================================================================
