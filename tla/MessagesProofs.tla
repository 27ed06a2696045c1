--------------------------- MODULE MessagesProofs ---------------------------
(* The check sums of messages of every length, the functions of every bit map *)
(* of two bytes, and what the panel needs to read a command. Sum, Total and   *)
(* the value of a list are recursive functions: RecursionExists shows that    *)
(* they have values, from which their definitions follow.                     *)
EXTENDS Messages, SequenceTheorems, WellFoundedInduction, TLAPS

\* A set with 0 and with the successor of each of its numbers has all numbers.
LEMMA NatSetInduction ==
  ASSUME NEW S, 0 \in S, \A n \in Nat : n \in S => n + 1 \in S
  PROVE  Nat \subseteq S
<1> DEFINE R == OpToRel(<, Nat)
          T == Nat \ S
<1>1. IsWellFoundedOn(R, Nat)
  BY NatLessThanWellFounded
<1> SUFFICES ASSUME T # {} PROVE FALSE
  OBVIOUS
<1>2. PICK x \in T : \A y \in T : <<y, x>> \notin R
  <2> HIDE DEF R
  <2>1. T \subseteq Nat
    OBVIOUS
  <2> HIDE DEF T
  <2> QED BY <1>1, <2>1, WFMin, Zenon
<1>3. x \in Nat /\ x - 1 \in T
  <2> HIDE DEF R
  <2>1. x \in Nat /\ x \notin S
    OBVIOUS
  <2>2. x # 0
    BY <2>1
  <2>3. x - 1 \in Nat /\ (x - 1) + 1 = x
    BY <2>1, <2>2
  <2> QED BY <2>1, <2>2, <2>3
<1>4. <<x - 1, x>> \in R
  BY <1>3 DEF OpToRel
<1> HIDE DEF R, T
<1> QED BY <1>2, <1>3, <1>4

\* f is the recursion over 0 .. n that starts with a and goes on by the steps.
Follows(f, n, a, step) == f[0] = a /\ \A i \in 1..n : f[i] = step[i][f[i - 1]]

\* A recursion over 0 .. n that starts with a and makes steps in S has a solution.
LEMMA RecursionExists ==
  ASSUME NEW S, NEW a \in S, NEW n \in Nat, NEW step \in [1..n -> [S -> S]]
  PROVE  \E f \in [0..n -> S] : Follows(f, n, a, step)
<1> DEFINE Solves(f, m) == f[0] = a /\ \A i \in 1..m : i <= n => f[i] = step[i][f[i - 1]]
           Solved == {m \in Nat : \E f \in [0..m -> S] : Solves(f, m)}
<1>1. 0 \in Solved
  <2>1. [i \in 0..0 |-> a] \in [0..0 -> S] /\ Solves([i \in 0..0 |-> a], 0)
    OBVIOUS
  <2> QED BY <2>1
<1>2. ASSUME NEW m \in Nat, m \in Solved PROVE m + 1 \in Solved
  <2>1. PICK f \in [0..m -> S] : Solves(f, m)
    BY <1>2
  <2> DEFINE last == IF m + 1 <= n THEN step[m + 1][f[m]] ELSE a
             g == [i \in 0..(m + 1) |-> IF i = m + 1 THEN last ELSE f[i]]
  <2>2. last \in S
    <3>1. f[m] \in S
      OBVIOUS
    <3>2. m + 1 <= n => step[m + 1] \in [S -> S]
      OBVIOUS
    <3> QED BY <3>1, <3>2
  <2>3. g \in [0..(m + 1) -> S]
    BY <2>2
  <2>4. g[0] = a
    BY <2>1
  <2>5. ASSUME NEW i \in 1..(m + 1), i <= n PROVE g[i] = step[i][g[i - 1]]
    <3>1. CASE i = m + 1
      <4>1. g[i] = step[m + 1][f[m]] /\ i - 1 = m /\ g[i - 1] = f[m]
        BY <3>1, <2>5
      <4> QED BY <4>1, <3>1
    <3>2. CASE i # m + 1
      <4>1. i \in 1..m /\ i - 1 \in 0..m /\ i - 1 # m + 1
        BY <3>2
      <4>2. g[i] = f[i] /\ g[i - 1] = f[i - 1]
        BY <4>1, <3>2
      <4> QED BY <2>1, <2>5, <4>1, <4>2
    <3> QED BY <3>1, <3>2
  <2> HIDE DEF g
  <2> QED BY <2>3, <2>4, <2>5
<1>3. n \in Solved
  <2> HIDE DEF Solved
  <2>1. Nat \subseteq Solved
    BY <1>1, <1>2, NatSetInduction
  <2> QED BY <2>1
<1> QED BY <1>3 DEF Follows

-----------------------------------------------------------------------------
\* A carry takes 255 away: the sum of two bytes stays a byte.
LEMMA AddByteIsByte ==
  ASSUME NEW x \in 0..255, NEW y \in 0..255
  PROVE  /\ AddByte(x, y) = IF x + y > 255 THEN x + y - 255 ELSE x + y
         /\ AddByte(x, y) \in 0..255
<1>1. x + y > 255 => (x + y) % 256 = x + y - 256
  OBVIOUS
<1> QED BY <1>1 DEF AddByte

\* The check sum of every message has its running values.
LEMMA RunExists ==
  ASSUME NEW n \in Nat, NEW bs \in [1..n -> 0..255]
  PROVE  \E f \in [0..n -> 0..255] :
           f[0] = 0 /\ \A i \in 1..n : f[i] = AddByte(f[i - 1], bs[i])
<1> DEFINE B == 0..255
           step == [i \in 1..n |-> [x \in B |-> AddByte(x, bs[i])]]
<1>1. ASSUME NEW x \in B, NEW y \in B PROVE AddByte(x, y) \in B
  BY AddByteIsByte
<1>2. 0 \in B /\ bs \in [1..n -> B]
  OBVIOUS
<1> HIDE DEF B
<1>3. step \in [1..n -> [B -> B]]
  BY <1>1, <1>2
<1>4. PICK f \in [0..n -> B] : Follows(f, n, 0, step)
  <2> HIDE DEF step
  <2> QED BY <1>2, <1>3, RecursionExists, Zenon
<1>5. ASSUME NEW i \in 1..n PROVE f[i] = AddByte(f[i - 1], bs[i])
  <2>1. f[i - 1] \in B
    OBVIOUS
  <2> QED BY <1>4, <2>1 DEF Follows
<1> QED BY <1>4, <1>5 DEF B, Follows

\* The running check sum and the running total of a message.
IsRunningSum(f, bytes) ==
  f = [i \in 0..Len(bytes) |-> IF i = 0 THEN 0 ELSE AddByte(f[i - 1], bytes[i])]
IsRunningTotal(f, bytes) ==
  f = [i \in 0..Len(bytes) |-> IF i = 0 THEN 0 ELSE f[i - 1] + bytes[i]]

\* A message is a function from its positions to bytes.
LEMMA BytesOfSeq ==
  ASSUME NEW bytes \in Seq(Byte)
  PROVE  Len(bytes) \in Nat /\ bytes \in [1..Len(bytes) -> 0..255]
BY LenProperties DEF Byte

\* calculateCheckSum's sum is the last of its running values.
LEMMA SumIsLast ==
  ASSUME NEW bytes \in Seq(Byte)
  PROVE  \E f : IsRunningSum(f, bytes) /\ Sum(bytes) = f[Len(bytes)]
<1>1. PICK f \in [0..Len(bytes) -> 0..255] :
        f[0] = 0 /\ \A i \in 1..Len(bytes) : f[i] = AddByte(f[i - 1], bytes[i])
  BY BytesOfSeq, RunExists
<1>2. IsRunningSum(f, bytes)
  BY <1>1, BytesOfSeq DEF IsRunningSum
<1>3. IsRunningSum(CHOOSE h : IsRunningSum(h, bytes), bytes)
  BY <1>2, Zenon
<1>4. Sum(bytes) = (CHOOSE h : IsRunningSum(h, bytes))[Len(bytes)]
  BY Zenon DEF Sum, IsRunningSum
<1> QED BY <1>3, <1>4, Zenon

\* The type of a running total.
LEMMA NatPlusByte ==
  ASSUME NEW x \in Nat, NEW y \in 0..255
  PROVE  x + y \in Nat
OBVIOUS

\* The total of a message is the last of its running values.
LEMMA TotalIsLast ==
  ASSUME NEW bytes \in Seq(Byte)
  PROVE  \E f : IsRunningTotal(f, bytes) /\ Total(bytes) = f[Len(bytes)]
<1> DEFINE step == [i \in 1..Len(bytes) |-> [x \in Nat |-> x + bytes[i]]]
<1>1. step \in [1..Len(bytes) -> [Nat -> Nat]]
  <2>1. ASSUME NEW i \in 1..Len(bytes), NEW x \in Nat PROVE x + bytes[i] \in Nat
    <3>1. bytes[i] \in 0..255
      BY BytesOfSeq
    <3> QED BY <3>1, NatPlusByte
  <2> QED BY <2>1
<1>2. PICK f \in [0..Len(bytes) -> Nat] : Follows(f, Len(bytes), 0, step)
  <2> HIDE DEF step
  <2> QED BY <1>1, BytesOfSeq, RecursionExists
<1>3. ASSUME NEW i \in 1..Len(bytes) PROVE f[i] = f[i - 1] + bytes[i]
  <2>1. f[i - 1] \in Nat
    BY BytesOfSeq
  <2> QED BY <1>2, <2>1 DEF Follows
<1>4. IsRunningTotal(f, bytes)
  BY <1>2, <1>3, BytesOfSeq DEF IsRunningTotal, Follows
<1>5. IsRunningTotal(CHOOSE h : IsRunningTotal(h, bytes), bytes)
  BY <1>4, Zenon
<1>6. Total(bytes) = (CHOOSE h : IsRunningTotal(h, bytes))[Len(bytes)]
  BY Zenon DEF Total, IsRunningTotal
<1> QED BY <1>5, <1>6, Zenon

\* What is left of a total when 255 is taken away as often as something remains.
Remainder(total) == IF total = 0 THEN 0 ELSE ((total - 1) % 255) + 1

\* Adding a byte with its carry keeps what is left of the total.
LEMMA RemainderOfSum ==
  ASSUME NEW total \in Nat, NEW b \in 0..255
  PROVE  /\ Remainder(total) \in 0..255
         /\ Remainder(total + b) = AddByte(Remainder(total), b)
<1>1. Remainder(total) \in 0..255
  BY DEF Remainder
<1>2. AddByte(Remainder(total), b) =
        IF Remainder(total) + b > 255 THEN Remainder(total) + b - 255 ELSE Remainder(total) + b
  BY <1>1, AddByteIsByte
<1>3. CASE total = 0
  BY <1>2, <1>3 DEF Remainder
<1>4. CASE total # 0
  <2>1. ((total + b - 1) % 255) + 1 =
          IF ((total - 1) % 255) + 1 + b > 255 THEN ((total - 1) % 255) + 1 + b - 255
          ELSE ((total - 1) % 255) + 1 + b
    BY <1>4
  <2>2. total + b # 0
    BY <1>4
  <2> QED BY <1>1, <1>2, <1>4, <2>1, <2>2 DEF Remainder
<1> QED BY <1>1, <1>3, <1>4

\* The sum of a message of any length.
LEMMA SumIsRemainder ==
  ASSUME NEW bytes \in Seq(Byte)
  PROVE  Total(bytes) \in Nat /\ Sum(bytes) = Remainder(Total(bytes))
<1> DEFINE n == Len(bytes)
<1>1. PICK f : IsRunningSum(f, bytes) /\ Sum(bytes) = f[n]
  BY SumIsLast
<1>2. PICK g : IsRunningTotal(g, bytes) /\ Total(bytes) = g[n]
  BY TotalIsLast
<1> DEFINE Right == {i \in Nat : i <= n => g[i] \in Nat /\ f[i] = Remainder(g[i])}
<1>3. 0 \in Right
  BY <1>1, <1>2, BytesOfSeq DEF IsRunningSum, IsRunningTotal, Remainder
<1>4. ASSUME NEW i \in Nat, i \in Right PROVE i + 1 \in Right
  <2> SUFFICES ASSUME i + 1 <= n PROVE g[i + 1] \in Nat /\ f[i + 1] = Remainder(g[i + 1])
    OBVIOUS
  <2>1. i + 1 \in 1..n /\ (i + 1) - 1 = i /\ i + 1 # 0 /\ i + 1 \in 0..n
    BY BytesOfSeq
  <2>2. bytes[i + 1] \in 0..255
    BY <2>1, BytesOfSeq
  <2>3. g[i] \in Nat /\ f[i] = Remainder(g[i])
    BY <1>4, <2>1
  <2>4. g[i + 1] = g[i] + bytes[i + 1] /\ f[i + 1] = AddByte(f[i], bytes[i + 1])
    BY <1>1, <1>2, <2>1 DEF IsRunningSum, IsRunningTotal
  <2>5. f[i + 1] = Remainder(g[i] + bytes[i + 1])
    BY <2>2, <2>3, <2>4, RemainderOfSum
  <2>6. g[i + 1] \in Nat
    <3>1. g[i] + bytes[i + 1] \in Nat
      BY <2>3, <2>2, NatPlusByte
    <3> QED BY <2>4, <3>1, Zenon
  <2>7. f[i + 1] = Remainder(g[i + 1])
    BY <2>4, <2>5, Zenon
  <2> QED BY <2>6, <2>7
<1>5. n \in Right
  <2> HIDE DEF Right
  <2>1. Nat \subseteq Right
    BY <1>3, <1>4, NatSetInduction
  <2> QED BY <2>1, BytesOfSeq
<1> QED BY <1>1, <1>2, <1>5, BytesOfSeq

\* With its check sum, the bytes of every message add up to nothing.
THEOREM CheckSumRight ==
  \A bytes \in Seq(Byte) :
    /\ CheckSum(bytes) \in Byte
    /\ (CheckSum(bytes) + Remainder(Total(bytes))) % 256 = 0
<1> SUFFICES ASSUME NEW bytes \in Seq(Byte)
             PROVE  /\ CheckSum(bytes) \in Byte
                    /\ (CheckSum(bytes) + Remainder(Total(bytes))) % 256 = 0
  OBVIOUS
<1>1. Sum(bytes) = Remainder(Total(bytes)) /\ Remainder(Total(bytes)) \in 0..255
  <2>1. 0 \in 0..255
    OBVIOUS
  <2> QED BY <2>1, SumIsRemainder, RemainderOfSum
<1> DEFINE r == Remainder(Total(bytes))
<1>2. r \in 0..255 /\ CheckSum(bytes) = (256 - r) % 256
  BY <1>1 DEF CheckSum
<1> HIDE DEF r
<1>3. CheckSum(bytes) \in Byte /\ (CheckSum(bytes) + r) % 256 = 0
  <2>1. CASE r = 0
    BY <1>2, <2>1 DEF Byte
  <2>2. CASE r # 0
    <3>1. CheckSum(bytes) = 256 - r
      BY <1>2, <2>2
    <3> QED BY <1>2, <2>2, <3>1 DEF Byte
  <2> QED BY <2>1, <2>2
<1> QED BY <1>3 DEF r

\* The part of MessagesAreRight about check sums.
LEMMA CheckSumFormulaRight == CheckSumIsFormula
<1> SUFFICES ASSUME NEW n \in 0..4, NEW bytes \in [1..n -> SampleBytes]
             PROVE  (CheckSum(bytes) + Remainder(Total(bytes))) % 256 = 0
  BY DEF CheckSumIsFormula, Remainder
<1>1. bytes \in Seq(Byte)
  BY SeqDef DEF SampleBytes, Byte
<1> QED BY <1>1, CheckSumRight

\* The check sum of a message whose total is known.
LEMMA CheckSumByTotal ==
  ASSUME NEW bytes \in Seq(Byte), NEW total \in Nat, Total(bytes) = total
  PROVE  CheckSum(bytes) = (256 - Remainder(total)) % 256
BY SumIsRemainder DEF CheckSum

-----------------------------------------------------------------------------
\* The total of a message of two bytes.
LEMMA TotalOfTwo ==
  ASSUME NEW a \in Byte, NEW b \in Byte
  PROVE  <<a, b>> \in Seq(Byte) /\ Total(<<a, b>>) = a + b
<1> DEFINE bytes == <<a, b>>
<1>1. bytes \in Seq(Byte) /\ Len(bytes) = 2 /\ bytes[1] = a /\ bytes[2] = b
  OBVIOUS
<1> HIDE DEF bytes
<1>2. PICK f : IsRunningTotal(f, bytes) /\ Total(bytes) = f[2]
  BY <1>1, TotalIsLast
<1>3. f[0] = 0 /\ f[1] = f[0] + a /\ f[2] = f[1] + b
  BY <1>1, <1>2 DEF IsRunningTotal
<1>4. f[2] = a + b
  BY <1>3 DEF Byte
<1> QED BY <1>1, <1>2, <1>4 DEF bytes

\* The total of a message of five bytes.
LEMMA TotalOfFive ==
  ASSUME NEW a \in Byte, NEW b \in Byte, NEW c \in Byte, NEW d \in Byte, NEW e \in Byte
  PROVE  <<a, b, c, d, e>> \in Seq(Byte) /\ Total(<<a, b, c, d, e>>) = a + b + c + d + e
<1> DEFINE bytes == <<a, b, c, d, e>>
<1>1. /\ bytes \in Seq(Byte) /\ Len(bytes) = 5
      /\ bytes[1] = a /\ bytes[2] = b /\ bytes[3] = c /\ bytes[4] = d /\ bytes[5] = e
  OBVIOUS
<1> HIDE DEF bytes
<1>2. PICK f : IsRunningTotal(f, bytes) /\ Total(bytes) = f[5]
  BY <1>1, TotalIsLast
<1>3. /\ f[0] = 0 /\ f[1] = f[0] + a /\ f[2] = f[1] + b /\ f[3] = f[2] + c
      /\ f[4] = f[3] + d /\ f[5] = f[4] + e
  BY <1>1, <1>2 DEF IsRunningTotal
<1>4. f[5] = a + b + c + d + e
  BY <1>3 DEF Byte
<1> QED BY <1>1, <1>2, <1>4 DEF bytes

\* What it takes to be a message with one more byte.
LEMMA AppendIs ==
  ASSUME NEW s \in Seq(Byte), NEW x \in Byte, NEW t \in Seq(Byte),
         Len(t) = Len(s) + 1, \A i \in 1..Len(s) : t[i] = s[i], t[Len(s) + 1] = x
  PROVE  Append(s, x) = t
<1>1. /\ Append(s, x) \in Seq(Byte) /\ Len(Append(s, x)) = Len(s) + 1
      /\ \A i \in 1..Len(s) : Append(s, x)[i] = s[i]
      /\ Append(s, x)[Len(s) + 1] = x
  BY AppendProperties, LenProperties
<1>2. ASSUME NEW i \in 1..Len(t) PROVE Append(s, x)[i] = t[i]
  <2>1. Len(s) \in Nat
    BY LenProperties
  <2>2. i \in 1..Len(s) \/ i = Len(s) + 1
    BY <2>1
  <2> QED BY <1>1, <2>2
<1> QED BY <1>1, <1>2, SeqEqual

\* The check sum of a message of two bytes is its third byte.
LEMMA AppendToTwo ==
  ASSUME NEW a \in Byte, NEW b \in Byte, NEW x \in Byte
  PROVE  Append(<<a, b>>, x) = <<a, b, x>>
<1> DEFINE s == <<a, b>>
           t == <<a, b, x>>
<1>1. s \in Seq(Byte) /\ Len(s) = 2 /\ s[1] = a /\ s[2] = b
  OBVIOUS
<1>2. t \in Seq(Byte) /\ Len(t) = 3 /\ t[1] = a /\ t[2] = b /\ t[3] = x
  OBVIOUS
<1> HIDE DEF s, t
<1>3. Len(t) = Len(s) + 1 /\ (\A i \in 1..Len(s) : t[i] = s[i]) /\ t[Len(s) + 1] = x
  BY <1>1, <1>2
<1>4. Append(s, x) = t
  BY <1>1, <1>2, <1>3, AppendIs, Zenon
<1> QED BY <1>4 DEF s, t

\* The check sum of a message of five bytes is its sixth byte.
LEMMA AppendToFive ==
  ASSUME NEW a \in Byte, NEW b \in Byte, NEW c \in Byte, NEW d \in Byte, NEW e \in Byte,
         NEW x \in Byte
  PROVE  Append(<<a, b, c, d, e>>, x) = <<a, b, c, d, e, x>>
<1> DEFINE s == <<a, b, c, d, e>>
           t == <<a, b, c, d, e, x>>
<1>1. /\ s \in Seq(Byte) /\ Len(s) = 5
      /\ s[1] = a /\ s[2] = b /\ s[3] = c /\ s[4] = d /\ s[5] = e
  OBVIOUS
<1>2. /\ t \in Seq(Byte) /\ Len(t) = 6
      /\ t[1] = a /\ t[2] = b /\ t[3] = c /\ t[4] = d /\ t[5] = e /\ t[6] = x
  OBVIOUS
<1> HIDE DEF s, t
<1>3. Len(t) = Len(s) + 1 /\ (\A i \in 1..Len(s) : t[i] = s[i]) /\ t[Len(s) + 1] = x
  BY <1>1, <1>2
<1>4. Append(s, x) = t
  BY <1>1, <1>2, <1>3, AppendIs, Zenon
<1> QED BY <1>4 DEF s, t

\* A command of two or five bytes is followed by the check sum of their total.
LEMMA EncodedTwo ==
  ASSUME NEW a \in Byte, NEW b \in Byte, NEW x \in Byte,
         x = (256 - Remainder(a + b)) % 256
  PROVE  CheckSum(<<a, b>>) = x /\ Encoded(<<a, b>>) = <<a, b, x>>
<1>1. a + b \in Nat
  BY DEF Byte
<1>2. <<a, b>> \in Seq(Byte) /\ Total(<<a, b>>) = a + b
  BY TotalOfTwo
<1>3. CheckSum(<<a, b>>) = x
  BY <1>1, <1>2, CheckSumByTotal
<1>4. Append(<<a, b>>, x) = <<a, b, x>>
  BY AppendToTwo
<1> QED BY <1>3, <1>4 DEF Encoded

\* A command of five bytes is followed by the check sum of their total.
LEMMA EncodedFive ==
  ASSUME NEW a \in Byte, NEW b \in Byte, NEW c \in Byte, NEW d \in Byte, NEW e \in Byte,
         NEW x \in Byte, x = (256 - Remainder(a + b + c + d + e)) % 256
  PROVE  /\ CheckSum(<<a, b, c, d, e>>) = x
         /\ Encoded(<<a, b, c, d, e>>) = <<a, b, c, d, e, x>>
<1>1. a + b + c + d + e \in Nat
  BY DEF Byte
<1>2. /\ <<a, b, c, d, e>> \in Seq(Byte)
      /\ Total(<<a, b, c, d, e>>) = a + b + c + d + e
  BY TotalOfFive
<1>3. CheckSum(<<a, b, c, d, e>>) = x
  BY <1>1, <1>2, CheckSumByTotal
<1>4. Append(<<a, b, c, d, e>>, x) = <<a, b, c, d, e, x>>
  BY AppendToFive
<1> QED BY <1>3, <1>4 DEF Encoded

\* The part of MessagesAreRight about the messages that the encoder's tests expect.
LEMMA EncodedRight == EncodedAsTested
<1>1. CheckSum(<<255, 128, 0, 1, 255>>) = 127
  <2>1. 0 \in Byte /\ 1 \in Byte /\ 127 \in Byte /\ 128 \in Byte /\ 255 \in Byte
    BY DEF Byte
  <2>2. 127 = (256 - Remainder(255 + 128 + 0 + 1 + 255)) % 256
    BY DEF Remainder
  <2> QED BY <2>1, <2>2, EncodedFive
<1>2. CheckSum(<<255, 128, 0, 255, 255>>) = 128
  <2>1. 0 \in Byte /\ 128 \in Byte /\ 255 \in Byte
    BY DEF Byte
  <2>2. 128 = (256 - Remainder(255 + 128 + 0 + 255 + 255)) % 256
    BY DEF Remainder
  <2> QED BY <2>1, <2>2, EncodedFive
<1>3. buttonControl(2, 1) = <<255, 176, 2, 20, 1, 57>>
  <2>1. 1 \in Byte /\ 2 \in Byte /\ 20 \in Byte /\ 57 \in Byte /\ 176 \in Byte /\ 255 \in Byte
    BY DEF Byte
  <2>2. 57 = (256 - Remainder(255 + 176 + 2 + 20 + 1)) % 256
    BY DEF Remainder
  <2> QED BY <2>1, <2>2, EncodedFive DEF buttonControl
<1>4. scroll(0) = <<255, 136, 0, 10, 1, 109>>
  <2>1. 0 \in Byte /\ 1 \in Byte /\ 10 \in Byte /\ 109 \in Byte /\ 136 \in Byte /\ 255 \in Byte
    BY DEF Byte
  <2>2. 109 = (256 - Remainder(255 + 136 + 0 + 10 + 1)) % 256
    BY DEF Remainder
  <2> QED BY <2>1, <2>2, EncodedFive DEF scroll
<1>5. scroll(2) = <<255, 136, 2, 10, 1, 107>>
  <2>1. 1 \in Byte /\ 2 \in Byte /\ 10 \in Byte /\ 107 \in Byte /\ 136 \in Byte /\ 255 \in Byte
    BY DEF Byte
  <2>2. 107 = (256 - Remainder(255 + 136 + 2 + 10 + 1)) % 256
    BY DEF Remainder
  <2> QED BY <2>1, <2>2, EncodedFive DEF scroll
<1>6. scroll(35) = <<255, 136, 35, 10, 1, 74>>
  <2>1. 1 \in Byte /\ 10 \in Byte /\ 35 \in Byte /\ 74 \in Byte /\ 136 \in Byte /\ 255 \in Byte
    BY DEF Byte
  <2>2. 74 = (256 - Remainder(255 + 136 + 35 + 10 + 1)) % 256
    BY DEF Remainder
  <2> QED BY <2>1, <2>2, EncodedFive DEF scroll
<1>7. lampTest = <<255, 84, 240, 50, 50, 87>>
  <2>1. 50 \in Byte /\ 84 \in Byte /\ 87 \in Byte /\ 240 \in Byte /\ 255 \in Byte
    BY DEF Byte
  <2>2. 87 = (256 - Remainder(255 + 84 + 240 + 50 + 50)) % 256
    BY DEF Remainder
  <2> QED BY <2>1, <2>2, EncodedFive DEF lampTest
<1>8. softReset = <<255, 0, 1>>
  <2>1. 0 \in Byte /\ 1 \in Byte /\ 255 \in Byte
    BY DEF Byte
  <2>2. 1 = (256 - Remainder(255 + 0)) % 256
    BY DEF Remainder
  <2> QED BY <2>1, <2>2, EncodedTwo DEF softReset
<1>9. jumpToBootLoader = <<255, 48, 208>>
  <2>1. 48 \in Byte /\ 208 \in Byte /\ 255 \in Byte
    BY DEF Byte
  <2>2. 208 = (256 - Remainder(255 + 48)) % 256
    BY DEF Remainder
  <2> QED BY <2>1, <2>2, EncodedTwo DEF jumpToBootLoader
<1>10. displayVersionCmd = <<255, 80, 176>>
  <2>1. 80 \in Byte /\ 176 \in Byte /\ 255 \in Byte
    BY DEF Byte
  <2>2. 176 = (256 - Remainder(255 + 80)) % 256
    BY DEF Remainder
  <2> QED BY <2>1, <2>2, EncodedTwo DEF displayVersionCmd
<1> QED BY <1>1, <1>2, <1>3, <1>4, <1>5, <1>6, <1>7, <1>8, <1>9, <1>10 DEF EncodedAsTested

-----------------------------------------------------------------------------
\* What a listener gets of the hex words of a progress code is, for every number of
\* words and all their bytes, not what the comments of progressCodeCallBack say.
THEOREM HexWordsAreNotAsCommented == HexWordsDiffer
<1> SUFFICES ASSUME NEW valid \in Byte
             PROVE  /\ HexWordsReadable(valid) <=> valid <= 17
                    /\ CommentedPositions(valid) \ HexWordPositions(valid) =
                         IF valid = 0 THEN {} ELSE {4 * valid + 4}
                    /\ \A p \in HexWordPositions(valid), bytes \in Seq(Byte) :
                         p + 4 <= Len(bytes) => HexWord(bytes, p) # CommentedWord(bytes, p)
  BY DEF HexWordsDiffer
<1>1. HexWordsReadable(valid) <=> valid <= 17
  <2>1. valid > 17 => 72 \in HexWordPositions(valid)
    BY DEF HexWordPositions, Byte
  <2>2. ASSUME NEW p \in HexWordPositions(valid), valid <= 17
        PROVE  p + 4 <= HexWordsLength
    BY <2>2 DEF HexWordPositions, HexWordsLength, Byte
  <2> QED BY <2>1, <2>2 DEF HexWordsReadable, HexWordsLength, Byte
<1>2. CommentedPositions(valid) \ HexWordPositions(valid) =
        IF valid = 0 THEN {} ELSE {4 * valid + 4}
  <2>1. ASSUME NEW p \in CommentedPositions(valid), p \notin HexWordPositions(valid)
        PROVE  valid # 0 /\ p = 4 * valid + 4
    <3>1. PICK k \in 0..(valid - 1) : p = 8 + 4 * k
      BY <2>1 DEF CommentedPositions
    <3>2. p \in Nat /\ p >= 8 /\ p % 4 = 0 /\ ~(p <= 4 * valid)
      BY <2>1, <3>1 DEF HexWordPositions, Byte
    <3> QED BY <3>1, <3>2 DEF Byte
  <2>2. valid # 0 => 4 * valid + 4 \in CommentedPositions(valid)
    <3>1. valid # 0 => valid - 1 \in 0..(valid - 1) /\ 8 + 4 * (valid - 1) = 4 * valid + 4
      BY DEF Byte
    <3> QED BY <3>1 DEF CommentedPositions
  <2>3. 4 * valid + 4 \notin HexWordPositions(valid)
    BY DEF HexWordPositions, Byte
  <2> QED BY <2>1, <2>2, <2>3
<1>3. ASSUME NEW p \in HexWordPositions(valid), NEW bytes \in Seq(Byte), p + 4 <= Len(bytes)
      PROVE  HexWord(bytes, p) # CommentedWord(bytes, p)
  <2>1. p \in Nat
    BY DEF HexWordPositions, Byte
  <2>2. Len(HexWord(bytes, p)) = 10
    BY DEF HexWord
  <2>3. Len(CommentedWord(bytes, p)) = 4
    <3>1. \A i \in (p + 1)..(p + 4) : bytes[i] \in Byte
      BY <1>3, <2>1, LenProperties
    <3>2. Len(SubSeq(bytes, p + 1, p + 4)) = 4
      BY <2>1, <3>1, SubSeqProperties
    <3> QED BY <3>2 DEF CommentedWord
  <2>4. 10 # 4
    OBVIOUS
  <2> QED BY <2>2, <2>3, <2>4, Zenon
<1> QED BY <1>1, <1>2, <1>3

-----------------------------------------------------------------------------
\* A byte is the number of its bits.
LEMMA BitsOfByte ==
  ASSUME NEW y \in Byte
  PROVE  /\ \A i \in 0..7 : Bit(y, i) \in {0, 1}
         /\ y = Bit(y, 0) + 2 * Bit(y, 1) + 4 * Bit(y, 2) + 8 * Bit(y, 3)
                + 16 * Bit(y, 4) + 32 * Bit(y, 5) + 64 * Bit(y, 6) + 128 * Bit(y, 7)
<1>1. /\ Bit(y, 0) = y % 2 /\ Bit(y, 1) = (y \div 2) % 2 /\ Bit(y, 2) = (y \div 4) % 2
      /\ Bit(y, 3) = (y \div 8) % 2 /\ Bit(y, 4) = (y \div 16) % 2
      /\ Bit(y, 5) = (y \div 32) % 2 /\ Bit(y, 6) = (y \div 64) % 2
      /\ Bit(y, 7) = (y \div 128) % 2
  BY DEF Bit, Byte
<1>2. y = (y % 2) + 2 * ((y \div 2) % 2) + 4 * ((y \div 4) % 2) + 8 * ((y \div 8) % 2)
                + 16 * ((y \div 16) % 2) + 32 * ((y \div 32) % 2) + 64 * ((y \div 64) % 2)
                + 128 * ((y \div 128) % 2)
  BY DEF Byte
<1>3. /\ Bit(y, 0) \in {0, 1} /\ Bit(y, 1) \in {0, 1} /\ Bit(y, 2) \in {0, 1}
      /\ Bit(y, 3) \in {0, 1} /\ Bit(y, 4) \in {0, 1} /\ Bit(y, 5) \in {0, 1}
      /\ Bit(y, 6) \in {0, 1} /\ Bit(y, 7) \in {0, 1}
  BY <1>1 DEF Byte
<1>4. \A i \in 0..7 : Bit(y, i) \in {0, 1}
  <2>1. \A i \in 0..7 : i \in {0, 1, 2, 3, 4, 5, 6, 7}
    OBVIOUS
  <2> QED BY <1>3, <2>1, Zenon
<1> QED BY <1>1, <1>2, <1>4

\* The number that a list of functions stands for.
IsValue(f, list) ==
  f = [i \in 0..15 |-> IF i = 0 THEN 0 ELSE f[i - 1] + (IF i \in list THEN 2^i ELSE 0)]

\* Every list of functions stands for a number.
LEMMA ValueExists ==
  ASSUME NEW list
  PROVE  \E f \in [0..15 -> Nat] : IsValue(f, list)
<1> DEFINE part(i) == IF i \in list THEN 2^i ELSE 0
           step == [i \in 1..15 |-> [x \in Nat |-> x + part(i)]]
<1>1. ASSUME NEW i \in 1..15 PROVE part(i) \in Nat
  <2>1. i \in {1, 2, 3, 4, 5, 6, 7, 8, 9, 10, 11, 12, 13, 14, 15}
    OBVIOUS
  <2>2. /\ 2^1 \in Nat /\ 2^2 \in Nat /\ 2^3 \in Nat /\ 2^4 \in Nat /\ 2^5 \in Nat
        /\ 2^6 \in Nat /\ 2^7 \in Nat /\ 2^8 \in Nat /\ 2^9 \in Nat /\ 2^10 \in Nat
        /\ 2^11 \in Nat /\ 2^12 \in Nat /\ 2^13 \in Nat /\ 2^14 \in Nat /\ 2^15 \in Nat
    OBVIOUS
  <2>3. 2^i \in Nat
    BY <2>1, <2>2, Zenon
  <2> QED BY <2>3
<1>2. step \in [1..15 -> [Nat -> Nat]]
  <2>1. ASSUME NEW x \in Nat, NEW z \in Nat PROVE x + z \in Nat
    OBVIOUS
  <2> HIDE DEF part
  <2> QED BY <1>1, <2>1
<1>3. PICK f \in [0..15 -> Nat] : Follows(f, 15, 0, step)
  <2> HIDE DEF step
  <2> QED BY <1>2, RecursionExists
<1>4. ASSUME NEW i \in 1..15 PROVE f[i] = f[i - 1] + part(i)
  <2>1. f[i - 1] \in Nat
    OBVIOUS
  <2> HIDE DEF part
  <2> QED BY <1>3, <2>1 DEF Follows
<1>5. IsValue(f, list)
  <2>1. f[0] = 0
    BY <1>3, Zenon DEF Follows
  <2>2. \A i \in 0..15 : f[i] = IF i = 0 THEN 0 ELSE f[i - 1] + part(i)
    <3>1. \A i \in 0..15 : i = 0 \/ i \in 1..15
      OBVIOUS
    <3> HIDE DEF part
    <3> QED BY <1>4, <2>1, <3>1
  <2>3. f = [i \in 0..15 |-> IF i = 0 THEN 0 ELSE f[i - 1] + part(i)]
    <3> HIDE DEF part
    <3> QED BY <2>2
  <2> QED BY <2>3, Zenon DEF IsValue
<1> QED BY <1>5

\* The functions of a bit map of two bytes.
LEMMA ListedByBit ==
  ASSUME NEW low \in Byte, NEW high \in Byte
  PROVE  /\ \A i \in 1..7 : i \in FunctionList(<<low, high>>) <=> Bit(low, i) = 1
         /\ \A i \in 0..7 : 8 + i \in FunctionList(<<low, high>>) <=> Bit(high, i) = 1
<1> DEFINE m == <<low, high>>
<1>1. Len(m) = 2 /\ m[1] = low /\ m[2] = high
  OBVIOUS
<1> HIDE DEF m
<1>2. ASSUME NEW i \in 1..7 PROVE i \in FunctionList(m) <=> Bit(low, i) = 1
  <2>1. i \div 8 = 0 /\ i % 8 = i /\ i \in 1..(8 * 2 - 1) /\ 0 + 1 = 1
    OBVIOUS
  <2> QED BY <1>1, <2>1, Zenon DEF FunctionList
<1>3. ASSUME NEW i \in 0..7 PROVE 8 + i \in FunctionList(m) <=> Bit(high, i) = 1
  <2>1. (8 + i) \div 8 = 1 /\ (8 + i) % 8 = i /\ 8 + i \in 1..(8 * 2 - 1) /\ 1 + 1 = 2
    OBVIOUS
  <2> QED BY <1>1, <2>1, Zenon DEF FunctionList
<1> QED BY <1>2, <1>3 DEF m

\* toggleFunctionState: but for bit 0, the functions it lists are the number that PHYP
\* sends, for every two bytes.
THEOREM ListIsNumber ==
  \A low, high \in Byte : \A f : IsValue(f, FunctionList(<<low, high>>)) =>
    f[15] = (low + 256 * high) - (low % 2)
<1> SUFFICES ASSUME NEW low \in Byte, NEW high \in Byte, NEW f,
                    IsValue(f, FunctionList(<<low, high>>))
             PROVE  f[15] = (low + 256 * high) - (low % 2)
  OBVIOUS
<1> DEFINE list == FunctionList(<<low, high>>)
<1> HIDE DEF list
<1>1. /\ f[0] = 0
      /\ \A i \in 1..15 : f[i] = f[i - 1] + (IF i \in list THEN 2^i ELSE 0)
  <2>1. \A i \in 1..15 : i \in 0..15 /\ i # 0
    OBVIOUS
  <2> QED BY <2>1 DEF IsValue, list
<1>2. \A i \in 1..7 : i \in list <=> Bit(low, i) = 1
  BY ListedByBit DEF list
<1>3. \A i \in 0..7 : 8 + i \in list <=> Bit(high, i) = 1
  BY ListedByBit DEF list
<1> DEFINE Part(y, i, power) == IF Bit(y, i) = 1 THEN power ELSE 0
<1>4. /\ f[1] = f[0] + Part(low, 1, 2)
      /\ f[2] = f[1] + Part(low, 2, 4)
      /\ f[3] = f[2] + Part(low, 3, 8)
      /\ f[4] = f[3] + Part(low, 4, 16)
      /\ f[5] = f[4] + Part(low, 5, 32)
      /\ f[6] = f[5] + Part(low, 6, 64)
      /\ f[7] = f[6] + Part(low, 7, 128)
  BY <1>1, <1>2
<1>5. /\ f[8] = f[7] + Part(high, 0, 256)
      /\ f[9] = f[8] + Part(high, 1, 512)
      /\ f[10] = f[9] + Part(high, 2, 1024)
      /\ f[11] = f[10] + Part(high, 3, 2048)
      /\ f[12] = f[11] + Part(high, 4, 4096)
      /\ f[13] = f[12] + Part(high, 5, 8192)
      /\ f[14] = f[13] + Part(high, 6, 16384)
      /\ f[15] = f[14] + Part(high, 7, 32768)
  BY <1>1, <1>3
<1>6. ASSUME NEW y \in Byte
      PROVE  y = Bit(y, 0) + Part(y, 1, 2) + Part(y, 2, 4) + Part(y, 3, 8) + Part(y, 4, 16)
                 + Part(y, 5, 32) + Part(y, 6, 64) + Part(y, 7, 128)
  BY BitsOfByte
<1>7. ASSUME NEW y \in Byte
      PROVE  256 * y = Part(y, 0, 256) + Part(y, 1, 512) + Part(y, 2, 1024) + Part(y, 3, 2048)
                       + Part(y, 4, 4096) + Part(y, 5, 8192) + Part(y, 6, 16384)
                       + Part(y, 7, 32768)
  <2>1. Bit(y, 0) = Part(y, 0, 1)
    BY BitsOfByte
  <2> QED BY <1>6, <2>1
<1>8. \A y, i : \A power \in Nat : Part(y, i, power) \in Nat
  OBVIOUS
<1>9. f[7] = low - (low % 2)
  <2>1. low % 2 = Bit(low, 0) /\ Bit(low, 0) \in {0, 1} /\ low \in Int
    BY BitsOfByte DEF Bit, Byte
  <2> HIDE DEF Part
  <2> QED BY <1>1, <1>4, <1>6, <1>8, <2>1
<1>10. f[15] = f[7] + 256 * high
  <2>1. f[7] \in Int
    BY <1>9 DEF Byte
  <2> HIDE DEF Part
  <2> QED BY <2>1, <1>5, <1>7, <1>8
<1> QED BY <1>9, <1>10 DEF Byte

\* The part of MessagesAreRight about the bit map of PHYP's functions.
LEMMA BitMapRight == BitMapIsNumber
<1> SUFFICES ASSUME NEW low \in SampleBytes, NEW high \in SampleBytes
             PROVE  (CHOOSE f : IsValue(f, FunctionList(<<low, high>>)))[15]
                      = (low + 256 * high) - (low % 2)
  BY Zenon DEF BitMapIsNumber, IsValue
<1>1. low \in Byte /\ high \in Byte
  BY DEF SampleBytes, Byte
<1>2. IsValue(CHOOSE f : IsValue(f, FunctionList(<<low, high>>)), FunctionList(<<low, high>>))
  BY ValueExists, Zenon
<1> QED BY <1>1, <1>2, ListIsNumber, Zenon

\* The check sums, the commands and the bit maps are right.
THEOREM MessagesRight == MessagesAreRight
BY CheckSumFormulaRight, EncodedRight, BitMapRight DEF MessagesAreRight

-----------------------------------------------------------------------------
\* The bytes that commands have in common.
LEMMA BytesThere ==
  /\ 0 \in Byte /\ 1 \in Byte /\ 2 \in Byte /\ 10 \in Byte /\ 20 \in Byte /\ 50 \in Byte
  /\ 84 \in Byte /\ 128 \in Byte /\ 136 \in Byte /\ 176 \in Byte /\ 240 \in Byte
  /\ 255 \in Byte /\ Blank \in Byte
BY DEF Byte, Blank

\* A message without its last byte is what it was appended to.
LEMMA SequenceLemma ==
  ASSUME NEW q \in Seq(Byte), NEW x \in Byte
  PROVE  /\ Append(q, x) \in Seq(Byte) /\ Len(Append(q, x)) = Len(q) + 1
         /\ \A i \in 1..Len(q) : Append(q, x)[i] = q[i]
         /\ SubSeq(Append(q, x), 1, Len(Append(q, x)) - 1) = q
<1> DEFINE m == Append(q, x)
<1>1. /\ m \in Seq(Byte) /\ Len(m) = Len(q) + 1 /\ Len(q) \in Nat
      /\ \A i \in 1..Len(q) : m[i] = q[i]
  BY AppendProperties, LenProperties
<1> HIDE DEF m
<1>2. Len(m) - 1 = Len(q) /\ \A i \in 1..Len(q) : m[i] \in Byte /\ 1 + i - 1 = i
  <2>1. \A i \in 1..Len(q) : q[i] \in Byte
    BY LenProperties
  <2> QED BY <1>1, <2>1
<1>3. /\ SubSeq(m, 1, Len(q)) \in Seq(Byte)
      /\ Len(SubSeq(m, 1, Len(q))) = IF 1 <= Len(q) THEN Len(q) - 1 + 1 ELSE 0
      /\ \A i \in 1..(Len(q) - 1 + 1) : SubSeq(m, 1, Len(q))[i] = m[1 + i - 1]
  BY <1>1, <1>2, SubSeqProperties
<1>4. /\ Len(SubSeq(m, 1, Len(q))) = Len(q)
      /\ \A i \in 1..Len(q) : SubSeq(m, 1, Len(q))[i] = q[i]
  BY <1>1, <1>2, <1>3
<1>5. SubSeq(m, 1, Len(q)) = q
  BY <1>3, <1>4, SeqEqual
<1> QED BY <1>1, <1>2, <1>5 DEF m

\* The panel finds the bytes of a command in front of their check sum.
LEMMA EncodedKeeps ==
  ASSUME NEW q \in Seq(Byte)
  PROVE  /\ \A i \in 1..Len(q) : Encoded(q)[i] = q[i]
         /\ SubSeq(Encoded(q), 1, Len(Encoded(q)) - 1) = q
<1>1. CheckSum(q) \in Byte
  BY CheckSumRight
<1> QED BY <1>1, SequenceLemma DEF Encoded

\* Every line is cut or filled to a line of the panel.
LEMMA FitLineIsLine ==
  ASSUME NEW line \in Seq(Byte)
  PROVE  FitLine(line) \in [1..LineLength -> Byte]
<1>1. \A i \in 1..LineLength : i <= Len(line) => line[i] \in Byte
  BY LenProperties, LineAssumption
<1> QED BY <1>1, BytesThere DEF FitLine

\* Where the bytes of two joined sequences are.
LEMMA ConcatLemma ==
  ASSUME NEW q \in Seq(Byte), NEW r \in Seq(Byte)
  PROVE  /\ q \o r \in Seq(Byte) /\ Len(q \o r) = Len(q) + Len(r)
         /\ \A i \in 1..Len(q) : (q \o r)[i] = q[i]
         /\ \A i \in 1..Len(r) : (q \o r)[Len(q) + i] = r[i]
<1>1. /\ q \o r \in Seq(Byte) /\ Len(q \o r) = Len(q) + Len(r)
      /\ \A i \in 1..(Len(q) + Len(r)) :
           (q \o r)[i] = IF i <= Len(q) THEN q[i] ELSE r[i - Len(q)]
  BY ConcatProperties
<1>2. Len(q) \in Nat /\ Len(r) \in Nat
  BY LenProperties
<1>3. ASSUME NEW i \in 1..Len(r) PROVE (q \o r)[Len(q) + i] = r[i]
  <2>1. Len(q) + i \in 1..(Len(q) + Len(r)) /\ ~(Len(q) + i <= Len(q)) /\ (Len(q) + i) - Len(q) = i
    BY <1>2
  <2> QED BY <1>1, <2>1
<1>4. ASSUME NEW i \in 1..Len(q) PROVE (q \o r)[i] = q[i]
  <2>1. i \in 1..(Len(q) + Len(r)) /\ i <= Len(q)
    BY <1>2
  <2> QED BY <1>1, <2>1
<1> QED BY <1>1, <1>3, <1>4
=============================================================================
