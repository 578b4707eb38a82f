------------------------------ MODULE Numbers -------------------------------
(***************************************************************************)
(* The conversions of libs/string.c (strtol, string_to_int), libs/stdio.c   *)
(* (ltoa, fdivtoa) and peripheral/uart.c (uart_int, uart_hex).  A character *)
(* is its ASCII code, a text a sequence of them without the NUL.  int and   *)
(* long keep a width: IntMax is INT_MAX, Word the range of unsigned long.   *)
(* endptr is left out: every caller passes 0.                               *)
(***************************************************************************)
EXTENDS SequencesExt, Integers

CONSTANTS IntMax,     \* INT_MAX
          Word,       \* 2^64
          HexDigits,  \* 8: hexadecimal digits of an unsigned int
          TopPower,   \* 19: ltoa starts with 10^19
          Fraction,   \* 6: digits that fdivtoa writes behind the point
          Quotients,  \* bound: the dividends and divisors it is given
          Chars,      \* bound: characters of the texts to be read
          MaxLen      \* bound: their length

(* base to the n-th, as scan and the weights of digits are.                 *)
Power(base, n) == LET p[k \in 0..n] == IF k = 0 THEN 1 ELSE base * p[k - 1] IN p[n]

NumbersAssumption ==
  /\ IntMax \in Nat /\ HexDigits \in Nat /\ Power(16, HexDigits) = 2 * (IntMax + 1)
  /\ Word \in Nat /\ Word > 16 * (IntMax + 1)
  /\ TopPower \in Nat /\ Power(10, TopPower) < Word /\ Word <= Power(10, TopPower + 1)
  /\ Fraction \in Nat \ {0} /\ Quotients \subseteq (0..(Word - 1)) \X (1..(Word - 1))
  /\ Chars \subseteq 1..127 /\ MaxLen \in Nat

VARIABLE last     \* what was called last, with what, and what it gave

IntMin == -(IntMax + 1)
Ints   == IntMin..IntMax

(* What an int and a long keep of a number; the build (-O0) wraps.          *)
ToInt(n)  == ((n + IntMax + 1) % (2 * (IntMax + 1))) - (IntMax + 1)
ToLong(n) == ((n + Word \div 2) % Word) - Word \div 2

Space == 32
Plus  == 43
Minus == 45
Point == 46
Zero  == 48
-----------------------------------------------------------------------------
(* The value of a character as a digit; 36 for any other character.         *)
DigitOf(c) == IF c \in 48..57 THEN c - 48
              ELSE IF c \in 97..122 THEN c - 97 + 10
              ELSE IF c \in 65..90 THEN c - 65 + 10 ELSE 36

At(s, i) == IF i \in DOMAIN s THEN s[i] ELSE 0
SkipSpaces(s) == CHOOSE i \in 1..(Len(s) + 1) :
                   At(s, i) # Space /\ \A j \in 1..(i - 1) : s[j] = Space

PrefixAt(s, i, base) == /\ base \in {0, 16}
                        /\ At(s, i) = Zero /\ At(s, i + 1) \in {88, 120}
                        /\ DigitOf(At(s, i + 2)) < 16

(* The constant 1 << 63 is an int and is shifted by 31: the bound is INT_MAX *)
(* for a negative number and -2^31, as an unsigned long, for others.         *)
BytesNotBits(neg) == IF neg THEN IntMax \div 16 ELSE (IntMax + 1) \div 16
Overflow(neg) == IF neg THEN IntMax ELSE Word + IntMin

(* The digits from i on; 0 as soon as one more follows a value at the bound. *)
Read(s, i, base, neg) ==
  LET n == CHOOSE n \in 0..(Len(s) + 1 - i) :
             DigitOf(At(s, i + n)) >= base /\ \A k \in 0..(n - 1) : DigitOf(s[i + k]) < base
      acc[k \in 0..n] == IF k = 0 THEN 0
                         ELSE (acc[k - 1] * base + DigitOf(s[i + k - 1])) % Word
  IN  IF \E k \in 0..(n - 1) : acc[k] >= Overflow(neg) THEN 0 ELSE acc[n]

strtol(s, base) ==
  LET a   == SkipSpaces(s)
      neg == At(s, a) = Minus
      b   == IF At(s, a) \in {Minus, Plus} THEN a + 1 ELSE a
      hex == PrefixAt(s, b, base)
      bas == IF hex THEN 16 ELSE IF base = 0 THEN 10 ELSE base
      acc == Read(s, IF hex THEN b + 2 ELSE b, bas, neg)
  IN  IF bas \notin 2..36 THEN 0 ELSE ToLong(IF neg THEN -acc ELSE acc)

(* Any character counts as a digit.                                         *)
string_to_int(s) == FoldLeft(LAMBDA ret, c : ToInt(ret * 10 + c - Zero), 0, s)
-----------------------------------------------------------------------------
(* The digits of n, the last one first: output[] of uart_int.               *)
Output(n) == LET o[m \in 0..IntMax] == IF m = 0 THEN <<>>
                                       ELSE <<Zero + (m % 10)>> \o o[m \div 10]
             IN  o[n]

AsStored(n) == LET m == ToInt(IF n < 0 THEN -n ELSE n)    \* not turned round
               IN  IF n = 0 THEN <<Zero>>
                   ELSE (IF n < 0 THEN <<Minus>> ELSE <<>>)
                        \o (IF m > 0 THEN Output(m) ELSE <<>>)
uart_int(n) == LET m == ToInt(IF n < 0 THEN -n ELSE n)    \* INT_MIN stays negative
               IN  IF n = 0 THEN <<Zero>>
                   ELSE (IF n < 0 THEN <<Minus>> ELSE <<>>)
                        \o (IF m > 0 THEN Reverse(Output(m)) ELSE <<>>)

(* uart_hex, and puthex of the user library, its copy.                      *)
HexDigit(n) == n + (IF n > 9 THEN 55 ELSE Zero)
uart_hex(d) ==
  [i \in 1..HexDigits |-> HexDigit((d \div Power(16, HexDigits - i)) % 16)]

(* A digit is stored only from the first that is not 0 on.                  *)
Digit(val, k) == (val \div Power(10, k)) % 10
ltoa(val) ==
  LET count == CHOOSE k \in 1..(TopPower + 1) :
                 Digit(val, k - 1) # 0 /\ \A j \in k..TopPower : Digit(val, j) = 0
  IN  IF \A k \in 0..TopPower : Digit(val, k) = 0 THEN <<Zero>>
      ELSE [i \in 1..count |-> Zero + Digit(val, count - i)]

(* The remainder is multiplied before it is divided, and may wrap.          *)
fdivtoa(dividend, divisor) ==
  LET quot == (((dividend % divisor) * Power(10, Fraction)) % Word) \div divisor
  IN  ltoa(dividend \div divisor) \o <<Point>>
        \o [i \in 1..Fraction |-> Zero + Digit(quot, Fraction - i)]
-----------------------------------------------------------------------------
Texts == BoundedSeq(Chars, MaxLen)

Init == last = <<"none", 0, 0>>

(* One call: the functions keep no state.                                   *)
Next ==
  /\ last[1] = "none"
  /\ \/ \E s \in Texts, base \in {0, 10, 16} :
            last' = <<"strtol", <<s, base>>, strtol(s, base)>>
     \/ \E n \in Ints : last' = <<"uart_int", n, uart_int(n)>>
     \/ \E d \in 0..(Power(16, HexDigits) - 1) : last' = <<"uart_hex", d, uart_hex(d)>>
     \/ \E val \in 0..(Word - 1) : last' = <<"ltoa", val, ltoa(val)>>
     \/ \E q \in Quotients : last' = <<"fdivtoa", q, fdivtoa(q[1], q[2])>>

Spec == Init /\ [][Next]_last
-----------------------------------------------------------------------------
(* The number that a sequence of digits stands for.                         *)
Denotes(digits, base) ==
  FoldLeft(LAMBDA v, c : v * base + DigitOf(c), 0, digits)

(***************************************************************************)
(* What is printed reads back as what was printed: uart_hex by strtol, for  *)
(* every unsigned int, although it writes capitals; uart_int and ltoa by    *)
(* string_to_int, for every int that is not negative, and by strtol for the *)
(* negative ones but INT_MIN, which comes out as a sign alone.  What fdivtoa *)
(* writes is the quotient, its point before the last six digits and cut off *)
(* behind them, if the remainder did not wrap.                              *)
(***************************************************************************)
ReadsBack ==
  CASE last[1] = "uart_hex" -> strtol(last[3], 16) = last[2]
    [] last[1] = "uart_int" -> /\ last[2] >= 0 => string_to_int(last[3]) = last[2]
                               /\ last[2] # IntMin => strtol(last[3], 10) = last[2]
    [] last[1] = "ltoa"     -> last[2] <= IntMax => /\ string_to_int(last[3]) = last[2]
                                                    /\ last[3] = uart_int(last[2])
    [] last[1] = "fdivtoa"  ->
         (last[2][1] % last[2][2]) * Power(10, Fraction) < Word =>
           LET point == Len(last[3]) - Fraction
           IN  /\ last[3][point] = Point
               /\ Denotes(RemoveAt(last[3], point), 10)
                    = (last[2][1] * Power(10, Fraction)) \div last[2][2]
    [] OTHER                -> TRUE

(***************************************************************************)
(* strtol gives the number that a text denotes if it has no more digits     *)
(* than an unsigned int, whatever stands behind it: sizes in an archive and *)
(* addresses that are typed in have eight.                                  *)
(***************************************************************************)
ReadsExactly ==
  last[1] = "strtol" =>
    LET s    == last[2][1]
        base == IF last[2][2] = 0 THEN 10 ELSE last[2][2]
    IN  \A i \in 1..Len(s), k \in 1..HexDigits :
          LET before == SubSeq(s, 1, i - 1)
              digits == SubSeq(s, i, i + k - 1)
          IN  /\ i + k - 1 <= Len(s)
              /\ \A j \in 1..k : DigitOf(digits[j]) < base
              /\ DigitOf(At(s, i + k)) >= base
              /\ before \in {<<>>, <<Space>>, <<Plus>>, <<Minus>>, <<Space, Minus>>}
              /\ ~PrefixAt(s, i, last[2][2])
              => last[3] = (IF Minus \in ToSet(before) THEN -1 ELSE 1) * Denotes(digits, base)
=============================================================================
