--------------------------- MODULE NumberScanner ----------------------------
(***************************************************************************)
(* parse_number of parser.c, one turn of its loops at a time, for any      *)
(* base and any width: the code's are ten, nineteen digits and 64 bits,    *)
(* TLC's numbers have 32.  The conversions to double are external.         *)
(***************************************************************************)
EXTENDS InputStream

CONSTANTS Ten,             \* the base
          MaxSigDigits,    \* max_sig_digits
          LongMax,         \* LONG_MAX
          ExpLimit,        \* the largest exponent a text may write
          SmallestPower,   \* FASTFLOAT_SMALLEST_POWER
          LargestPower     \* FASTFLOAT_LARGEST_POWER

(* The sum can hold as many digits as are kept.  The powers are given step *)
(* by step for the proofs, whose provers know none.                        *)
ASSUME NumberAssumption ==
  /\ Ten \in 2..10 /\ MaxSigDigits \in Nat \ {0} /\ LongMax \in Nat \ {0}
  /\ Ten ^ 0 = 1
  /\ \A k \in 1..MaxSigDigits : Ten ^ k = Ten * Ten ^ (k - 1) /\ Ten ^ k <= 2 * (LongMax + 1)
  /\ ExpLimit \in Nat /\ SmallestPower \in Int /\ LargestPower \in Int

VARIABLE number   \* the locals of parse_number

Minus == 45
Plus == 43
Zero == 48
PointByte == 46
E_e == {69, 101}

(* uint64_t and byte wrap around.  Mutant: a byte does not.                *)
DigitAsInt(b) == b - Zero

Wrapped(n) == n % (2 * (LongMax + 1))
Digit(b) == (b - Zero) % 256
IsDigit == Digit(Here) < Ten

NoNumber == [negative |-> FALSE, sum |-> 0, exponent |-> 0, sig_digits |-> 0,
             force_double |-> FALSE, exp_sign |-> 1, exp |-> 0]

(* Mutant: a long may be as large as its negative.                         *)
FitsAnySign(n) == n.sum <= LongMax + 1

Keeps(n) == n.sig_digits < MaxSigDigits
FitsLong(n) == n.sum <= IF n.negative THEN LongMax + 1 ELSE LongMax

nothing_else == <<source, count, bytes, pointers>>
Throws(code, at) == throw_parse_error(code, at) /\ UNCHANGED <<nothing_else, number>>
Goes(to, at, n) ==
  /\ read' = at /\ phase' = to /\ number' = n
  /\ UNCHANGED <<nothing_else, results>>

(* The sign and the first digit.  They are taken before they are looked    *)
(* at: behind a minus the NUL that ends the text may be taken.             *)
parse_number ==
  LET negative == Here = Minus
      first == IF negative THEN read + 1 ELSE read
      digit == Digit(bytes[first])
  IN IF digit < Ten
     THEN Goes(IF digit # 0 THEN "whole" ELSE "point", first + 1,
               [NoNumber EXCEPT !.negative = negative, !.sum = digit,
                                !.sig_digits = IF digit # 0 THEN 1 ELSE 0])
     ELSE throw_parse_error("NUMBER", first + 1) /\ UNCHANGED <<nothing_else, number>>

WholeDigit ==
  /\ phase = "whole" /\ IsDigit
  /\ Goes("whole", read + 1,
       IF Keeps(number)
       THEN [number EXCEPT !.sum = Wrapped(@ * Ten + Digit(Here)), !.sig_digits = @ + 1]
       ELSE [number EXCEPT !.exponent = @ + 1, !.sig_digits = @ + 1])

AtPoint == phase = "point" \/ (phase = "whole" /\ ~IsDigit)

Point ==
  /\ AtPoint /\ Here = PointByte
  /\ IF Digit(bytes[read + 1]) < Ten
     THEN Goes("fraction", read + 1, [number EXCEPT !.force_double = TRUE])
     ELSE Throws("NUMBER", read + 1)

FractionDigit ==
  /\ phase = "fraction" /\ IsDigit
  /\ LET sum == Wrapped(Ten * number.sum + Digit(Here))
     IN Goes("fraction", read + 1,
          IF Keeps(number)
          THEN [number EXCEPT !.sum = sum, !.exponent = @ - 1,
                              !.sig_digits = IF sum # 0 THEN @ + 1 ELSE @]
          ELSE number)

AtExponent == \/ AtPoint /\ Here # PointByte
              \/ phase = "fraction" /\ ~IsDigit

Exponent ==
  /\ AtExponent /\ Here \in E_e
  /\ LET sign == bytes[read + 1]
         first == IF sign \in {Minus, Plus} THEN read + 2 ELSE read + 1
     IN IF Digit(bytes[first]) < Ten
        THEN Goes("exponent", first,
               [number EXCEPT !.force_double = TRUE,
                              !.exp_sign = IF sign = Minus THEN -1 ELSE 1])
        ELSE Throws("NUMBER", first)

ExponentDigit ==
  /\ phase = "exponent" /\ IsDigit
  /\ LET exp == Ten * number.exp + Digit(Here)
     IN IF exp > ExpLimit
        THEN Throws("NUMBER", read + 1)
        ELSE Goes("exponent", read + 1, [number EXCEPT !.exp = exp])

AtFinish == \/ AtExponent /\ Here \notin E_e
            \/ phase = "exponent" /\ ~IsDigit

Power == number.exponent + number.exp_sign * number.exp
Double == number.force_double \/ number.sig_digits > MaxSigDigits \/ ~FitsLong(number)

(* -sum of an unsigned sum, as the long it is assigned to.                 *)
Signed(n) == LET u == IF n.negative THEN Wrapped(-n.sum) ELSE n.sum
             IN IF u > LongMax THEN u - 2 * (LongMax + 1) ELSE u

Integer ==
  /\ AtFinish /\ ~Double
  /\ Return("integer", <<Signed(number)>>)
  /\ UNCHANGED <<nothing_else, read, number>>

(* The range test joins its bounds with "or".                              *)
Computes == Power >= SmallestPower \/ Power <= LargestPower

(* compute_float_64, which may give up on a number.                        *)
Compute ==
  /\ AtFinish /\ Double /\ Computes
  /\ Return("real", <<number.negative, number.sum, Power>>)
  /\ UNCHANGED <<nothing_else, read, number>>

(* strtod reads the number again, from its first byte to where it has been *)
(* read to, and fails if it is infinite.                                   *)
Strtod ==
  /\ AtFinish /\ Double
  /\ \/ Return("real", <<>>) /\ UNCHANGED read
     \/ throw_parse_error("NUMBER", read)
  /\ UNCHANGED <<nothing_else, number>>

NumberNext == \/ WholeDigit \/ Point \/ FractionDigit
              \/ Exponent \/ ExponentDigit
              \/ Integer \/ Compute \/ Strtod
=============================================================================
