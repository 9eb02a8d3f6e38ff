-------------------------------- MODULE Itoa --------------------------------
(***************************************************************************)
(* u64toa and i64toa of thirdparty/itoa.c for any base: pairs of digits    *)
(* looked up together, with the digits ahead of the first one left out.    *)
(***************************************************************************)
EXTENDS Integers, Sequences, FiniteSets

CONSTANT Ten

DigitByte(d) == 48 + d
Pair(d) == <<DigitByte(d \div Ten), DigitByte(d % Ten)>>       \* c_digits_lut
Four(v) == Pair(v \div Ten ^ 2) \o Pair(v % Ten ^ 2)
Eight(v) == Four(v \div Ten ^ 4) \o Four(v % Ten ^ 4)

(* The digits of value from the power least on: a digit is put when value  *)
(* reaches its power, and the last one always.                             *)
Reached(value, digits, least) ==
  {k \in (least + 1)..(least + Len(digits) - 1) : value >= Ten ^ k}

Leading(value, digits, least) ==
  SubSeq(digits, Len(digits) - Cardinality(Reached(value, digits, least)), Len(digits))

u64toa(value) ==
  LET rest == value % Ten ^ 16
      first == value \div Ten ^ 16
  IN CASE value < Ten ^ 4 -> Leading(value, Four(value), 0)
       [] Ten ^ 4 <= value /\ value < Ten ^ 8 ->
            Leading(value, Four(value \div Ten ^ 4), 4) \o Four(value % Ten ^ 4)
       [] Ten ^ 8 <= value /\ value < Ten ^ 16 ->
            Leading(value, Eight(value \div Ten ^ 8), 8) \o Eight(value % Ten ^ 8)
       [] OTHER ->
            Leading(first, Four(first), 0) \o Eight(rest \div Ten ^ 8) \o Eight(rest % Ten ^ 8)

i64toa(value) == IF value < 0 THEN <<45>> \o u64toa(-value) ELSE u64toa(value)
=============================================================================
