------------------------------ MODULE Lexemes -------------------------------
(***************************************************************************)
(* What a text says, told without scanning it: a text is blanks and        *)
(* lexemes one after another, and each lexeme says something.  The state   *)
(* is used for the text itself only (source, and the flags it is read      *)
(* with), and for the copy in which the strings have been rewritten.       *)
(*                                                                         *)
(* Whatever is of any length is told by a witness: the offsets at which it *)
(* is cut, or the partial values of its digits.                            *)
(***************************************************************************)
EXTENDS Scanners

At(i, s) == \A k \in 1..Len(s) : source[i + k - 1] = s[k]

-----------------------------------------------------------------------------
(* Blanks: a space, a comment in a line, or one up to the first star and   *)
(* slash behind its opening.                                               *)
OpensBlock(a) == allow_comments /\ source[a] = Slash /\ source[a + 1] = Star
OpensLine(a) == allow_comments /\ source[a] = Slash /\ source[a + 1] = Slash
Closes(i) == source[i] = Star /\ source[i + 1] = Slash

Blank(a, b) ==
  \/ source[a] \in Spaces /\ b = a + 1
  \/ /\ OpensBlock(a) /\ a + 4 <= b /\ Closes(b - 2)
     /\ \A i \in (a + 2)..(b - 3) : ~Closes(i)
  \/ /\ OpensLine(a) /\ a + 2 <= b /\ source[b] = Newline
     /\ \A i \in (a + 2)..(b - 1) : source[i] # Newline

Blanks(from, to) ==
  \E n \in Nat : \E cut \in [0..n -> from..to] :
    /\ cut[0] = from /\ cut[n] = to
    /\ \A k \in 0..(n - 1) : Blank(cut[k], cut[k + 1])

(* A comment that nothing closes before a NUL, or the end, and what is     *)
(* behind it is not read.                                                  *)
Unclosed(a) ==
  \E end \in (a + 1)..count :
    /\ source[end] = 0
    /\ \/ OpensBlock(a) /\ \A i \in (a + 2)..(end - 1) : ~Closes(i)
       \/ OpensLine(a) /\ \A i \in (a + 2)..(end - 1) : source[i] # Newline

-----------------------------------------------------------------------------
(* Strings.  Bytes a up to b of the text stand for bytes c up to d of the  *)
(* copy, b and d left out: a byte for itself, a well-formed sequence for   *)
(* itself, and an escape for the byte or for the code point that it names. *)
Holds(copy, c, d, byte) == d = c + 1 /\ copy[c] = byte
HoldsPoint(copy, c, d, cp) ==
  /\ d = c + Len(utf8_encode(cp))
  /\ \A k \in 1..Len(utf8_encode(cp)) : copy[c + k - 1] = utf8_encode(cp)[k]

AsItIs(a, b, copy, c, d) ==
  /\ source[a] \notin {Quote, Backslash} /\ source[a] >= 32
  /\ ~(validate_utf8 /\ source[a] >= 128)
  /\ b = a + 1 /\ Holds(copy, c, d, source[a])

WholeSequence(a, b, copy, c, d) ==
  /\ validate_utf8 /\ source[a] >= 128
  /\ WellFormed(source, a, b - a)
  /\ d = c + (b - a) /\ \A k \in 0..(b - a - 1) : copy[c + k] = source[a + k]

Letter(a, b, copy, c, d) ==
  /\ source[a] = Backslash /\ source[a + 1] \in EscapeLetters
  /\ b = a + 2 /\ Holds(copy, c, d, escape[source[a + 1]])

EscapesUnit(a, unit) ==
  /\ source[a] = Backslash /\ source[a + 1] = Letter_u
  /\ HexDigits(source, a + 2) /\ unit = parse_hex4(source, a + 2)

OneUnit(a, b, copy, c, d) ==
  \E unit \in Nat :
    /\ EscapesUnit(a, unit) /\ ~is_surrogate(unit)
    /\ b = a + 6 /\ HoldsPoint(copy, c, d, unit)

TwoUnits(a, b, copy, c, d) ==
  \E high, low \in Nat :
    /\ EscapesUnit(a, high) /\ High(high)
    /\ EscapesUnit(a + 6, low) /\ Low(low)
    /\ b = a + 12 /\ HoldsPoint(copy, c, d, Paired(high, low))

StandsFor(a, b, copy, c, d) ==
  \/ AsItIs(a, b, copy, c, d) \/ WholeSequence(a, b, copy, c, d)
  \/ Letter(a, b, copy, c, d) \/ OneUnit(a, b, copy, c, d) \/ TwoUnits(a, b, copy, c, d)

Decodes(from, to, copy, first, last) ==
  \E n \in Nat : \E cut \in [0..n -> from..to], put \in [0..n -> first..last] :
    /\ cut[0] = from /\ cut[n] = to /\ put[0] = first /\ put[n] = last
    /\ \A k \in 0..(n - 1) : StandsFor(cut[k], cut[k + 1], copy, put[k], put[k + 1])

(* Where a string cannot be read on: no fault but for these.               *)
HexFault(a, at) == at = a + HexRun(source, a) /\ ~HexDigits(source, a)
SequenceFault(a) == validate_utf8 /\ source[a] >= 128 /\ \A n \in 1..4 : ~WellFormed(source, a, n)
LetterFault(a) == source[a] = Backslash /\ source[a + 1] \notin EscapeLetters \cup {Letter_u}
UnitFault(a, at) == source[a] = Backslash /\ source[a + 1] = Letter_u /\ HexFault(a + 2, at)
EscapesHigh(a) == \E high \in Nat : EscapesUnit(a, high) /\ High(high)
LowFault(a) == \E unit \in Nat : EscapesUnit(a, unit) /\ Low(unit)
PairFault(a, at) ==
  /\ EscapesHigh(a)
  /\ \/ at = a + 6 /\ source[a + 6] # Backslash
     \/ at = a + 7 /\ source[a + 6] = Backslash /\ source[a + 7] # Letter_u
     \/ at = a + 12 /\ \E unit \in Nat : EscapesUnit(a + 6, unit) /\ ~Low(unit)

StringFault(a, code, at) ==
  \/ code = "UTF8" /\ at = a /\ SequenceFault(a)
  \/ code = "INVALID" /\ at = a /\ source[a] < 32
  \/ code = "ESCAPE" /\ at = a + 1 /\ LetterFault(a)
  \/ code = "ESCAPE" /\ UnitFault(a, at)
  \/ code = "ESCAPE" /\ EscapesHigh(a) /\ UnitFault(a + 6, at)
  \/ code = "SURROGATE" /\ at = a + 6 /\ LowFault(a)
  \/ code = "SURROGATE" /\ PairFault(a, at)

StringLexeme(r, from, to) ==
  /\ source[from] = Quote /\ source[to - 1] = Quote
  /\ r.value[1] = from + 1
  /\ Decodes(from + 1, to - 1, bytes, r.value[1], r.value[1] + r.value[2])

-----------------------------------------------------------------------------
(* Numbers.  Digits a up to b, read on from value x, are worth y.          *)
IsDigitAt(i) == source[i] \in Zero..(Zero + Ten - 1)
Digits(a, b) == \A i \in a..(b - 1) : IsDigitAt(i)
Worth(a, b, x, y) ==
  \E v \in [a..b -> Nat] :
    /\ v[a] = x /\ v[b] = y
    /\ \A i \in a..(b - 1) : IsDigitAt(i) /\ v[i + 1] = v[i] * Ten + (source[i] - Zero)

(* A value of as many digits as are kept.                                  *)
Full(x) == Ten ^ (MaxSigDigits - 1) <= x

(* The whole part: left digits behind the kept ones are left out of x.     *)
WholePart(w, p, x, left) ==
  /\ w < p /\ Digits(w, p) /\ (source[w] = Zero => p = w + 1)
  /\ LET kept == Min2(p, w + MaxSigDigits)
     IN Worth(w, kept, 0, x) /\ left = p - kept

(* The digits behind the point, of which scale are kept.                   *)
FractionPart(p, q, x, y, scale) ==
  /\ source[p] = PointByte /\ Digits(p + 1, q)
  /\ \E kept \in (p + 1)..q :
       /\ Worth(p + 1, kept, x, y) /\ scale = kept - (p + 1)
       /\ y < Ten ^ MaxSigDigits /\ (kept < q => Full(y))

(* The exponent, from its letter on, and where its digits begin.           *)
ExponentDigits(q) == IF source[q + 1] \in {Minus, Plus} THEN q + 2 ELSE q + 1
ExponentPart(q, to, exp) ==
  /\ source[q] \in E_e
  /\ ExponentDigits(q) <= to /\ Worth(ExponentDigits(q), to, 0, exp)
ExponentSign(q) == IF source[q + 1] = Minus THEN -1 ELSE 1

Negative(from) == source[from] = Minus
FirstDigit(from) == IF Negative(from) THEN from + 1 ELSE from
SumLimit(from) == IF Negative(from) THEN LongMax + 1 ELSE LongMax

(* A number written without point or exponent.                             *)
WholeNumber(from, to, x, left) ==
  /\ WholePart(FirstDigit(from), to, x, left)
  /\ source[FirstDigit(from)] # Zero => ~IsDigitAt(to)
  /\ source[to] \notin {PointByte} \cup E_e

(* A number with its point, its exponent, or both: the value of the digits *)
(* that are kept, and the power of ten it is to be multiplied by.          *)
Mantissa(from, q, y, power, plain) ==
  \E p, x, left, scale \in Nat :
    /\ WholePart(FirstDigit(from), p, x, left)
    /\ power = left - scale
    /\ IF plain THEN q = p /\ y = x /\ scale = 0 /\ source[p] # PointByte
       ELSE /\ p + 1 < q /\ FractionPart(p, q, x, y, scale)
            /\ ~IsDigitAt(q)

Scientific(from, to, y, power) ==
  \E q, exp \in Nat : \E mantissa \in Int : \E plain \in BOOLEAN :
    /\ Mantissa(from, q, y, mantissa, plain)
    /\ \/ /\ ~plain /\ to = q /\ source[q] \notin E_e /\ power = mantissa
       \/ /\ ExponentPart(q, to, exp) /\ ExponentDigits(q) < to /\ ~IsDigitAt(to)
          /\ exp <= ExpLimit
          /\ power = mantissa + ExponentSign(q) * exp

IntegerLexeme(r, from, to) ==
  \E x \in Nat :
    /\ WholeNumber(from, to, x, 0) /\ x <= SumLimit(from)
    /\ r.value = <<IF Negative(from) THEN -x ELSE x>>

(* A number that is no integer of the machine, and what is computed of it, *)
(* if it is not left to strtod.                                            *)
RealNumber(from, to, y, power) ==
  \/ WholeNumber(from, to, y, power) /\ (power > 0 \/ y > SumLimit(from))
  \/ Scientific(from, to, y, power)

RealLexeme(r, from, to) ==
  \E y \in Nat : \E power \in Int :
    /\ RealNumber(from, to, y, power)
    /\ r.value \in {<<>>, <<Negative(from), y, power>>}

(* The first digit that is missing, or an exponent that is too large, or a *)
(* number that strtod finds infinite.                                      *)
NumberFault(from, at) ==
  \/ Negative(from) /\ at = from + 2 /\ ~IsDigitAt(from + 1)
  \/ \E p, x, left \in Nat :
       /\ WholePart(FirstDigit(from), p, x, left)
       /\ source[p] = PointByte /\ at = p + 1 /\ ~IsDigitAt(at)
  \/ \E q, y \in Nat : \E power \in Int : \E plain \in BOOLEAN :
       /\ Mantissa(from, q, y, power, plain) /\ source[q] \in E_e
       /\ \/ at = ExponentDigits(q) /\ ~IsDigitAt(at)
          \/ \E before, exp \in Nat :
               /\ ExponentPart(q, at - 1, before) /\ before <= ExpLimit
               /\ ExponentPart(q, at, exp) /\ exp > ExpLimit
  \/ \E y \in Nat : \E power \in Int : RealNumber(from, at, y, power)

-----------------------------------------------------------------------------
(* What a result says of bytes from up to to of the text: an error is one  *)
(* of the byte behind which, or at which, it was found.                    *)
CommentFault(from, at) ==
  allow_comments /\ source[from] = Slash /\ at = from + 1 /\ source[at] \notin {Star, Slash}

WordFault(from, at) ==
  \E word \in Words : \E bad \in 2..Len(word) :
    /\ \A k \in 1..(bad - 1) : source[from + k - 1] = word[k]
    /\ at = from + bad - 1 /\ source[at] # word[bad]

NoLexeme(from, at) ==
  /\ at = from /\ at < count /\ source[at] \notin Firsts \cup Spaces
  /\ ~(allow_comments /\ source[at] = Slash)

FaultyString(from, code, at) ==
  /\ source[from] = Quote
  /\ \E a, last \in Nat : \E copy :
       Decodes(from + 1, a, copy, from + 1, last) /\ StringFault(a, code, at)

ErrorLexeme(from, code, at) ==
  \/ code = "UNEXPECTED" /\ (NoLexeme(from, at) \/ CommentFault(from, at) \/ WordFault(from, at))
  \/ code = "NUMBER" /\ NumberFault(from, at)
  \/ FaultyString(from, code, at)

WordLexeme(r, from, to) == r.value \in Words /\ At(from, r.value) /\ to = from + Len(r.value)
MarkLexeme(r, from, to) == source[from] \in Marks /\ r.value = <<source[from]>> /\ to = from + 1

Lexeme(r, from, to) ==
  \/ r.type = "word" /\ WordLexeme(r, from, to)
  \/ r.type = "mark" /\ MarkLexeme(r, from, to)
  \/ r.type = "string" /\ StringLexeme(r, from, to)
  \/ r.type = "integer" /\ IntegerLexeme(r, from, to)
  \/ r.type = "real" /\ RealLexeme(r, from, to)
  \/ r.type = "error" /\ \E code : r.value = <<code, to>> /\ ErrorLexeme(from, code, to)

(* The results are what the text says, from its first byte on, one lexeme  *)
(* after another with nothing but blanks between them, to its end or to    *)
(* the first error.                                                        *)
Ended(at) == \E a \in Nat : Blanks(at, a) /\ (a = count \/ Unclosed(a))

ResultsAreTheText ==
  \E start, stop \in [0..Len(results) -> Nat] :
    /\ stop[0] = 0
    /\ \A n \in 1..Len(results) :
         /\ Blanks(stop[n - 1], start[n]) /\ Lexeme(results[n], start[n], stop[n])
         /\ results[n].type = "error" => n = Len(results) /\ phase = "done"
    /\ phase = "done" =>
         \/ Ended(stop[Len(results)])
         \/ Len(results) # 0 /\ results[Len(results)].type = "error"
=============================================================================
