--------------------------- MODULE StringScanner ----------------------------
(***************************************************************************)
(* parse_string of parser.c: the bytes behind a quote, checked and         *)
(* unescaped in place, one turn of its loop at a time.                     *)
(***************************************************************************)
EXTENDS InputStream

VARIABLE validate_utf8   \* not JSNPG_ALLOW_INVALID_UTF8_IN

Quote == 34
Backslash == 92
Letter_u == 117

(* The byte a letter behind a backslash stands for: " / \ b f n r t        *)
EscapeLetters == {34, 47, 92, 98, 102, 110, 114, 116}
escape == [c \in EscapeLetters |->
             CASE c = 98 -> 8 [] c = 102 -> 12 [] c = 110 -> 10 [] c = 114 -> 13 [] c = 116 -> 9
               [] OTHER -> c]

(* The digits 0 to 9, A to F and a to f.                                   *)
Hex == [c \in (48..57) \cup (65..70) \cup (97..102) |->
          IF c <= 57 THEN c - 48 ELSE IF c <= 70 THEN c - 55 ELSE c - 87]
IsHex(b) == b \in DOMAIN Hex

(* parse_hex4 from offset at on: how many digits there are before it ends  *)
(* or throws, and the value of all four.                                   *)
HexRun(b, at) == IF ~IsHex(b[at]) THEN 0
                 ELSE IF ~IsHex(b[at + 1]) THEN 1
                 ELSE IF ~IsHex(b[at + 2]) THEN 2
                 ELSE IF ~IsHex(b[at + 3]) THEN 3 ELSE 4
HexDigits(b, at) == HexRun(b, at) = 4
parse_hex4(b, at) ==
  ((Hex[b[at]] * 16 + Hex[b[at + 1]]) * 16 + Hex[b[at + 2]]) * 16 + Hex[b[at + 3]]

High(unit) == 55296 <= unit /\ unit <= 56319       \* 0xD800, 0xDBFF
Low(unit) == 56320 <= unit /\ unit <= 57343        \* 0xDC00, 0xDFFF
Paired(high, low) == (high - 55296) * 1024 + (low - 56320) + 65536

InString == phase = "string"

Taking(to) == read' = to /\ UNCHANGED <<source, count, bytes, pointers, phase, results, validate_utf8>>

Plain ==
  /\ InString
  /\ Here \notin {Quote, Backslash}
  /\ Here >= 32 /\ ~(validate_utf8 /\ Here >= 128)
  /\ Taking(read + 1)

(* The NUL behind the text ends a sequence that is cut short, so that four *)
(* bytes may always be asked for.                                          *)
Sequence == utf8_validate_sequence(bytes, read, 4)

Multibyte ==
  /\ InString /\ validate_utf8 /\ Here >= 128
  /\ Sequence # -1
  /\ Taking(read + Sequence)

Throw(code, at) == throw_parse_error(code, at) /\ UNCHANGED <<source, count, bytes, pointers, validate_utf8>>

BadSequence ==
  /\ InString /\ validate_utf8 /\ Here >= 128
  /\ Sequence = -1
  /\ Throw("UTF8", read)

Control ==
  /\ InString /\ Here < 32
  /\ Throw("INVALID", read)

(* parse_escape, of the bytes as they are once what was read before it has *)
(* been moved; utf8_encode then writes behind those.                       *)
AtEscape == InString /\ Here = Backslash

Encoded(codepoint, length) ==
  /\ bytes' = Put(Moved, MovedTo, utf8_encode(codepoint))
  /\ write' = MovedTo + Len(utf8_encode(codepoint))
  /\ read' = read + length
  /\ mis_string_restart(read + length)
  /\ UNCHANGED <<source, count, string, phase, results, validate_utf8>>

SimpleEscape ==
  /\ AtEscape /\ Moved[read + 1] \in EscapeLetters
  /\ Encoded(escape[Moved[read + 1]], 2)

AtUnit == AtEscape /\ Moved[read + 1] = Letter_u
AtHigh == AtUnit /\ HexDigits(Moved, read + 2) /\ High(parse_hex4(Moved, read + 2))
(* Mutant: any escape may follow the first of a pair.                      *)
FollowsAny == Moved[read + 6] = Backslash

Follows == Moved[read + 6] = Backslash /\ Moved[read + 7] = Letter_u

UnitEscape ==
  /\ AtUnit /\ HexDigits(Moved, read + 2)
  /\ ~is_surrogate(parse_hex4(Moved, read + 2))
  /\ Encoded(parse_hex4(Moved, read + 2), 6)

PairEscape ==
  /\ AtHigh /\ Follows /\ HexDigits(Moved, read + 8)
  /\ Low(parse_hex4(Moved, read + 8))
  /\ Encoded(Paired(parse_hex4(Moved, read + 2), parse_hex4(Moved, read + 8)), 12)

(* Where each escape that cannot be read throws.                           *)
NoEscape ==
  /\ AtEscape /\ Moved[read + 1] \notin EscapeLetters \cup {Letter_u}
  /\ throw_parse_error("ESCAPE", read + 1)

ShortUnit ==
  /\ AtUnit /\ ~HexDigits(Moved, read + 2)
  /\ throw_parse_error("ESCAPE", read + 2 + HexRun(Moved, read + 2))

LowFirst ==
  /\ AtUnit /\ HexDigits(Moved, read + 2) /\ Low(parse_hex4(Moved, read + 2))
  /\ throw_parse_error("SURROGATE", read + 6)

HighAlone ==
  /\ AtHigh /\ ~Follows
  /\ throw_parse_error("SURROGATE", IF Moved[read + 6] = Backslash THEN read + 7 ELSE read + 6)

ShortSecond ==
  /\ AtHigh /\ Follows /\ ~HexDigits(Moved, read + 8)
  /\ throw_parse_error("ESCAPE", read + 8 + HexRun(Moved, read + 8))

BadSecond ==
  /\ AtHigh /\ Follows /\ HexDigits(Moved, read + 8)
  /\ ~Low(parse_hex4(Moved, read + 8))
  /\ throw_parse_error("SURROGATE", read + 12)

BadEscape ==
  /\ NoEscape \/ ShortUnit \/ LowFirst \/ HighAlone \/ ShortSecond \/ BadSecond
  /\ bytes' = Moved /\ write' = MovedTo
  /\ UNCHANGED <<source, count, string, mark, validate_utf8>>

(* mis_string_complete: the string is where it was, or where it was        *)
(* written to.                                                             *)
Complete ==
  /\ InString /\ Here = Quote
  /\ read' = read + 1
  /\ IF mark = string
     THEN /\ Return("string", <<string, read - string>>)
          /\ UNCHANGED <<bytes, write>>
     ELSE /\ bytes' = Moved /\ write' = MovedTo
          /\ Return("string", <<string, MovedTo - string>>)
  /\ UNCHANGED <<source, count, string, mark, validate_utf8>>

StringNext == \/ Plain \/ Multibyte \/ BadSequence \/ Control
              \/ SimpleEscape \/ UnitEscape \/ PairEscape \/ BadEscape
              \/ Complete
=============================================================================
