-------------------------------- MODULE Utf8 --------------------------------
(***************************************************************************)
(* UTF-8 as utf8.c sees it: code points encoded into one to four bytes,    *)
(* sequences validated byte by byte, and the byte order mark.  Shifts and  *)
(* masks are divisions and remainders; the bits that are or-ed together    *)
(* never overlap, so that they are added.                                  *)
(***************************************************************************)
EXTENDS Integers, Sequences

Byte == 0..255
CODEPOINT_MAX == 1114111       \* 0x10FFFF

is_surrogate(cp) == 55296 <= cp /\ cp <= 57343       \* 0xD800, 0xDFFF
is_valid_codepoint(cp) == cp <= CODEPOINT_MAX /\ ~is_surrogate(cp)

IS_CONTINUATION(b) == b \div 64 = 2
LO_6_BITS(x) == x % 64

Leading2(cp) == 192 + ((cp \div 64) % 32)
Leading3(cp) == 224 + ((cp \div 4096) % 16)
Leading4(cp) == 240 + ((cp \div 262144) % 8)
Continuing(cp, divisor) == 128 + LO_6_BITS(cp \div divisor)

(* The bytes put for a code point; none for one that is not valid, in a    *)
(* build without assertions.                                               *)
utf8_encode(cp) ==
  CASE cp <= 127 -> <<cp>>
    [] 127 < cp /\ cp <= 2047 -> <<Leading2(cp), Continuing(cp, 1)>>
    [] 2047 < cp /\ cp <= 65535 /\ ~is_surrogate(cp) ->
         <<Leading3(cp), Continuing(cp, 64), Continuing(cp, 1)>>
    [] 65535 < cp /\ cp <= CODEPOINT_MAX ->
         <<Leading4(cp), Continuing(cp, 4096), Continuing(cp, 64), Continuing(cp, 1)>>
    [] OTHER -> <<>>

(* What a first byte announces: its bits, the continuation bytes that      *)
(* follow, and the least code point that needs so many.                    *)
Announces(bits, cont, bar) == [bits |-> bits, cont |-> cont, bar |-> bar]
IsLeader(b) == \/ b <= 127 \/ b \div 32 = 6 \/ b \div 16 = 14 \/ b \div 8 = 30
Leader(b) == CASE b \div 32 = 6  -> Announces(b % 32, 1, 128)
               [] b \div 16 = 14 -> Announces(b % 16, 2, 2048)
               [] b \div 8 = 30  -> Announces(b % 8, 3, 65536)
               [] OTHER          -> Announces(b, 0, 0)

Joined(bits, cont, bytes, at) ==
  CASE cont = 0 -> bits
    [] cont = 1 -> bits * 64 + LO_6_BITS(bytes[at + 1])
    [] cont = 2 -> (bits * 64 + LO_6_BITS(bytes[at + 1])) * 64 + LO_6_BITS(bytes[at + 2])
    [] cont = 3 -> ((bits * 64 + LO_6_BITS(bytes[at + 1])) * 64
                     + LO_6_BITS(bytes[at + 2])) * 64 + LO_6_BITS(bytes[at + 3])

Shortest(codepoint, bar) == codepoint >= bar

(* The length of the sequence that begins at bytes[at], of which count     *)
(* bytes may be read, or -1.  A byte is read only after those before it    *)
(* have been found to continue the sequence.                               *)
FollowedBy(bytes, at, cont) ==
  /\ cont >= 1 => IS_CONTINUATION(bytes[at + 1])
  /\ cont >= 2 => IS_CONTINUATION(bytes[at + 2])
  /\ cont >= 3 => IS_CONTINUATION(bytes[at + 3])

IsSequence(bytes, at, count) ==
  LET lead == Leader(bytes[at])
      codepoint == Joined(lead.bits, lead.cont, bytes, at)
  IN /\ IsLeader(bytes[at])
     /\ count >= 1 + lead.cont
     /\ FollowedBy(bytes, at, lead.cont)
     /\ Shortest(codepoint, lead.bar)
     /\ is_valid_codepoint(codepoint)

utf8_validate_sequence(bytes, at, count) ==
  IF IsSequence(bytes, at, count) THEN 1 + Leader(bytes[at]).cont ELSE -1

(* The mark is compared together with the NUL behind it in its literal.    *)
BYTE_ORDER_MARK == <<239, 187, 191, 0>>
utf8_bom_bytes(text) ==
  IF Len(text) >= Len(BYTE_ORDER_MARK) /\ SubSeq(text, 1, Len(BYTE_ORDER_MARK)) = BYTE_ORDER_MARK
  THEN Len(BYTE_ORDER_MARK) ELSE 0

-----------------------------------------------------------------------------
(* The reference: the table of well-formed byte sequences of the Unicode   *)
(* standard, for the n bytes from bytes[at] on.                            *)
Within(b, low, high) == low <= b /\ b <= high
Tailing(b) == Within(b, 128, 191)

WellFormed1(b1) == Within(b1, 0, 127)
WellFormed2(b1, b2) == Within(b1, 194, 223) /\ Tailing(b2)
WellFormed3(b1, b2, b3) ==
  /\ \/ b1 = 224 /\ Within(b2, 160, 191)
     \/ (Within(b1, 225, 236) \/ Within(b1, 238, 239)) /\ Tailing(b2)
     \/ b1 = 237 /\ Within(b2, 128, 159)
  /\ Tailing(b3)
WellFormed4(b1, b2, b3, b4) ==
  /\ \/ b1 = 240 /\ Within(b2, 144, 191)
     \/ Within(b1, 241, 243) /\ Tailing(b2)
     \/ b1 = 244 /\ Within(b2, 128, 143)
  /\ Tailing(b3) /\ Tailing(b4)

WellFormed(bytes, at, n) ==
  \/ n = 1 /\ WellFormed1(bytes[at])
  \/ n = 2 /\ WellFormed2(bytes[at], bytes[at + 1])
  \/ n = 3 /\ WellFormed3(bytes[at], bytes[at + 1], bytes[at + 2])
  \/ n = 4 /\ WellFormed4(bytes[at], bytes[at + 1], bytes[at + 2], bytes[at + 3])
=============================================================================
