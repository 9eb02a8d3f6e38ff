--------------------------- MODULE ScannersProofs ---------------------------
(***************************************************************************)
(* The validation and the encoding of UTF-8 against the Unicode standard,  *)
(* for every byte and every code point; and for every text, every base     *)
(* and every width: the scanners stay inside the text, rewriting a string  *)
(* in place touches neither what is still to be read nor what was          *)
(* returned, an integer is the sum of its digits, and the results are      *)
(* what the text says (Lexemes), from its first byte to its end or to the  *)
(* first error.                                                            *)
(***************************************************************************)
EXTENDS Lexemes, NaturalsInduction, WellFoundedInduction, TLAPS

(* What the first byte must be for a sequence of each length.              *)
LEMMA Leaders ==
  ASSUME NEW b \in Byte
  PROVE  /\ IsLeader(b) /\ Leader(b).cont = 0 <=> b <= 127
         /\ IsLeader(b) /\ Leader(b).cont = 1 <=> 192 <= b /\ b <= 223
         /\ IsLeader(b) /\ Leader(b).cont = 2 <=> 224 <= b /\ b <= 239
         /\ IsLeader(b) /\ Leader(b).cont = 3 <=> 240 <= b /\ b <= 247
         /\ b <= 127 => Leader(b) = Announces(b, 0, 0)
         /\ 192 <= b /\ b <= 223 => Leader(b) = Announces(b - 192, 1, 128)
         /\ 224 <= b /\ b <= 239 => Leader(b) = Announces(b - 224, 2, 2048)
         /\ 240 <= b /\ b <= 247 => Leader(b) = Announces(b - 240, 3, 65536)
<1>1. CASE b <= 127
  BY <1>1 DEF Byte, IsLeader, Leader, Announces
<1>2. CASE 128 <= b /\ b <= 191
  BY <1>2 DEF Byte, IsLeader, Leader, Announces
<1>3. CASE 192 <= b /\ b <= 223
  BY <1>3 DEF Byte, IsLeader, Leader, Announces
<1>4. CASE 224 <= b /\ b <= 239
  BY <1>4 DEF Byte, IsLeader, Leader, Announces
<1>5. CASE 240 <= b /\ b <= 247
  BY <1>5 DEF Byte, IsLeader, Leader, Announces
<1>6. CASE 248 <= b
  BY <1>6 DEF Byte, IsLeader, Leader, Announces
<1> QED BY <1>1, <1>2, <1>3, <1>4, <1>5, <1>6 DEF Byte

LEMMA Continuations ==
  ASSUME NEW b \in Byte
  PROVE  /\ IS_CONTINUATION(b) <=> Tailing(b)
         /\ Tailing(b) => LO_6_BITS(b) = b - 128
BY DEF Byte, IS_CONTINUATION, Tailing, Within, LO_6_BITS

LEMMA JoinedBytes ==
  ASSUME NEW bits, NEW octets, NEW at
  PROVE  /\ Joined(bits, 0, octets, at) = bits
         /\ Joined(bits, 1, octets, at) = bits * 64 + LO_6_BITS(octets[at + 1])
         /\ Joined(bits, 2, octets, at)
              = (bits * 64 + LO_6_BITS(octets[at + 1])) * 64 + LO_6_BITS(octets[at + 2])
         /\ Joined(bits, 3, octets, at)
              = ((bits * 64 + LO_6_BITS(octets[at + 1])) * 64
                  + LO_6_BITS(octets[at + 2])) * 64 + LO_6_BITS(octets[at + 3])
BY DEF Joined

(* The rows of the table for two, three and four bytes, as bounds on the   *)
(* code point that they spell.                                             *)
Spelled2(b1, b2) == (b1 - 192) * 64 + (b2 - 128)
Spelled3(b1, b2, b3) == ((b1 - 224) * 64 + (b2 - 128)) * 64 + (b3 - 128)
Spelled4(b1, b2, b3, b4) == (((b1 - 240) * 64 + (b2 - 128)) * 64 + (b3 - 128)) * 64 + (b4 - 128)
Proper2(cp) == cp >= 128 /\ is_valid_codepoint(cp)
Proper3(cp) == cp >= 2048 /\ is_valid_codepoint(cp)
Proper4(cp) == cp >= 65536 /\ is_valid_codepoint(cp)
Rest(b) == b \in 128..191

LEMMA Rows2 ==
  ASSUME NEW b1 \in Byte, b1 \div 32 = 6, NEW b2, Rest(b2)
  PROVE  Proper2(Spelled2(b1, b2)) <=> WellFormed2(b1, b2)
BY SMT DEF Proper2, Spelled2, Rest, Byte, is_valid_codepoint, is_surrogate, CODEPOINT_MAX,
     WellFormed2, Within, Tailing

LEMMA Rows3 ==
  ASSUME NEW b1 \in Byte, b1 \div 16 = 14, NEW b2, Rest(b2), NEW b3, Rest(b3)
  PROVE  Proper3(Spelled3(b1, b2, b3)) <=> WellFormed3(b1, b2, b3)
BY SMT DEF Proper3, Spelled3, Rest, Byte, is_valid_codepoint, is_surrogate, CODEPOINT_MAX,
     WellFormed3, Within, Tailing

LEMMA Rows4 ==
  ASSUME NEW b1 \in Byte, b1 \div 8 = 30, NEW b2, Rest(b2), NEW b3, Rest(b3), NEW b4, Rest(b4)
  PROVE  Proper4(Spelled4(b1, b2, b3, b4)) <=> WellFormed4(b1, b2, b3, b4)
BY SMT DEF Proper4, Spelled4, Rest, Byte, is_valid_codepoint, is_surrogate, CODEPOINT_MAX,
     WellFormed4, Within, Tailing

(* utf8_validate_sequence answers with a length exactly when that many     *)
(* bytes are there and are a row of the table of the Unicode standard:     *)
(* neither a surrogate, nor a longer encoding than needed, nor a code      *)
(* point beyond the last one passes, and nothing else is refused.          *)
THEOREM ValidatesTheTable ==
  ASSUME NEW octets, NEW at \in Nat, NEW have \in Nat,
         \A i \in 0..3 : octets[at + i] \in Byte,
         NEW n \in 1..4
  PROVE  (utf8_validate_sequence(octets, at, have) = n)
           <=> (n <= have /\ WellFormed(octets, at, n))
<1> DEFINE b1 == octets[at]  b2 == octets[at + 1]
           b3 == octets[at + 2]  b4 == octets[at + 3]
<1>0. b1 \in Byte /\ b2 \in Byte /\ b3 \in Byte /\ b4 \in Byte
  <2>1. 0 \in 0..3 /\ 1 \in 0..3 /\ 2 \in 0..3 /\ 3 \in 0..3 /\ at + 0 = at
    OBVIOUS
  <2> QED BY <2>1
<1>a. /\ IS_CONTINUATION(b2) <=> Tailing(b2)
      /\ IS_CONTINUATION(b3) <=> Tailing(b3)
      /\ IS_CONTINUATION(b4) <=> Tailing(b4)
      /\ Tailing(b2) => LO_6_BITS(b2) = b2 - 128
      /\ Tailing(b3) => LO_6_BITS(b3) = b3 - 128
      /\ Tailing(b4) => LO_6_BITS(b4) = b4 - 128
  BY <1>0, Continuations
<1> DEFINE lead == Leader(b1)
           codepoint == Joined(lead.bits, lead.cont, octets, at)
<1>1. CASE b1 <= 127
  <2>1. IsLeader(b1) /\ lead = Announces(b1, 0, 0)
    BY <1>0, <1>1, Leaders
  <2>2. codepoint = b1
    BY <2>1, JoinedBytes DEF Announces
  <2>3. IsSequence(octets, at, have) <=> have >= 1
    <3>1. FollowedBy(octets, at, lead.cont)
      BY <2>1 DEF Announces, FollowedBy
    <3>2. b1 >= 0 /\ is_valid_codepoint(b1)
      BY SMT, <1>0, <1>1 DEF Byte, is_valid_codepoint, is_surrogate, CODEPOINT_MAX
    <3> QED BY <1>0, <2>1, <2>2, <3>1, <3>2 DEF IsSequence, Announces, Shortest
  <2>4. WellFormed(octets, at, n) <=> n = 1
    BY <1>0, <1>1 DEF WellFormed, WellFormed1, WellFormed2, WellFormed3, WellFormed4, Within, Byte
  <2> QED BY <2>1, <2>3, <2>4 DEF utf8_validate_sequence, Announces
<1>2. CASE (128 <= b1 /\ b1 <= 191) \/ 248 <= b1
  <2>1. ~IsLeader(b1)
    BY <1>0, <1>2 DEF IsLeader, Byte
  <2>2. ~WellFormed(octets, at, n)
    BY <1>0, <1>2 DEF WellFormed, WellFormed1, WellFormed2, WellFormed3, WellFormed4, Within, Byte
  <2> QED BY <2>1, <2>2 DEF utf8_validate_sequence, IsSequence
<1>3. CASE 192 <= b1 /\ b1 <= 223
  <2>1. IsLeader(b1) /\ lead = Announces(b1 - 192, 1, 128)
    BY <1>0, <1>3, Leaders
  <2>2. Tailing(b2) => codepoint = Spelled2(b1, b2)
    BY <2>1, <1>a, JoinedBytes DEF Announces, Spelled2
  <2>3. FollowedBy(octets, at, lead.cont) <=> Tailing(b2)
    BY <2>1, <1>a DEF Announces, FollowedBy
  <2>4. IsSequence(octets, at, have) <=> have >= 2 /\ WellFormed2(b1, b2)
    <3>1. IsSequence(octets, at, have)
            <=> have >= 2 /\ Tailing(b2) /\ Proper2(codepoint)
      BY <1>0, <2>1, <2>3 DEF IsSequence, Announces, Shortest, Proper2
    <3>2. WellFormed2(b1, b2) => Tailing(b2)
      BY <1>0, <1>3 DEF WellFormed2, Within, Tailing, Byte
    <3>3. Tailing(b2) => (Proper2(codepoint) <=> WellFormed2(b1, b2))
      <4>1. b1 \div 32 = 6 /\ (Tailing(b2) => Rest(b2))
        BY <1>0, <1>3 DEF Tailing, Within, Byte, Rest
      <4> HIDE DEF codepoint, b1, b2, b3, b4
      <4> QED BY Zenon, <1>0, <2>2, <4>1, Rows2
    <3> QED BY <3>1, <3>2, <3>3
  <2>5. WellFormed(octets, at, n) <=> n = 2 /\ WellFormed2(b1, b2)
    BY <1>0, <1>3 DEF WellFormed, WellFormed1, WellFormed2, WellFormed3, WellFormed4, Within, Byte
  <2> QED BY <2>1, <2>4, <2>5 DEF utf8_validate_sequence, Announces
<1>4. CASE 224 <= b1 /\ b1 <= 239
  <2>1. IsLeader(b1) /\ lead = Announces(b1 - 224, 2, 2048)
    BY <1>0, <1>4, Leaders
  <2>2. Tailing(b2) /\ Tailing(b3) =>
          codepoint = Spelled3(b1, b2, b3)
    BY <2>1, <1>a, JoinedBytes DEF Announces, Spelled3
  <2>3. FollowedBy(octets, at, lead.cont)
          <=> Tailing(b2) /\ Tailing(b3)
    BY <2>1, <1>a DEF Announces, FollowedBy
  <2>4. IsSequence(octets, at, have) <=> have >= 3 /\ WellFormed3(b1, b2, b3)
    <3>1. IsSequence(octets, at, have)
            <=> /\ have >= 3
                /\ Tailing(b2) /\ Tailing(b3)
                /\ Proper3(codepoint)
      BY <1>0, <2>1, <2>3 DEF IsSequence, Announces, Shortest, Proper3
    <3>2. WellFormed3(b1, b2, b3) => Tailing(b2) /\ Tailing(b3)
      BY <1>0, <1>4 DEF WellFormed3, Within, Tailing, Byte
    <3>3. Tailing(b2) /\ Tailing(b3) => (Proper3(codepoint) <=> WellFormed3(b1, b2, b3))
      <4>1. b1 \div 16 = 14 /\ (Tailing(b2) /\ Tailing(b3) => Rest(b2) /\ Rest(b3))
        BY <1>0, <1>4 DEF Tailing, Within, Byte, Rest
      <4> HIDE DEF codepoint, b1, b2, b3, b4
      <4> QED BY Zenon, <1>0, <2>2, <4>1, Rows3
    <3> QED BY <3>1, <3>2, <3>3
  <2>5. WellFormed(octets, at, n) <=> n = 3 /\ WellFormed3(b1, b2, b3)
    BY <1>0, <1>4 DEF WellFormed, WellFormed1, WellFormed2, WellFormed3, WellFormed4, Within, Byte
  <2> QED BY <2>1, <2>4, <2>5 DEF utf8_validate_sequence, Announces
<1>5. CASE 240 <= b1 /\ b1 <= 247
  <2>1. IsLeader(b1) /\ lead = Announces(b1 - 240, 3, 65536)
    BY <1>0, <1>5, Leaders
  <2>2. Tailing(b2) /\ Tailing(b3) /\ Tailing(b4) =>
          codepoint = Spelled4(b1, b2, b3, b4)
    BY <2>1, <1>a, JoinedBytes DEF Announces, Spelled4
  <2>3. FollowedBy(octets, at, lead.cont)
          <=> Tailing(b2) /\ Tailing(b3) /\ Tailing(b4)
    BY <2>1, <1>a DEF Announces, FollowedBy
  <2>4. IsSequence(octets, at, have) <=> have >= 4 /\ WellFormed4(b1, b2, b3, b4)
    <3>1. IsSequence(octets, at, have)
            <=> /\ have >= 4
                /\ Tailing(b2) /\ Tailing(b3) /\ Tailing(b4)
                /\ Proper4(codepoint)
      BY <1>0, <2>1, <2>3 DEF IsSequence, Announces, Shortest, Proper4
    <3>2. WellFormed4(b1, b2, b3, b4) => Tailing(b2) /\ Tailing(b3) /\ Tailing(b4)
      BY <1>0, <1>5 DEF WellFormed4, Within, Tailing, Byte
    <3>3. Tailing(b2) /\ Tailing(b3) /\ Tailing(b4) => (Proper4(codepoint) <=> WellFormed4(b1, b2, b3, b4))
      <4>1. b1 \div 8 = 30 /\ (Tailing(b2) /\ Tailing(b3) /\ Tailing(b4) => Rest(b2) /\ Rest(b3) /\ Rest(b4))
        BY <1>0, <1>5 DEF Tailing, Within, Byte, Rest
      <4> HIDE DEF codepoint, b1, b2, b3, b4
      <4> QED BY Zenon, <1>0, <2>2, <4>1, Rows4
    <3> QED BY <3>1, <3>2, <3>3
  <2>5. WellFormed(octets, at, n) <=> n = 4 /\ WellFormed4(b1, b2, b3, b4)
    BY <1>0, <1>5 DEF WellFormed, WellFormed1, WellFormed2, WellFormed3, WellFormed4, Within, Byte
  <2> QED BY <2>1, <2>4, <2>5 DEF utf8_validate_sequence, Announces
<1> QED BY <1>0, <1>1, <1>2, <1>3, <1>4, <1>5 DEF Byte

(* Every code point that may be put is encoded as one well-formed          *)
(* sequence, and the sequence says nothing but that code point.            *)
THEOREM EncodesWellFormed ==
  ASSUME NEW cp \in Nat, is_valid_codepoint(cp)
  PROVE  LET s == utf8_encode(cp)
         IN /\ Len(s) \in 1..4
            /\ \A i \in 1..Len(s) : s[i] \in Byte
            /\ WellFormed(s, 1, Len(s))
            /\ Joined(Leader(s[1]).bits, Len(s) - 1, s, 1) = cp
<1> DEFINE s == utf8_encode(cp)
<1>0. cp <= CODEPOINT_MAX /\ ~is_surrogate(cp)
  BY DEF is_valid_codepoint
<1>1. CASE cp <= 127
  <2>1. s = <<cp>>
    BY <1>1 DEF utf8_encode
  <2>2. Leader(cp) = Announces(cp, 0, 0)
    <3>1. cp \in Byte
      BY <1>1 DEF Byte
    <3> QED BY <1>1, <3>1, Leaders
  <2> QED BY <1>1, <2>1, <2>2 DEF Byte, WellFormed, WellFormed1, Within, Joined, Announces
<1>2. CASE 127 < cp /\ cp <= 2047
  <2> DEFINE l == Leading2(cp)  c2 == Continuing(cp, 1)
  <2>1. s = <<l, c2>>
    BY <1>2 DEF utf8_encode
  <2>2. l \in 194..223 /\ c2 \in 128..191
    BY <1>2 DEF Leading2, Continuing, LO_6_BITS
  <2>3. (l - 192) * 64 + (c2 - 128) = cp
    BY <1>2 DEF Leading2, Continuing, LO_6_BITS
  <2> HIDE DEF l, c2
  <2>4. Leader(l) = Announces(l - 192, 1, 128)
    <3>1. l \div 32 = 6 /\ l % 32 = l - 192
      BY SMT, <2>2
    <3> QED BY SMT, <2>2, <3>1 DEF Leader
  <2>5. LO_6_BITS(c2) = c2 - 128
    BY <2>2 DEF LO_6_BITS
  <2>6. WellFormed2(l, c2)
    BY <2>2 DEF WellFormed2, Within, Tailing
  <2>7. Len(s) = 2 /\ s[1] = l /\ s[2] = c2 /\ l \in Byte /\ c2 \in Byte
    BY <2>1, <2>2 DEF Byte
  <2> HIDE DEF s
  <2>8. Joined(Leader(s[1]).bits, Len(s) - 1, s, 1) = cp
    <3>1. Leader(s[1]).bits = l - 192
      BY <2>4, <2>7 DEF Announces
    <3>2. Joined(l - 192, 1, s, 1) = (l - 192) * 64 + LO_6_BITS(s[2])
      BY JoinedBytes
    <3> QED BY <2>3, <2>5, <2>7, <3>1, <3>2
  <2>9. /\ Len(s) \in 1..4 /\ \A i \in 1..Len(s) : s[i] \in Byte
        /\ WellFormed(s, 1, Len(s))
    BY <2>6, <2>7 DEF WellFormed
  <2> QED BY Zenon, <2>8, <2>9 DEF s
<1>3. CASE 2047 < cp /\ cp <= 65535
  <2> DEFINE l == Leading3(cp)  c2 == Continuing(cp, 64)  c3 == Continuing(cp, 1)
  <2>1. s = <<l, c2, c3>>
    BY <1>0, <1>3 DEF utf8_encode
  <2>2. l \in 224..239 /\ c2 \in 128..191 /\ c3 \in 128..191
    BY <1>3 DEF Leading3, Continuing, LO_6_BITS
  <2>3. ((l - 224) * 64 + (c2 - 128)) * 64 + (c3 - 128) = cp
    BY <1>3 DEF Leading3, Continuing, LO_6_BITS
  <2> HIDE DEF l, c2, c3
  <2>4. Leader(l) = Announces(l - 224, 2, 2048)
    <3>1. l \div 32 # 6 /\ l \div 16 = 14 /\ l % 16 = l - 224
      BY SMT, <2>2
    <3> QED BY SMT, <2>2, <3>1 DEF Leader
  <2>5. LO_6_BITS(c2) = c2 - 128 /\ LO_6_BITS(c3) = c3 - 128
    BY <2>2 DEF LO_6_BITS
  <2>6. WellFormed3(l, c2, c3)
    BY <1>0, <1>3, <2>2, <2>3 DEF WellFormed3, Within, Tailing, is_surrogate
  <2>7. /\ Len(s) = 3 /\ s[1] = l /\ s[2] = c2 /\ s[3] = c3
        /\ l \in Byte /\ c2 \in Byte /\ c3 \in Byte
    BY <2>1, <2>2 DEF Byte
  <2> HIDE DEF s
  <2>8. Joined(Leader(s[1]).bits, Len(s) - 1, s, 1) = cp
    <3>1. Leader(s[1]).bits = l - 224
      BY <2>4, <2>7 DEF Announces
    <3>2. Joined(l - 224, 2, s, 1) = ((l - 224) * 64 + LO_6_BITS(s[2])) * 64 + LO_6_BITS(s[3])
      BY JoinedBytes
    <3> QED BY <2>3, <2>5, <2>7, <3>1, <3>2
  <2>9. /\ Len(s) \in 1..4 /\ \A i \in 1..Len(s) : s[i] \in Byte
        /\ WellFormed(s, 1, Len(s))
    BY <2>6, <2>7 DEF WellFormed
  <2> QED BY Zenon, <2>8, <2>9 DEF s
<1>4. CASE 65535 < cp
  <2> DEFINE l == Leading4(cp)  c2 == Continuing(cp, 4096)
             c3 == Continuing(cp, 64)  c4 == Continuing(cp, 1)
  <2>1. s = <<l, c2, c3, c4>>
    BY <1>0, <1>4 DEF utf8_encode
  <2>2. l \in 240..247 /\ c2 \in 128..191 /\ c3 \in 128..191 /\ c4 \in 128..191
    BY SMT, <1>0, <1>4 DEF Leading4, Continuing, LO_6_BITS, CODEPOINT_MAX
  <2>3. (((l - 240) * 64 + (c2 - 128)) * 64 + (c3 - 128)) * 64 + (c4 - 128) = cp
    BY SMT, <1>0, <1>4 DEF Leading4, Continuing, LO_6_BITS, CODEPOINT_MAX
  <2> HIDE DEF l, c2, c3, c4
  <2>4. Leader(l) = Announces(l - 240, 3, 65536)
    <3>1. l \div 32 # 6 /\ l \div 16 # 14 /\ l \div 8 = 30 /\ l % 8 = l - 240
      BY SMT, <2>2
    <3> QED BY SMT, <2>2, <3>1 DEF Leader
  <2>5. LO_6_BITS(c2) = c2 - 128 /\ LO_6_BITS(c3) = c3 - 128 /\ LO_6_BITS(c4) = c4 - 128
    BY <2>2 DEF LO_6_BITS
  <2>6. WellFormed4(l, c2, c3, c4)
    BY SMT, <1>0, <1>4, <2>2, <2>3 DEF WellFormed4, Within, Tailing, CODEPOINT_MAX
  <2>7. /\ Len(s) = 4 /\ s[1] = l /\ s[2] = c2 /\ s[3] = c3 /\ s[4] = c4
        /\ l \in Byte /\ c2 \in Byte /\ c3 \in Byte /\ c4 \in Byte
    BY <2>1, <2>2 DEF Byte
  <2> HIDE DEF s
  <2>8. Joined(Leader(s[1]).bits, Len(s) - 1, s, 1) = cp
    <3>1. Leader(s[1]).bits = l - 240
      BY <2>4, <2>7 DEF Announces
    <3>2. Joined(l - 240, 3, s, 1)
            = (((l - 240) * 64 + LO_6_BITS(s[2])) * 64 + LO_6_BITS(s[3])) * 64 + LO_6_BITS(s[4])
      BY JoinedBytes
    <3> QED BY <2>3, <2>5, <2>7, <3>1, <3>2
  <2>9. /\ Len(s) \in 1..4 /\ \A i \in 1..Len(s) : s[i] \in Byte
        /\ WellFormed(s, 1, Len(s))
    BY <2>6, <2>7 DEF WellFormed
  <2> QED BY Zenon, <2>8, <2>9 DEF s
<1> QED BY SMT, <1>0, <1>1, <1>2, <1>3, <1>4 DEF CODEPOINT_MAX
-----------------------------------------------------------------------------

Ordered == /\ string \in Nat /\ write \in Nat /\ mark \in Nat
           /\ string <= write /\ write <= mark /\ mark <= read

(* UnreadIntact and ReadInside with what they rest on: the text is bytes,  *)
(* and a NUL ends it.                                                      *)
Inv ==
  /\ count \in Nat /\ source \in [0..count -> Byte] /\ source[count] = 0
  /\ read \in Nat /\ ReadInside
  /\ \A i \in read..count : bytes[i] = source[i]
  /\ phase = "string" => Ordered

-----------------------------------------------------------------------------
LEMMA InitInv == Init => Inv
<1> SUFFICES ASSUME Init PROVE Inv
  OBVIOUS
<1>1. PICK n \in Nat : parser_set_bytes(SubSeq(Raw(text), 1, n)) /\ n <= Len(Raw(text))
  BY TextsAssumption DEF Init
<1> DEFINE t == SubSeq(Raw(text), 1, n)
           skip == utf8_bom_bytes(t)
<1>2. t \in Seq(Byte) /\ Len(t) = n
  BY <1>1, TextsAssumption DEF Init
<1>3. skip \in Nat /\ skip <= Len(t)
  BY <1>2 DEF utf8_bom_bytes, BYTE_ORDER_MARK
<1>4. count = Len(t) - skip /\ source = Copied(t) /\ bytes = source /\ read = 0
  BY <1>1 DEF parser_set_bytes
<1>5. count \in Nat /\ source = [i \in 0..count |-> IF i = count THEN 0 ELSE t[skip + i + 1]]
  BY <1>2, <1>3, <1>4 DEF Copied
<1>6. \A i \in 0..count : i # count => t[skip + i + 1] \in Byte
  BY <1>2, <1>3, <1>4
<1>7. source \in [0..count -> Byte] /\ source[count] = 0
  <2> HIDE DEF t, skip
  <2> DEFINE byte(i) == IF i = count THEN 0 ELSE t[skip + i + 1]
  <2>1. \A i \in 0..count : byte(i) \in Byte
    BY <1>6 DEF Byte
  <2>2. source = [i \in 0..count |-> byte(i)] /\ count \in 0..count /\ byte(count) = 0
    BY <1>5
  <2> HIDE DEF byte
  <2> QED BY <2>1, <2>2
<1> QED BY <1>4, <1>5, <1>7 DEF Inv, ReadInside, Init

(* A byte that is not NUL has a byte behind it.                            *)
LEMMA BeforeTheEnd ==
  ASSUME Inv, NEW k \in Nat, read <= k, k <= count, bytes[k] # 0
  PROVE  k + 1 <= count /\ bytes[k] \in Byte
BY DEF Inv

(* A step that moves the read position on over the text as it is.          *)
LEMMA Forward ==
  ASSUME Inv, UNCHANGED <<source, count, bytes>>,
         read' \in Nat, read <= read', ReadInside',
         phase' = "string" => Ordered'
  PROVE  Inv' /\ read <= read'
BY DEF Inv

-----------------------------------------------------------------------------
(* Blanks, comments, words and marks.                                      *)
LEMMA SpacesKeep ==
  ASSUME Inv, SkipSpace \/ StartComment \/ BlockComment \/ LineComment
  PROVE  Inv' /\ read <= read'
<1>0. read \in Nat /\ count \in Nat
  BY DEF Inv
<1>1. CASE SkipSpace
  <2>1. read <= count /\ bytes[read] # 0 /\ phase' = "space" /\ read' = read + 1
    BY <1>1 DEF SkipSpace, AtSpace, Spaces, Here, Continues, Inv, ReadInside
  <2>2. read + 1 <= count
    BY <1>0, <2>1, BeforeTheEnd
  <2>3. ReadInside' /\ UNCHANGED <<source, count, bytes>>
    BY <1>0, <1>1, <2>1, <2>2 DEF ReadInside, SkipSpace, Continues
  <2> QED BY <1>0, <2>1, <2>3, Forward
<1>2. CASE StartComment
  <2>1. read <= count /\ bytes[read] # 0
    BY <1>2 DEF StartComment, AtComment, Slash, Here, Inv, ReadInside
  <2>2. read + 1 <= count
    BY <1>0, <2>1, BeforeTheEnd
  <2>3. bytes[read + 1] = Star => read + 2 <= count
    BY <1>0, <2>2, BeforeTheEnd DEF Star
  <2>4. /\ UNCHANGED <<source, count, bytes>> /\ phase' # "string"
        /\ \/ bytes[read + 1] = Star /\ read' = read + 2
           \/ read' = read + 1
    BY <1>2 DEF StartComment, Continues, Throwing, throw_parse_error, CommentBody
  <2>5. read' \in Nat /\ read <= read' /\ ReadInside'
    BY <1>0, <2>2, <2>3, <2>4 DEF ReadInside
  <2> QED BY <2>4, <2>5, Forward
<1>3. CASE BlockComment
  <2>1. /\ UNCHANGED <<source, count, bytes>> /\ phase' # "string"
        /\ \/ read' = count
           \/ \E at \in read..count : Finds(Star, at) /\ read' = AfterStar(at)
    BY <1>3 DEF BlockComment, Continues, TextEnd
  <2>2. read <= count
    BY <1>3 DEF BlockComment, Inv, ReadInside
  <2>3. ASSUME NEW at \in read..count, Finds(Star, at)
        PROVE  AfterStar(at) \in read..count
    <3>1. at \in Nat /\ at + 1 <= count
      BY <1>0, <2>3, BeforeTheEnd DEF Finds, Star
    <3>2. bytes[at + 1] = Slash => at + 2 <= count
      BY <1>0, <3>1, BeforeTheEnd DEF Slash
    <3> QED BY <1>0, <3>1, <3>2 DEF AfterStar
  <2>4. read' \in Nat /\ read <= read' /\ ReadInside'
    BY <1>0, <2>1, <2>2, <2>3 DEF ReadInside
  <2> QED BY <2>1, <2>4, Forward
<1>4. CASE LineComment
  <2>1. /\ UNCHANGED <<source, count, bytes>> /\ phase' # "string"
        /\ read' \in read..count
    <3>1. read <= count
      BY <1>4 DEF LineComment, Inv, ReadInside
    <3> QED BY <1>0, <1>4, <3>1 DEF LineComment, Continues, TextEnd
  <2>2. read' \in Nat /\ read <= read' /\ ReadInside'
    BY <1>0, <2>1 DEF ReadInside
  <2> QED BY <2>1, <2>2, Forward
<1> QED BY <1>1, <1>2, <1>3, <1>4

(* The words that stand for something.                                     *)
LEMMA WordsSpelled ==
  ASSUME NEW word \in Words
  PROVE  /\ Len(word) \in 4..5 /\ \A i \in 1..Len(word) : word[i] # 0
<1>1. \/ word = <<116, 114, 117, 101>> \/ word = <<102, 97, 108, 115, 101>>
      \/ word = <<110, 117, 108, 108>>
  BY DEF Words
<1>2. CASE word = <<102, 97, 108, 115, 101>>
  <2>1. Len(word) = 5 /\ word[1] = 102 /\ word[2] = 97 /\ word[3] = 108 /\ word[4] = 115 /\ word[5] = 101
    BY <1>2
  <2>2. \A i \in 1..5 : word[i] # 0
    BY <2>1
  <2> QED BY <2>1, <2>2
<1>3. CASE word = <<116, 114, 117, 101>> \/ word = <<110, 117, 108, 108>>
  <2>1. /\ Len(word) = 4 /\ word[1] \in {116, 110} /\ word[2] \in {114, 117}
        /\ word[3] \in {117, 108} /\ word[4] \in {101, 108}
    BY <1>3
  <2>2. \A i \in 1..4 : word[i] # 0
    BY <2>1
  <2> QED BY <2>1, <2>2
<1> QED BY <1>1, <1>2, <1>3

LEMMA WordKeeps == ASSUME Inv, Word PROVE Inv' /\ read <= read'
<1>0. read \in Nat /\ count \in Nat /\ read <= count
  BY DEF Inv, Word, AtToken, ReadInside
<1>1. PICK word \in Words :
        /\ Matches(word, 1)
        /\ \/ Matches(word, Len(word)) /\ read' = read + Len(word) /\ phase' = "space"
           \/ \E bad \in 2..Len(word) :
                Matches(word, bad - 1) /\ read' = read + bad - 1 /\ phase' = "done"
  BY DEF Word, Return, throw_parse_error
<1>2. Len(word) \in 4..5 /\ \A i \in 1..Len(word) : word[i] # 0
  BY WordsSpelled
<1>3. ASSUME NEW n \in 1..Len(word), Matches(word, n)
      PROVE  read + n <= count
  <2>1. n \in 1..n /\ read + n - 1 \in Nat
    BY <1>0, <1>2
  <2>2. read + n - 1 <= count /\ bytes[read + n - 1] = word[n]
    BY <1>3, <2>1 DEF Matches
  <2> QED BY <1>0, <1>2, <2>1, <2>2, BeforeTheEnd
<1>4. read' \in Nat /\ read <= read' /\ ReadInside' /\ phase' # "string"
  <2>1. CASE Matches(word, Len(word)) /\ read' = read + Len(word) /\ phase' = "space"
    BY <1>0, <1>2, <1>3, <2>1 DEF ReadInside, Word
  <2>2. ASSUME NEW bad \in 2..Len(word), Matches(word, bad - 1), read' = read + bad - 1,
               phase' = "done"
        PROVE  read' \in Nat /\ read <= read' /\ ReadInside' /\ phase' # "string"
    <3>1. bad - 1 \in 1..Len(word)
      BY <1>2
    <3>2. read + (bad - 1) <= count
      BY <1>3, <2>2, <3>1
    <3> QED BY <1>0, <1>2, <2>2, <3>2 DEF ReadInside, Word
  <2> QED BY <1>1, <2>1, <2>2
<1>5. UNCHANGED <<source, count, bytes>>
  BY DEF Word
<1> QED BY <1>4, <1>5, Forward

LEMMA MarksKeep ==
  ASSUME Inv, Mark \/ End \/ Junk \/ String
  PROVE  Inv' /\ read <= read'
<1>0. read \in Nat /\ count \in Nat /\ read <= count
  BY DEF Inv, Mark, End, Junk, String, AtToken, ReadInside
<1>1. UNCHANGED <<source, count, bytes>> /\ (phase' = "string" => Ordered')
  BY <1>0 DEF Mark, End, Junk, String, Continues, Throwing, throw_parse_error, Return,
     StringStart, Ordered
<1>2. Here # 0 => read + 1 <= count
  BY <1>0, BeforeTheEnd DEF Here
<1>3. \/ Here # 0 /\ read' = read + 1
      \/ read' = read
  BY DEF Mark, Marks, End, Junk, String, Quote, Continues, Throwing, throw_parse_error
<1>4. read' \in Nat /\ read <= read' /\ ReadInside'
  BY <1>0, <1>1, <1>2, <1>3 DEF ReadInside
<1> QED BY <1>1, <1>4, Forward

-----------------------------------------------------------------------------
(* Numbers.                                                                *)
LEMMA NumbersKeep ==
  ASSUME Inv, Number \/ NumberNext
  PROVE  Inv' /\ read <= read'
<1>0. read \in Nat /\ count \in Nat /\ read <= count
  BY DEF Inv, Number, NumberNext, WholeDigit, Point, FractionDigit, Exponent, ExponentDigit,
     Integer, Compute, Strtod, AtToken, AtPoint, AtExponent, AtFinish, ReadInside
<1>a. \A k \in Nat : read <= k /\ k <= count /\ bytes[k] # 0 => k + 1 <= count
  BY BeforeTheEnd
<1>b. \A k \in Nat : Digit(bytes[k]) < Ten => bytes[k] # 0
  BY NumberAssumption DEF Digit, Zero
<1> SUFFICES /\ UNCHANGED <<source, count, bytes>> /\ phase' # "string"
             /\ read' \in Nat /\ read <= read' /\ ReadInside'
  BY Forward
<1>1. CASE Number
  <2> DEFINE first == IF Here = Minus THEN read + 1 ELSE read
  <2>1. /\ UNCHANGED <<source, count, bytes>> /\ phase' # "string" /\ read' = first + 1
        /\ Digit(bytes[first]) < Ten \/ phase' = "done"
    BY <1>1 DEF Number, parse_number, Goes, throw_parse_error, nothing_else
  <2>2. first \in Nat /\ read <= first /\ first <= count
    BY <1>0, <1>a DEF Here, Minus
  <2>3. Digit(bytes[first]) < Ten => first + 1 <= count
    BY <2>2, <1>a, <1>b
  <2> QED BY <1>0, <2>1, <2>2, <2>3 DEF ReadInside
<1>2. CASE WholeDigit \/ FractionDigit \/ ExponentDigit
  <2>1. /\ UNCHANGED <<source, count, bytes>> /\ phase' # "string" /\ read' = read + 1
        /\ Digit(bytes[read]) < Ten
    BY <1>2 DEF WholeDigit, FractionDigit, ExponentDigit, Goes, Throws, throw_parse_error,
       nothing_else, IsDigit, Here
  <2> QED BY <1>0, <1>a, <1>b, <2>1 DEF ReadInside
<1>3. CASE Point
  <2>1. /\ UNCHANGED <<source, count, bytes>> /\ phase' # "string" /\ read' = read + 1
        /\ bytes[read] # 0
    BY <1>3 DEF Point, Goes, Throws, throw_parse_error, nothing_else, PointByte, Here
  <2> QED BY <1>0, <1>a, <2>1 DEF ReadInside
<1>4. CASE Exponent
  <2>1. /\ UNCHANGED <<source, count, bytes>> /\ phase' # "string" /\ bytes[read] # 0
        /\ \/ bytes[read + 1] # 0 /\ read' = read + 2
           \/ read' = read + 1
    BY <1>4 DEF Exponent, Goes, Throws, throw_parse_error, nothing_else, E_e, Here, Minus, Plus
  <2>2. read + 1 <= count
    BY <1>0, <1>a, <2>1
  <2>3. bytes[read + 1] # 0 => read + 2 <= count
    BY <1>0, <1>a, <2>2
  <2> QED BY <1>0, <2>1, <2>2, <2>3 DEF ReadInside
<1>5. CASE Integer \/ Compute \/ Strtod
  <2>1. UNCHANGED <<source, count, bytes, read>> /\ phase' # "string"
    BY <1>5 DEF Integer, Compute, Strtod, Return, throw_parse_error, nothing_else
  <2> QED BY <1>0, <2>1 DEF ReadInside
<1> QED BY <1>1, <1>2, <1>3, <1>4, <1>5 DEF NumberNext

-----------------------------------------------------------------------------
(* Strings.                                                                *)
LEMMA MovedDown ==
  ASSUME Inv, phase = "string"
  PROVE  /\ MovedTo \in Nat /\ string <= MovedTo /\ MovedTo <= read
         /\ \A i \in read..count : Moved[i] = bytes[i]
<1>1. read \in Nat /\ count \in Nat /\ Ordered
  BY DEF Inv
<1>2. MovedTo \in Nat /\ string <= MovedTo /\ MovedTo <= read
  BY <1>1 DEF MovedTo, Ordered
<1>3. ASSUME NEW i \in read..count, mark # write
      PROVE  Moved[i] = bytes[i]
  <2>1. i \in 0..count /\ i \notin write..(write + (read - mark) - 1)
    BY <1>1, <1>3 DEF Ordered
  <2> QED BY <1>3, <2>1 DEF Moved
<1>4. mark = write => Moved = bytes
  BY DEF Moved
<1> QED BY <1>2, <1>3, <1>4

LEMMA HexInside ==
  ASSUME Inv, phase = "string", NEW at \in Nat, read <= at, at <= count
  PROVE  /\ HexRun(Moved, at) \in 0..4
         /\ at + HexRun(Moved, at) <= count
<1>1. read \in Nat /\ count \in Nat
  BY DEF Inv
<1>2. \A k \in Nat : read <= k /\ k <= count /\ IsHex(Moved[k]) => k + 1 <= count
  <2>1. \A k \in Nat : read <= k /\ k <= count => Moved[k] = bytes[k]
    BY <1>1, MovedDown
  <2>2. ~IsHex(0)
    BY DEF IsHex, Hex
  <2> QED BY <2>1, <2>2, BeforeTheEnd
<1>3. IsHex(Moved[at]) => at + 1 <= count
  BY <1>2
<1>4. IsHex(Moved[at]) /\ IsHex(Moved[at + 1]) => at + 2 <= count
  BY <1>1, <1>2, <1>3
<1>5. IsHex(Moved[at]) /\ IsHex(Moved[at + 1]) /\ IsHex(Moved[at + 2]) => at + 3 <= count
  BY <1>1, <1>2, <1>4
<1>6. IsHex(Moved[at]) /\ IsHex(Moved[at + 1]) /\ IsHex(Moved[at + 2]) /\ IsHex(Moved[at + 3])
        => at + 4 <= count
  BY <1>1, <1>2, <1>5
<1> QED BY <1>1, <1>3, <1>4, <1>5, <1>6 DEF HexRun

LEMMA EncodedLength ==
  /\ \A cp : Len(utf8_encode(cp)) \in 0..4
  /\ \A c \in EscapeLetters : Len(utf8_encode(escape[c])) = 1
<1>1. \A cp : Len(utf8_encode(cp)) \in 0..4
  BY DEF utf8_encode
<1>2. \A c \in EscapeLetters : escape[c] \in Nat /\ escape[c] <= 127
  BY DEF EscapeLetters, escape
<1>3. \A cp \in Nat : cp <= 127 => utf8_encode(cp) = <<cp>>
  BY DEF utf8_encode
<1> QED BY <1>1, <1>2, <1>3

(* An escape is never shorter than what it stands for, so that what is     *)
(* written ends at the next byte to be read, or before.                    *)
LEMMA EncodedKeeps ==
  ASSUME Inv, phase = "string", NEW codepoint, NEW length \in Nat,
         Encoded(codepoint, length),
         Len(utf8_encode(codepoint)) \in 0..length,
         read + length <= count
  PROVE  Inv' /\ read <= read'
<1> DEFINE n == Len(utf8_encode(codepoint))
<1>1. read \in Nat /\ count \in Nat /\ Ordered /\ n \in Nat /\ n <= length
  BY DEF Inv
<1>2. /\ bytes' = Put(Moved, MovedTo, utf8_encode(codepoint))
      /\ write' = MovedTo + n /\ read' = read + length /\ mark' = read + length
      /\ UNCHANGED <<source, count, string, phase>>
  BY DEF Encoded, mis_string_restart
<1>3. Ordered'
  BY <1>1, <1>2, MovedDown DEF Ordered
<1>4. ASSUME NEW i \in read'..count'
      PROVE  bytes'[i] = source'[i]
  <2>1. i \in 0..count /\ i \in read..count /\ i \notin MovedTo..(MovedTo + n - 1)
    BY <1>1, <1>2, MovedDown
  <2>2. bytes'[i] = Moved[i]
    BY <1>2, <2>1 DEF Put
  <2> QED BY <1>2, <2>1, <2>2, MovedDown DEF Inv
<1>5. ReadInside' /\ read' \in Nat
  BY <1>1, <1>2 DEF ReadInside
<1> QED BY <1>2, <1>3, <1>4, <1>5 DEF Inv

(* A step that ends the string; moving its bytes down is all it writes.    *)
LEMMA EndingKeeps ==
  ASSUME Inv, phase = "string", phase' # "string",
         UNCHANGED <<source, count>>, bytes' = Moved \/ bytes' = bytes,
         read' \in read..count
  PROVE  Inv' /\ read <= read'
<1>1. read \in Nat /\ count \in Nat
  BY DEF Inv
<1>2. \A i \in read..count : bytes'[i] = source[i]
  BY MovedDown DEF Inv
<1>3. ReadInside' /\ read' \in Nat /\ read <= read'
  BY <1>1 DEF ReadInside
<1> QED BY <1>1, <1>2, <1>3 DEF Inv

LEMMA StringsKeep == ASSUME Inv, StringNext PROVE Inv' /\ read <= read'
<1>0. phase = "string"
  BY DEF StringNext, Plain, Multibyte, BadSequence, Control, SimpleEscape, UnitEscape, PairEscape,
     BadEscape, Complete, AtHigh, AtUnit, AtEscape, NoEscape, ShortUnit, LowFirst, HighAlone,
     ShortSecond, BadSecond, InString
<1>1. read \in Nat /\ count \in Nat /\ read <= count /\ Ordered
  BY <1>0 DEF Inv, ReadInside
<1>a. \A k \in Nat : read <= k /\ k <= count /\ bytes[k] # 0 => k + 1 <= count
  BY BeforeTheEnd
<1>b. \A k \in Nat : read <= k /\ k <= count /\ Moved[k] # 0 => k + 1 <= count
  BY <1>0, <1>1, <1>a, MovedDown
<1>2. CASE Plain \/ Multibyte
  <2>1. UNCHANGED <<source, count, bytes, phase, string, write, mark>>
    BY <1>2 DEF Plain, Multibyte, Taking, pointers
  <2>2. read' \in read..count
    <3>1. CASE Plain
      <4>1. bytes[read] # 0 /\ read' = read + 1
        BY <3>1 DEF Plain, Taking, Here
      <4> QED BY <1>1, <1>a, <4>1
    <3>2. CASE Multibyte
      <4> DEFINE cont == Leader(bytes[read]).cont
      <4>1. bytes[read] # 0 /\ IsSequence(bytes, read, 4) /\ read' = read + (1 + cont)
        BY <3>2 DEF Multibyte, Taking, Here, Sequence, utf8_validate_sequence
      <4>2. cont \in 0..3
        BY DEF Leader, Announces
      <4>3. FollowedBy(bytes, read, cont)
        BY <4>1 DEF IsSequence
      <4>4. \A b : IS_CONTINUATION(b) => b # 0
        BY DEF IS_CONTINUATION
      <4> HIDE DEF cont
      <4>5. read + 1 <= count
        BY <1>1, <1>a, <4>1
      <4>6. cont >= 1 => read + 2 <= count
        BY <1>1, <1>a, <4>3, <4>4, <4>5 DEF FollowedBy
      <4>7. cont >= 2 => read + 3 <= count
        BY <1>1, <1>a, <4>2, <4>3, <4>4, <4>6 DEF FollowedBy
      <4>8. cont >= 3 => read + 4 <= count
        BY <1>1, <1>a, <4>2, <4>3, <4>4, <4>7 DEF FollowedBy
      <4> QED BY <1>1, <4>1, <4>2, <4>5, <4>6, <4>7, <4>8
    <3> QED BY <1>2, <3>1, <3>2
  <2>3. Ordered' /\ ReadInside' /\ read' \in Nat /\ read <= read'
    BY <1>1, <2>1, <2>2 DEF Ordered, ReadInside
  <2> QED BY <2>1, <2>3, Forward
<1>3. CASE BadSequence \/ Control
  <2>1. phase' # "string" /\ UNCHANGED <<source, count, bytes, read>>
    BY <1>3 DEF BadSequence, Control, Throw, throw_parse_error
  <2> QED BY <1>0, <1>1, <2>1, EndingKeeps
<1>4. CASE Complete
  <2>1. /\ phase' # "string" /\ UNCHANGED <<source, count>>
        /\ bytes' = Moved \/ bytes' = bytes
        /\ bytes[read] # 0 /\ read' = read + 1
    BY <1>4 DEF Complete, Return, Here, Quote
  <2>2. read' \in read..count
    BY <1>1, <1>a, <2>1
  <2> QED BY <1>0, <2>1, <2>2, EndingKeeps
<1>5. CASE AtEscape
  <2>1. read + 1 <= count
    BY <1>1, <1>5, <1>a DEF AtEscape, Here, Backslash
  <2>2. Moved[read + 1] # 0 => read + 2 <= count
    BY <1>1, <1>b, <2>1
  <2>3. AtUnit => /\ read + 2 <= count
                  /\ HexRun(Moved, read + 2) \in 0..4
                  /\ read + 2 + HexRun(Moved, read + 2) <= count
    BY <1>0, <1>1, <2>2, HexInside DEF AtUnit, Letter_u
  <2>4. AtUnit /\ HexDigits(Moved, read + 2) => read + 6 <= count
    BY <1>1, <2>3 DEF HexDigits
  <2>5. AtHigh /\ Moved[read + 6] # 0 => read + 7 <= count
    BY <1>1, <1>b, <2>4 DEF AtHigh
  <2>6. AtHigh /\ Follows => /\ read + 8 <= count
                             /\ HexRun(Moved, read + 8) \in 0..4
                             /\ read + 8 + HexRun(Moved, read + 8) <= count
    BY <1>0, <1>1, <1>b, <2>5, HexInside DEF Follows, Backslash, Letter_u
  <2>7. AtHigh /\ Follows /\ HexDigits(Moved, read + 8) => read + 12 <= count
    BY <1>1, <2>6 DEF HexDigits
  <2>8. CASE SimpleEscape
    <3> DEFINE c == Moved[read + 1]
    <3>1. c \in EscapeLetters /\ Encoded(escape[c], 2) /\ read + 2 <= count
      BY <2>2, <2>8 DEF SimpleEscape, EscapeLetters
    <3>2. Len(utf8_encode(escape[c])) \in 0..2
      BY <3>1, EncodedLength
    <3> HIDE DEF c
    <3> QED BY <1>0, <3>1, <3>2, EncodedKeeps
  <2>9. CASE UnitEscape
    <3> DEFINE cp == parse_hex4(Moved, read + 2)
    <3>1. Encoded(cp, 6) /\ read + 6 <= count
      BY <2>4, <2>9 DEF UnitEscape
    <3> HIDE DEF cp
    <3>2. Len(utf8_encode(cp)) \in 0..6
      BY EncodedLength
    <3> QED BY <1>0, <3>1, <3>2, EncodedKeeps
  <2>10. CASE PairEscape
    <3> DEFINE cp == Paired(parse_hex4(Moved, read + 2), parse_hex4(Moved, read + 8))
    <3>1. Encoded(cp, 12) /\ read + 12 <= count
      BY <2>7, <2>10 DEF PairEscape
    <3> HIDE DEF cp
    <3>2. Len(utf8_encode(cp)) \in 0..12
      BY EncodedLength
    <3> QED BY <1>0, <3>1, <3>2, EncodedKeeps
  <2>11. CASE BadEscape
    <3>1. phase' # "string" /\ UNCHANGED <<source, count>> /\ bytes' = Moved
      BY <2>11 DEF BadEscape, NoEscape, ShortUnit, LowFirst, HighAlone, ShortSecond, BadSecond,
         throw_parse_error
    <3>2. CASE NoEscape
      BY <1>1, <2>1, <3>1, <3>2, <1>0, EndingKeeps DEF NoEscape, throw_parse_error
    <3>3. CASE ShortUnit
      <4>1. read' \in read..count
        BY <1>1, <2>3, <3>3 DEF ShortUnit, throw_parse_error
      <4> QED BY <1>0, <3>1, <4>1, EndingKeeps
    <3>4. CASE LowFirst
      <4>1. read' \in read..count
        BY <1>1, <2>4, <3>4 DEF LowFirst, throw_parse_error
      <4> QED BY <1>0, <3>1, <4>1, EndingKeeps
    <3>5. CASE HighAlone
      <4>1. read + 6 <= count /\ (Moved[read + 6] = Backslash => read + 7 <= count)
        BY <2>4, <2>5, <3>5 DEF HighAlone, AtHigh, Backslash
      <4>2. read' \in read..count
        BY <1>1, <3>5, <4>1 DEF HighAlone, throw_parse_error
      <4> QED BY <1>0, <3>1, <4>2, EndingKeeps
    <3>6. CASE ShortSecond
      <4>1. read' \in read..count
        BY <1>1, <2>6, <3>6 DEF ShortSecond, throw_parse_error
      <4> QED BY <1>0, <3>1, <4>1, EndingKeeps
    <3>7. CASE BadSecond
      <4>1. read' \in read..count
        BY <1>1, <2>7, <3>7 DEF BadSecond, throw_parse_error
      <4> QED BY <1>0, <3>1, <4>1, EndingKeeps
    <3> QED BY <2>11, <3>2, <3>3, <3>4, <3>5, <3>6, <3>7 DEF BadEscape
  <2>12. SimpleEscape \/ UnitEscape \/ PairEscape \/ BadEscape
    BY <1>5 DEF StringNext, AtEscape, Plain, Multibyte, BadSequence, Control, Complete,
       Backslash, Quote
  <2> QED BY <2>8, <2>9, <2>10, <2>11, <2>12
<1>6. SimpleEscape \/ UnitEscape \/ PairEscape \/ BadEscape => AtEscape
  BY DEF SimpleEscape, UnitEscape, PairEscape, BadEscape, AtHigh, AtUnit, NoEscape, ShortUnit,
     LowFirst, HighAlone, ShortSecond, BadSecond
<1> QED BY <1>2, <1>3, <1>4, <1>5, <1>6 DEF StringNext

-----------------------------------------------------------------------------
(* Every step keeps the invariant, and none goes back.                     *)
LEMMA StepKeeps == ASSUME Inv, [Next]_vars PROVE Inv' /\ read <= read'
<1>1. CASE SkipSpace \/ StartComment \/ BlockComment \/ LineComment
  BY <1>1, SpacesKeep
<1>2. CASE Word
  BY <1>2, WordKeeps
<1>3. CASE Mark \/ End \/ Junk \/ String
  BY <1>3, MarksKeep
<1>4. CASE Number \/ NumberNext
  BY <1>4, NumbersKeep
<1>5. CASE StringNext
  BY <1>5, StringsKeep
<1>6. CASE UNCHANGED vars
  BY <1>6 DEF Inv, vars, stream, ReadInside, Ordered
<1> QED BY <1>1, <1>2, <1>3, <1>4, <1>5, <1>6 DEF Next

LEMMA InvHolds == Spec => []Inv
BY InitInv, StepKeeps, PTL DEF Spec

(* For every text: what a string is rewritten to never reaches a byte that *)
(* has not been read yet, whatever escapes it has and however it ends.     *)
THEOREM RewritingIsSafe == Spec => []UnreadIntact
<1>1. Inv => UnreadIntact
  BY DEF Inv, UnreadIntact, Ordered
<1> QED BY <1>1, InvHolds, PTL

(* For every text: no scanner goes on behind the NUL that ends it.         *)
THEOREM ReadsInside == Spec => []ReadInside
<1>1. Inv => ReadInside
  BY DEF Inv
<1> QED BY <1>1, InvHolds, PTL

-----------------------------------------------------------------------------
(* Results are appended and never touched again.                           *)
Listed(rs) == \E S : rs \in Seq(S)

LEMMA Appended ==
  ASSUME NEW rs, Listed(rs), NEW r
  PROVE  /\ Listed(Append(rs, r)) /\ Len(rs) \in Nat
         /\ Len(Append(rs, r)) = Len(rs) + 1
         /\ \A n \in 1..Len(rs) : Append(rs, r)[n] = rs[n]
         /\ Append(rs, r)[Len(rs) + 1] = r
<1>1. PICK S : rs \in Seq(S)
  BY DEF Listed
<1> DEFINE T == S \cup {r}
<1>2. rs \in Seq(T) /\ r \in T
  BY <1>1
<1> HIDE DEF T
<1>3. Append(rs, r) \in Seq(T)
  BY <1>2
<1> QED BY <1>2, <1>3 DEF Listed

Phases ==
  {"space", "block", "line", "string", "whole", "point", "fraction", "exponent", "done"}
Others == {"word", "integer", "real", "mark", "error"}

(* What a step returns, and where it leads.                                *)
Answers ==
  /\ phase' = phase \/ phase' \in Phases
  /\ \/ results' = results
     \/ \E r : results' = Append(results, r) /\ r.type \in Others

LEMMA ThrowAnswers == ASSUME NEW code, NEW at, throw_parse_error(code, at) PROVE Answers
<1>1. Error(code, at).type \in Others
  BY DEF Error, Others
<1> QED BY <1>1 DEF throw_parse_error, Answers, Phases

LEMMA ReturnAnswers == ASSUME NEW type \in Others, NEW value, Return(type, value) PROVE Answers
<1>1. Value(type, value).type \in Others
  BY DEF Value
<1> QED BY <1>1 DEF Return, Answers, Phases

LEMMA SpacesAnswer ==
  ASSUME SkipSpace \/ StartComment \/ BlockComment \/ LineComment
  PROVE  Answers
<1>1. ASSUME NEW to \in Phases, NEW at, Continues(to, at) PROVE Answers
  BY <1>1 DEF Continues, Answers
<1>2. CASE SkipSpace
  BY <1>1, <1>2 DEF SkipSpace, Phases
<1>3. CASE StartComment
  BY <1>1, <1>3, ThrowAnswers DEF StartComment, Throwing, Phases
<1>4. CASE BlockComment
  <2>1. ASSUME NEW at, NEW to,
               Continues(CASE bytes[at + 1] = Slash -> "space"
                           [] bytes[at + 1] # Slash /\ AfterStar(at) = count -> "done"
                           [] OTHER -> "block", AfterStar(at))
        PROVE  Answers
    <3> DEFINE go == CASE bytes[at + 1] = Slash -> "space"
                       [] bytes[at + 1] # Slash /\ AfterStar(at) = count -> "done"
                       [] OTHER -> "block"
    <3>1. go \in Phases
      BY DEF Phases
    <3> HIDE DEF go
    <3>2. Continues(go, AfterStar(at))
      BY <2>1 DEF go
    <3> QED BY <1>1, <3>1, <3>2
  <2> QED BY <1>1, <1>4, <2>1 DEF BlockComment, Phases
<1>5. CASE LineComment
  BY <1>1, <1>5 DEF LineComment, Phases
<1> QED BY <1>2, <1>3, <1>4, <1>5

LEMMA TokensAnswer == ASSUME Word \/ Mark \/ End \/ Junk \/ String PROVE Answers
<1>1. CASE Word
  <2>1. PICK word \in Words :
          \/ Return("word", word)
          \/ \E bad : throw_parse_error("UNEXPECTED", read + bad - 1)
    BY <1>1 DEF Word
  <2> QED BY <2>1, ThrowAnswers, ReturnAnswers DEF Others
<1>2. CASE Mark
  BY <1>2, ReturnAnswers DEF Mark, Others
<1>3. CASE End \/ String
  BY <1>3 DEF End, String, Continues, Answers, Phases
<1>4. CASE Junk
  BY <1>4, ThrowAnswers DEF Junk, Throwing
<1> QED BY <1>1, <1>2, <1>3, <1>4

LEMMA NumbersAnswer == ASSUME Number \/ NumberNext PROVE Answers
<1>1. ASSUME NEW to \in Phases, NEW at, NEW n, Goes(to, at, n) PROVE Answers
  BY <1>1 DEF Goes, Answers
<1>2. ASSUME NEW code, NEW at, Throws(code, at) PROVE Answers
  BY <1>2, ThrowAnswers DEF Throws
<1>3. CASE Number
  <2>1. CASE \E to \in {"whole", "point"} : \E at, n : Goes(to, at, n)
    BY <1>1, <2>1 DEF Phases
  <2>2. CASE \E at : throw_parse_error("NUMBER", at)
    BY <2>2, ThrowAnswers
  <2> QED BY <1>3, <2>1, <2>2 DEF Number, parse_number
<1>4. CASE WholeDigit \/ FractionDigit
  BY <1>1, <1>4 DEF WholeDigit, FractionDigit, Phases
<1>5. CASE Point \/ Exponent \/ ExponentDigit
  BY <1>1, <1>2, <1>5 DEF Point, Exponent, ExponentDigit, Phases
<1>6. CASE Integer \/ Compute \/ Strtod
  BY <1>6, ReturnAnswers, ThrowAnswers DEF Integer, Compute, Strtod, Others
<1> QED BY <1>3, <1>4, <1>5, <1>6 DEF NumberNext

LEMMA StringsAnswer == ASSUME StringNext PROVE Complete \/ Answers
<1>1. CASE Plain \/ Multibyte
  BY <1>1 DEF Plain, Multibyte, Taking, Answers
<1>2. CASE BadSequence \/ Control
  BY <1>2, ThrowAnswers DEF BadSequence, Control, Throw
<1>3. CASE SimpleEscape \/ UnitEscape \/ PairEscape
  <2>1. phase' = phase /\ results' = results
    BY <1>3 DEF SimpleEscape, UnitEscape, PairEscape, Encoded
  <2> QED BY <2>1 DEF Answers
<1>4. CASE BadEscape
  BY <1>4, ThrowAnswers DEF BadEscape, NoEscape, ShortUnit, LowFirst, HighAlone, ShortSecond, BadSecond
<1> QED BY <1>1, <1>2, <1>3, <1>4 DEF StringNext

LEMMA StepAnswers == ASSUME [Next]_vars PROVE Complete \/ Answers
<1>1. UNCHANGED vars => Answers
  BY DEF vars, Answers
<1> QED BY <1>1, SpacesAnswer, TokensAnswer, NumbersAnswer, StringsAnswer DEF Next

-----------------------------------------------------------------------------
(* What is written into the copy are bytes, and only where the string that *)
(* is being read begins or behind.                                         *)
BytesOf(b) == b \in [0..count -> Byte]
SameBelow(b) == \A i \in 0..count : i < string => b[i] = bytes[i]

LEMMA MovedBytes ==
  ASSUME Inv, phase = "string", BytesOf(bytes)
  PROVE  BytesOf(Moved) /\ SameBelow(Moved)
<1>1. read \in Nat /\ count \in Nat /\ Ordered /\ read <= count
  BY DEF Inv, ReadInside
<1>2. CASE mark = write
  <2>1. Moved = bytes
    BY <1>2 DEF Moved
  <2> QED BY <2>1 DEF SameBelow
<1>3. CASE mark # write
  <2> DEFINE at == write..(write + (read - mark) - 1)
             byte(i) == IF i \in at THEN bytes[i - write + mark] ELSE bytes[i]
  <2>1. ASSUME NEW i \in 0..count
        PROVE  byte(i) \in Byte /\ (i < string => byte(i) = bytes[i])
    <3>1. i \in at => i - write + mark \in 0..count /\ ~(i < string)
      BY <1>1 DEF Ordered
    <3> QED BY <3>1 DEF BytesOf
  <2>2. Moved = [i \in 0..count |-> byte(i)]
    BY <1>3 DEF Moved
  <2> HIDE DEF byte
  <2> QED BY <2>1, <2>2 DEF BytesOf, SameBelow
<1> QED BY <1>2, <1>3

LEMMA EncodedBytes ==
  ASSUME Inv, phase = "string", BytesOf(bytes),
         NEW cp \in Nat, is_valid_codepoint(cp), NEW length, Encoded(cp, length)
  PROVE  BytesOf(bytes') /\ SameBelow(bytes')
<1> DEFINE s == utf8_encode(cp)
<1>1. count \in Nat /\ MovedTo \in Nat /\ string <= MovedTo /\ string \in Nat
  BY MovedDown DEF Inv, Ordered
<1>2. Len(s) \in 1..4 /\ \A i \in 1..Len(s) : s[i] \in Byte
  BY EncodesWellFormed
<1>3. BytesOf(Moved) /\ SameBelow(Moved)
  BY MovedBytes
<1>4. bytes' = Put(Moved, MovedTo, s)
  BY DEF Encoded
<1> HIDE DEF s
<1> DEFINE n == Len(s)
           byte(i) == IF i \in MovedTo..(MovedTo + n - 1) THEN s[i - MovedTo + 1] ELSE Moved[i]
<1>5. ASSUME NEW i \in 0..count
      PROVE  byte(i) \in Byte /\ (i < string => byte(i) = bytes[i])
  <2>1. i \in MovedTo..(MovedTo + n - 1) => i - MovedTo + 1 \in 1..n /\ ~(i < string)
    BY <1>1, <1>2
  <2>2. Moved[i] \in Byte /\ (i < string => Moved[i] = bytes[i])
    BY <1>3 DEF BytesOf, SameBelow
  <2> QED BY <1>2, <2>1, <2>2
<1>6. bytes' = [i \in 0..count |-> byte(i)]
  BY <1>4 DEF Put
<1> HIDE DEF byte
<1> QED BY <1>5, <1>6 DEF BytesOf, SameBelow

LEMMA HexValue ==
  ASSUME NEW b, NEW at, HexDigits(b, at)
  PROVE  parse_hex4(b, at) \in Nat /\ parse_hex4(b, at) <= 65535
<1>1. IsHex(b[at]) /\ IsHex(b[at + 1]) /\ IsHex(b[at + 2]) /\ IsHex(b[at + 3])
  BY DEF HexDigits, HexRun
<1>2. \A c : IsHex(c) => Hex[c] \in 0..15
  BY DEF IsHex, Hex
<1> DEFINE h1 == Hex[b[at]]  h2 == Hex[b[at + 1]]  h3 == Hex[b[at + 2]]  h4 == Hex[b[at + 3]]
<1>3. h1 \in 0..15 /\ h2 \in 0..15 /\ h3 \in 0..15 /\ h4 \in 0..15
  BY <1>1, <1>2
<1>4. parse_hex4(b, at) = ((h1 * 16 + h2) * 16 + h3) * 16 + h4
  BY DEF parse_hex4
<1> HIDE DEF h1, h2, h3, h4
<1> QED BY <1>3, <1>4

LEMMA BytesKept ==
  ASSUME Inv, phase = "string", BytesOf(bytes), StringNext
  PROVE  /\ UNCHANGED <<source, count, string>>
         /\ BytesOf(bytes') /\ SameBelow(bytes')
<1>1. CASE Plain \/ Multibyte \/ BadSequence \/ Control
  <2>1. UNCHANGED <<source, count, string, bytes>>
    BY <1>1 DEF Plain, Multibyte, BadSequence, Control, Taking, Throw, pointers
  <2> QED BY <2>1 DEF SameBelow
<1>2. CASE SimpleEscape
  <2> DEFINE cp == escape[Moved[read + 1]]
  <2>1. Encoded(cp, 2) /\ cp \in Nat /\ cp <= 127
    BY <1>2 DEF SimpleEscape, EscapeLetters, escape
  <2> HIDE DEF cp
  <2>2. is_valid_codepoint(cp)
    BY <2>1 DEF is_valid_codepoint, is_surrogate, CODEPOINT_MAX
  <2> QED BY <2>1, <2>2, EncodedBytes DEF Encoded
<1>3. CASE UnitEscape
  <2> DEFINE cp == parse_hex4(Moved, read + 2)
  <2>1. Encoded(cp, 6) /\ ~is_surrogate(cp) /\ HexDigits(Moved, read + 2)
    BY <1>3 DEF UnitEscape
  <2>2. cp \in Nat /\ cp <= 65535
    BY <2>1, HexValue
  <2> HIDE DEF cp
  <2>3. is_valid_codepoint(cp)
    BY <2>1, <2>2 DEF is_valid_codepoint, CODEPOINT_MAX
  <2> QED BY <2>1, <2>2, <2>3, EncodedBytes DEF Encoded
<1>4. CASE PairEscape
  <2> DEFINE high == parse_hex4(Moved, read + 2)  low == parse_hex4(Moved, read + 8)
  <2>1. /\ Encoded(Paired(high, low), 12) /\ High(high) /\ Low(low)
        /\ HexDigits(Moved, read + 2) /\ HexDigits(Moved, read + 8)
    BY <1>4 DEF PairEscape, AtHigh
  <2>2. high \in Nat /\ high <= 65535 /\ low \in Nat /\ low <= 65535
    BY <2>1, HexValue
  <2> HIDE DEF high, low
  <2>3. /\ Paired(high, low) \in Nat /\ 65536 <= Paired(high, low)
        /\ Paired(high, low) <= 1114111
    BY <2>1, <2>2 DEF Paired, High, Low
  <2>4. Paired(high, low) \in Nat /\ is_valid_codepoint(Paired(high, low))
    BY <2>3 DEF is_valid_codepoint, is_surrogate, CODEPOINT_MAX
  <2> QED BY <2>1, <2>4, EncodedBytes DEF Encoded
<1>5. CASE BadEscape
  <2>1. UNCHANGED <<source, count, string>> /\ bytes' = Moved
    BY <1>5 DEF BadEscape
  <2> QED BY <2>1, MovedBytes DEF SameBelow, BytesOf
<1>6. CASE Complete
  <2>1. UNCHANGED <<source, count, string>> /\ bytes' \in {Moved, bytes}
    BY <1>6 DEF Complete
  <2> QED BY <2>1, MovedBytes DEF SameBelow, BytesOf
<1> QED BY <1>1, <1>2, <1>3, <1>4, <1>5, <1>6 DEF StringNext

(* Only the scanner of strings writes.                                     *)
LEMMA BytesStay ==
  ASSUME [Next]_vars, ~StringNext
  PROVE  /\ UNCHANGED <<source, count, bytes>>
         /\ String \/ UNCHANGED pointers
BY DEF Next, vars, stream, pointers, SkipSpace, StartComment, BlockComment, LineComment, Word, String,
   Number, Mark, End, Junk, NumberNext, WholeDigit, Point, FractionDigit, Exponent, ExponentDigit,
   Integer, Compute, Strtod, Continues, Throwing, Goes, Throws, parse_number, nothing_else

LEMMA StringNextInString == StringNext => phase = "string"
BY DEF StringNext, Plain, Multibyte, BadSequence, Control, SimpleEscape, UnitEscape, PairEscape,
   BadEscape, Complete, AtHigh, AtUnit, AtEscape, NoEscape, ShortUnit, LowFirst, HighAlone,
   ShortSecond, BadSecond, InString

-----------------------------------------------------------------------------
(* The sum of the digits is the value of an uint64_t.                      *)
Uint64 == 0..(2 * LongMax + 1)
SumFits(n) == "sum" \in DOMAIN n /\ n.sum \in Uint64

(* The sum can hold one digit.                                             *)
LEMMA DigitFits == Ten <= 2 * (LongMax + 1)
<1>1. 1 \in 1..MaxSigDigits /\ Ten * 1 = Ten
  BY NumberAssumption
<1>2. Ten ^ 1 = Ten * Ten ^ (1 - 1) /\ Ten ^ 1 <= 2 * (LongMax + 1)
  BY <1>1, NumberAssumption
<1>3. 1 - 1 = 0
  OBVIOUS
<1>4. Ten ^ 1 = Ten
  BY <1>1, <1>2, <1>3, NumberAssumption
<1> QED BY <1>2, <1>4

LEMMA WrappedFits == ASSUME NEW n \in Int PROVE Wrapped(n) \in Uint64
<1>1. 2 * (LongMax + 1) \in Nat \ {0}
  BY NumberAssumption
<1>2. n % (2 * (LongMax + 1)) \in 0..(2 * (LongMax + 1) - 1)
  BY <1>1
<1> QED BY <1>2, NumberAssumption DEF Wrapped, Uint64

LEMMA SumKept ==
  ASSUME Inv, BytesOf(bytes), SumFits(number), [Next]_vars
  PROVE  SumFits(number')
<1>1. \A b \in Byte : Digit(b) \in Nat
  BY DEF Digit, Byte, Zero
<1>2. count \in Nat /\ read \in Nat
  BY DEF Inv
<1>3. read <= count => bytes[read] \in Byte
  BY <1>2 DEF BytesOf
<1>4. CASE Number
  <2> DEFINE first == IF Here = Minus THEN read + 1 ELSE read  d == Digit(bytes[first])
             digits == IF d # 0 THEN 1 ELSE 0
             n == [NoNumber EXCEPT !.negative = (Here = Minus), !.sum = d, !.sig_digits = digits]
  <2>1. read <= count
    BY <1>4, <1>2 DEF Number, AtToken, Inv, ReadInside
  <2>2. first \in 0..count
    <3>1. Here = Minus => read + 1 <= count
      BY <1>2, <2>1, BeforeTheEnd DEF Here, Minus
    <3> QED BY <1>2, <2>1, <3>1
  <2>3. d \in Nat
    BY <1>1, <2>2 DEF BytesOf
  <2>4. number' = number \/ (d < Ten /\ number' = n)
    BY <1>4 DEF Number, parse_number, Goes
  <2>5. "sum" \in DOMAIN n /\ n.sum = d
    BY DEF NoNumber
  <2> HIDE DEF n, d
  <2>6. d < Ten => d \in Uint64
    BY <2>3, DigitFits, NumberAssumption DEF Uint64
  <2> QED BY <2>4, <2>5, <2>6 DEF SumFits
<1>5. CASE WholeDigit \/ FractionDigit
  <2>1. read <= count
    BY <1>5 DEF WholeDigit, FractionDigit, Inv, ReadInside
  <2>2. Digit(Here) \in Nat /\ number.sum \in Nat /\ Ten \in Nat
    BY <1>1, <1>3, <2>1, NumberAssumption DEF Here, SumFits, Uint64
  <2>3. Wrapped(number.sum * Ten + Digit(Here)) \in Uint64
        /\ Wrapped(Ten * number.sum + Digit(Here)) \in Uint64
    <3>1. number.sum * Ten + Digit(Here) \in Int /\ Ten * number.sum + Digit(Here) \in Int
      BY <2>2
    <3> QED BY <3>1, WrappedFits
  <2>4. CASE WholeDigit
    BY <2>3, <2>4 DEF WholeDigit, Goes, SumFits
  <2>5. CASE FractionDigit
    BY <2>3, <2>5 DEF FractionDigit, Goes, SumFits
  <2> QED BY <1>5, <2>4, <2>5
<1>6. CASE Point \/ Exponent \/ ExponentDigit
  BY <1>6 DEF Point, Exponent, ExponentDigit, Goes, Throws, SumFits
<1>7. CASE /\ ~(WholeDigit \/ FractionDigit \/ Point \/ Exponent \/ ExponentDigit)
           /\ ~Number
  <2>1. number' = number
    BY <1>7 DEF Next, NumberNext, vars, SkipSpace, StartComment, BlockComment, LineComment, Word,
       String, Mark, End, Junk, Integer, Compute, Strtod, Continues, Throwing
  <2> QED BY <2>1
<1> QED BY <1>4, <1>5, <1>6, <1>7

-----------------------------------------------------------------------------
(* How far the strings that have been returned may reach.                  *)
Frontier == IF phase = "string" THEN string ELSE read

Behind(r, at) ==
  r.value[1] \in Nat /\ r.value[2] \in Nat /\ r.value[1] + r.value[2] <= at

Typed ==
  /\ Inv
  /\ BytesOf(bytes)
  /\ {string, write, mark} \subseteq 0..count
  /\ phase \in Phases
  /\ SumFits(number)
  /\ Listed(results)
  /\ \A n \in 1..Len(results) :
       /\ results[n].type \in Others \cup {"string"}
       /\ results[n].type = "string" => Behind(results[n], Frontier)

LEMMA FrontierGrows ==
  ASSUME Inv, [Next]_vars
  PROVE  Frontier \in Nat /\ Frontier' \in Nat /\ Frontier <= Frontier'
<1>1. Inv' /\ read <= read' /\ read \in Nat /\ read' \in Nat
  BY StepKeeps DEF Inv
<1>2. CASE phase = "string"
  <2>1. string \in Nat /\ string <= read
    BY <1>1, <1>2 DEF Inv, Ordered
  <2>2. phase' = "string" => string' = string
    <3>1. StringNext => string' = string
      BY <1>2 DEF StringNext, Plain, Multibyte, BadSequence, Control, SimpleEscape, UnitEscape,
         PairEscape, BadEscape, Complete, Taking, Throw, Encoded, pointers
    <3>2. ~String
      BY <1>2 DEF String, AtToken
    <3> QED BY <3>1, <3>2, BytesStay DEF pointers
  <2> QED BY <1>1, <1>2, <2>1, <2>2 DEF Frontier
<1>3. CASE phase # "string"
  <2>1. phase' = "string" => string' = read + 1
    <3>1. CASE String
      BY <3>1 DEF String, StringStart
    <3>2. CASE ~String
      BY <1>3, <3>2, StringNextInString DEF Next, vars, stream, SkipSpace, StartComment, BlockComment,
         LineComment, Word, Number, Mark, End, Junk, NumberNext, WholeDigit, Point, FractionDigit,
         Exponent, ExponentDigit, Integer, Compute, Strtod, Continues, Throwing, Goes, Throws,
         parse_number, Return, throw_parse_error
    <3> QED BY <3>1, <3>2
  <2> QED BY <1>1, <1>3, <2>1 DEF Frontier
<1> QED BY <1>2, <1>3

LEMMA InitTyped == Init => Typed
<1> SUFFICES ASSUME Init PROVE Typed
  OBVIOUS
<1>1. Inv
  BY InitInv
<1>2. bytes = source /\ string = 0 /\ write = 0 /\ mark = 0 /\ phase = "space" /\ results = <<>>
      /\ number = NoNumber
  BY DEF Init, parser_set_bytes
<1>3. BytesOf(bytes) /\ {string, write, mark} \subseteq 0..count
  BY <1>1, <1>2 DEF Inv, BytesOf
<1>4. SumFits(number)
  BY <1>2, NumberAssumption DEF SumFits, NoNumber, Uint64
<1>5. results \in Seq({}) /\ Len(results) = 0
  BY <1>2
<1> QED BY <1>1, <1>2, <1>3, <1>4, <1>5 DEF Typed, Listed, Phases

LEMMA PointersKept ==
  ASSUME Typed, [Next]_vars
  PROVE  {string', write', mark'} \subseteq 0..count'
<1>1. Inv /\ Inv' /\ read \in Nat /\ count \in Nat /\ {string, write, mark} \subseteq 0..count
  BY StepKeeps DEF Typed, Inv
<1>2. CASE phase' = "string"
  BY <1>1, <1>2 DEF Inv, Ordered, ReadInside
<1>3. CASE StringNext /\ phase' # "string"
  <2>1. phase = "string" /\ read <= count
    BY <1>1, <1>3, StringNextInString DEF Inv, ReadInside
  <2>2. UNCHANGED <<count, string, mark>> /\ write' \in {write, MovedTo}
    BY <1>3, <2>1 DEF StringNext, Plain, Multibyte, BadSequence, Control, SimpleEscape, UnitEscape,
       PairEscape, BadEscape, Complete, Taking, Throw, Encoded, pointers
  <2>3. MovedTo \in 0..count
    BY <1>1, <2>1, MovedDown
  <2> QED BY <1>1, <2>2, <2>3
<1>4. CASE ~StringNext /\ phase' # "string"
  <2>1. ~String
    BY <1>4 DEF String
  <2> QED BY <1>1, <1>4, <2>1, BytesStay DEF pointers
<1> QED BY <1>2, <1>3, <1>4

(* A string that is returned lies behind those before it, and in front of  *)
(* what is still to be read.                                               *)
LEMMA ResultsKept ==
  ASSUME Typed, [Next]_vars
  PROVE  /\ Listed(results') /\ Len(results) \in Nat /\ Len(results) <= Len(results')
         /\ \A n \in 1..Len(results) : results'[n] = results[n]
         /\ \A n \in 1..Len(results') :
              /\ results'[n].type \in Others \cup {"string"}
              /\ results'[n].type = "string" => Behind(results'[n], Frontier')
<1>1. Listed(results) /\ Inv /\ Inv'
  BY StepKeeps DEF Typed
<1>2. Frontier \in Nat /\ Frontier' \in Nat /\ Frontier <= Frontier'
  BY <1>1, FrontierGrows
<1>3. Len(results) \in Nat
  BY <1>1, Appended
<1>4. \A n \in 1..Len(results) :
        /\ results[n].type \in Others \cup {"string"}
        /\ results[n].type = "string" => Behind(results[n], Frontier')
  <2>1. \A r : Behind(r, Frontier) => Behind(r, Frontier')
    <3> DEFINE f == Frontier  g == Frontier'
    <3>1. f \in Nat /\ g \in Nat /\ f <= g
      BY <1>2
    <3> HIDE DEF f, g
    <3>2. \A r : Behind(r, f) => Behind(r, g)
      BY <3>1 DEF Behind
    <3> QED BY <3>2 DEF f, g
  <2> QED BY <2>1 DEF Typed
<1>5. ASSUME NEW r, results' = Append(results, r), r.type \in Others \cup {"string"},
             r.type = "string" => Behind(r, Frontier')
      PROVE  /\ Listed(results') /\ Len(results) <= Len(results')
             /\ \A n \in 1..Len(results) : results'[n] = results[n]
             /\ \A n \in 1..Len(results') :
                  /\ results'[n].type \in Others \cup {"string"}
                  /\ results'[n].type = "string" => Behind(results'[n], Frontier')
  <2>1. /\ Listed(results') /\ Len(results') = Len(results) + 1
        /\ \A n \in 1..Len(results) : results'[n] = results[n]
        /\ results'[Len(results) + 1] = r
    BY <1>1, <1>5, Appended
  <2>2. ASSUME NEW n \in 1..Len(results')
        PROVE  /\ results'[n].type \in Others \cup {"string"}
               /\ results'[n].type = "string" => Behind(results'[n], Frontier')
    <3>1. CASE n \in 1..Len(results)
      BY <1>4, <2>1, <3>1
    <3>2. CASE n = Len(results) + 1
      BY <1>5, <2>1, <3>2
    <3> QED BY <1>3, <2>1, <3>1, <3>2
  <2> QED BY <1>3, <2>1, <2>2
<1>6. CASE Complete
  <2>1. phase = "string"
    BY <1>6 DEF Complete, InString
  <2>2. /\ string \in Nat /\ string <= read /\ read \in Nat
        /\ MovedTo \in Nat /\ string <= MovedTo /\ MovedTo <= read
    BY <1>1, <2>1, MovedDown DEF Inv, Ordered
  <2>3. PICK n \in {read - string, MovedTo - string} : Return("string", <<string, n>>)
    BY <1>6 DEF Complete
  <2> DEFINE r == Value("string", <<string, n>>)
  <2>4. results' = Append(results, r) /\ Frontier' = read + 1
    BY <1>6, <2>3 DEF Return, Complete, Frontier
  <2>5. r.type = "string" /\ r.value[1] = string /\ r.value[2] = n
    BY DEF Value
  <2>6. n \in Nat /\ string + n <= read + 1
    BY <2>2, <2>3
  <2> HIDE DEF r
  <2>7. Behind(r, Frontier')
    BY <2>2, <2>4, <2>5, <2>6 DEF Behind
  <2> QED BY <1>3, <1>5, <2>4, <2>5, <2>7
<1>7. CASE Answers
  <2>1. CASE results' = results
    BY <1>1, <1>3, <1>4, <2>1
  <2>2. ASSUME NEW r, results' = Append(results, r), r.type \in Others
        PROVE  r.type \in Others \cup {"string"} /\ r.type # "string"
    BY <2>2 DEF Others
  <2> QED BY <1>3, <1>5, <1>7, <2>1, <2>2 DEF Answers
<1> QED BY <1>6, <1>7, StepAnswers

LEMMA StepTyped == ASSUME Typed, [Next]_vars PROVE Typed'
<1>1. Inv' /\ Inv
  BY StepKeeps DEF Typed
<1>2. BytesOf(bytes)'
  <2>1. CASE StringNext
    <3>1. phase = "string"
      BY <2>1, StringNextInString
    <3>2. BytesOf(bytes') /\ count' = count
      BY <1>1, <2>1, <3>1, BytesKept DEF Typed
    <3> QED BY <3>2 DEF BytesOf
  <2>2. CASE ~StringNext
    BY <2>2, BytesStay DEF Typed, BytesOf
  <2> QED BY <2>1, <2>2
<1>3. phase' \in Phases
  <2>1. Complete => phase' = "space"
    BY DEF Complete, Return
  <2> QED BY <2>1, StepAnswers DEF Answers, Typed, Phases
<1>4. SumFits(number')
  BY <1>1, SumKept DEF Typed
<1>5. SumFits(number)'
  BY <1>4 DEF SumFits
<1>6. Listed(results)'
  BY ResultsKept DEF Listed
<1> QED BY <1>1, <1>2, <1>3, <1>5, <1>6, PointersKept, ResultsKept DEF Typed, Behind

LEMMA TypedHolds == Spec => []Typed
BY InitTyped, StepTyped, PTL DEF Spec

(* For every text the copy stays bytes, the pointers of the input stream   *)
(* stay in it, and no sum of digits exceeds its 64 bits.                   *)
THEOREM TypeCorrect == Spec => []TypeOK
<1>1. Typed => TypeOK
  BY DEF Typed, TypeOK, BytesOf, SumFits, Uint64, Phases, Others, Inv, ReadInside
<1> QED BY <1>1, TypedHolds, PTL

-----------------------------------------------------------------------------
(* A string that was returned points into the copy, which the scanners go  *)
(* on rewriting: no later step changes its bytes, nor the result.          *)
StringsKept ==
  \A n \in 1..Len(results) :
    /\ n \in 1..Len(results') /\ results'[n] = results[n]
    /\ results[n].type = "string" =>
         \A i \in results[n].value[1]..(results[n].value[1] + results[n].value[2] - 1) :
           bytes'[i] = bytes[i]

LEMMA StringsAreKept == ASSUME Typed, [Next]_vars PROVE StringsKept
<1>1. ASSUME NEW n \in 1..Len(results), results[n].type = "string",
             NEW i \in results[n].value[1]..(results[n].value[1] + results[n].value[2] - 1)
      PROVE  bytes'[i] = bytes[i]
  <2>1. i \in Nat /\ i < Frontier
    <3>1. Behind(results[n], Frontier) /\ Frontier \in Nat
      BY <1>1, FrontierGrows DEF Typed
    <3> QED BY <3>1 DEF Behind
  <2>2. CASE StringNext
    <3>1. phase = "string" /\ Inv
      BY <2>2, StringNextInString DEF Typed
    <3>2. i < string /\ i \in 0..count
      <4>1. string \in 0..count /\ count \in Nat /\ Frontier = string
        BY <3>1 DEF Typed, Frontier, Inv
      <4> QED BY <2>1, <4>1
    <3> QED BY <2>2, <3>1, <3>2, BytesKept DEF Typed, SameBelow
  <2>3. CASE ~StringNext
    BY <2>3, BytesStay
  <2> QED BY <2>2, <2>3
<1>2. ASSUME NEW n \in 1..Len(results)
      PROVE  n \in 1..Len(results') /\ results'[n] = results[n]
  <2>1. Len(results) \in Nat /\ Len(results) <= Len(results') /\ Len(results') \in Nat
    BY ResultsKept, Appended DEF Typed
  <2> QED BY <2>1, ResultsKept
<1> QED BY <1>1, <1>2 DEF StringsKept

THEOREM StringsStay == Spec => [][StringsKept]_vars
<1>1. Typed /\ [Next]_vars => [StringsKept]_vars
  BY StringsAreKept
<1> QED BY <1>1, TypedHolds, PTL DEF Spec

-----------------------------------------------------------------------------
(* Negating the unsigned sum wraps around, and what is stored is the sum   *)
(* with its sign.                                                          *)
LEMMA IntegerIsSigned ==
  ASSUME Typed, Integer
  PROVE  /\ results' = Append(results, Value("integer", <<IF number.negative THEN -number.sum ELSE number.sum>>))
         /\ phase' = "space" /\ read' = read
<1>1. number.sum \in Nat /\ LongMax \in Nat
  BY NumberAssumption DEF Typed, SumFits, Uint64
<1>2. FitsLong(number)
  BY DEF Integer, Double
<1> DEFINE m == 2 * (LongMax + 1)
<1>3. m \in Nat \ {0}
  BY <1>1
<1>4. CASE number.negative
  <2>1. number.sum <= LongMax + 1
    BY <1>2, <1>4 DEF FitsLong
  <2>2. Wrapped(-number.sum) = IF number.sum = 0 THEN 0 ELSE m - number.sum
    BY <1>1, <1>3, <2>1 DEF Wrapped
  <2>3. Signed(number) = -number.sum
    BY <1>1, <1>4, <2>1, <2>2 DEF Signed
  <2> QED BY <1>4, <2>3 DEF Integer, Return
<1>5. CASE ~number.negative
  <2>1. number.sum <= LongMax
    BY <1>2, <1>5 DEF FitsLong
  <2>2. Signed(number) = number.sum
    BY <1>1, <1>5, <2>1 DEF Signed
  <2> QED BY <1>5, <2>2 DEF Integer, Return
<1> QED BY <1>4, <1>5

(* An integer is the sum of its digits with its sign, also the least one,  *)
(* whose magnitude is no long: negating the unsigned sum wraps around.     *)
IntegerKept ==
  Integer =>
    results' = Append(results, Value("integer", <<IF number.negative THEN -number.sum ELSE number.sum>>))

THEOREM IntegersKeepTheirSum == Spec => [][IntegerKept]_vars
<1>1. Typed /\ Next => IntegerKept
  BY IntegerIsSigned DEF IntegerKept
<1>2. Typed /\ [Next]_vars => [IntegerKept]_vars
  BY <1>1
<1> QED BY <1>2, TypedHolds, PTL DEF Spec

-----------------------------------------------------------------------------
(* What a string stands for (Lexemes): at every step of the string         *)
(* scanner what it has taken of the text decodes into what it has          *)
(* written, or is about to move down.                                      *)

(* Decoding goes on from where it was, over a copy that is the same so far.*)
SameOn(b, c, first, last) == \A i \in Nat : first <= i /\ i < last => c[i] = b[i]

LEMMA DecodesBy ==
  ASSUME NEW from, NEW to, NEW first, NEW last, NEW copy, NEW n \in Nat,
         NEW cut \in [0..n -> from..to], NEW put \in [0..n -> first..last],
         cut[0] = from, cut[n] = to, put[0] = first, put[n] = last,
         \A k \in 0..(n - 1) : StandsFor(cut[k], cut[k + 1], copy, put[k], put[k + 1])
  PROVE  Decodes(from, to, copy, first, last)
<1> SUFFICES \E m \in Nat : \E c \in [0..m -> from..to], p \in [0..m -> first..last] :
    /\ c[0] = from /\ c[m] = to /\ p[0] = first /\ p[m] = last
    /\ \A k \in 0..(m - 1) : StandsFor(c[k], c[k + 1], copy, p[k], p[k + 1])
  BY DEF Decodes
<1> WITNESS n \in Nat
<1> WITNESS cut \in [0..n -> from..to], put \in [0..n -> first..last]
<1> QED OBVIOUS

LEMMA DecodesNothing ==
  ASSUME NEW from \in Nat, NEW first \in Nat, NEW copy
  PROVE  Decodes(from, from, copy, first, first)
<1> DEFINE cut == [k \in 0..0 |-> from]  put == [k \in 0..0 |-> first]
<1>1. cut \in [0..0 -> from..from] /\ put \in [0..0 -> first..first]
  OBVIOUS
<1>2. cut[0] = from /\ put[0] = first
  OBVIOUS
<1> HIDE DEF cut, put
<1>3. \A k \in 0..(0 - 1) : StandsFor(cut[k], cut[k + 1], copy, put[k], put[k + 1])
  OBVIOUS
<1> QED BY <1>1, <1>2, <1>3, DecodesBy

LEMMA SpelledLength == \A cp : Len(utf8_encode(cp)) \in 0..4
BY EncodedLength

LEMMA StandsElsewhere ==
  ASSUME NEW a \in Nat, NEW b \in Nat, NEW first \in Nat, NEW last \in Nat,
         NEW c \in first..last, NEW d \in first..last,
         NEW copy, NEW other, SameOn(copy, other, first, last),
         StandsFor(a, b, copy, c, d)
  PROVE  StandsFor(a, b, other, c, d)
<1>1. \A i \in Nat : c <= i /\ i < d => other[i] = copy[i]
  BY DEF SameOn
<1>2. \A byte : Holds(copy, c, d, byte) => Holds(other, c, d, byte)
  BY <1>1 DEF Holds
<1>3. ASSUME NEW cp, HoldsPoint(copy, c, d, cp) PROVE HoldsPoint(other, c, d, cp)
  <2> DEFINE s == utf8_encode(cp)
  <2>1. Len(s) \in 0..4 /\ d = c + Len(s) /\ \A k \in 1..Len(s) : copy[c + k - 1] = s[k]
    BY <1>3, SpelledLength DEF HoldsPoint
  <2> HIDE DEF s
  <2>2. ASSUME NEW k \in 1..Len(s) PROVE other[c + k - 1] = s[k]
    <3>1. c \in Nat /\ c + k - 1 \in Nat /\ c <= c + k - 1 /\ c + k - 1 < d
      BY <2>1
    <3> QED BY <1>1, <2>1, <3>1
  <2> QED BY <2>1, <2>2 DEF s, HoldsPoint
<1>4. WholeSequence(a, b, copy, c, d) => WholeSequence(a, b, other, c, d)
  BY <1>1 DEF WholeSequence
<1> QED BY <1>2, <1>3, <1>4 DEF StandsFor, AsItIs, Letter, OneUnit, TwoUnits

LEMMA DecodesElsewhere ==
  ASSUME NEW from \in Nat, NEW to \in Nat, NEW first \in Nat, NEW last \in Nat,
         NEW copy, NEW other, SameOn(copy, other, first, last),
         Decodes(from, to, copy, first, last)
  PROVE  Decodes(from, to, other, first, last)
<1>0. PICK n \in Nat : \E cut \in [0..n -> from..to], put \in [0..n -> first..last] :
        /\ cut[0] = from /\ cut[n] = to /\ put[0] = first /\ put[n] = last
        /\ \A k \in 0..(n - 1) : StandsFor(cut[k], cut[k + 1], copy, put[k], put[k + 1])
  BY DEF Decodes
<1>1. PICK cut \in [0..n -> from..to], put \in [0..n -> first..last] :
        /\ cut[0] = from /\ cut[n] = to /\ put[0] = first /\ put[n] = last
        /\ \A k \in 0..(n - 1) : StandsFor(cut[k], cut[k + 1], copy, put[k], put[k + 1])
  BY <1>0
<1>2. ASSUME NEW k \in 0..(n - 1)
      PROVE  StandsFor(cut[k], cut[k + 1], other, put[k], put[k + 1])
  <2>1. /\ cut[k] \in Nat /\ cut[k + 1] \in Nat
        /\ put[k] \in first..last /\ put[k + 1] \in first..last
    BY <1>1
  <2> QED BY <1>1, <2>1, StandsElsewhere
<1> QED BY <1>1, <1>2 DEF Decodes

LEMMA DecodesOn ==
  ASSUME NEW from \in Nat, NEW to \in Nat, NEW first \in Nat, NEW last \in Nat, NEW copy,
         Decodes(from, to, copy, first, last),
         NEW b \in Nat, to <= b, NEW d \in Nat, last <= d,
         StandsFor(to, b, copy, last, d)
  PROVE  Decodes(from, b, copy, first, d)
<1>0. PICK n \in Nat : \E cut \in [0..n -> from..to], put \in [0..n -> first..last] :
        /\ cut[0] = from /\ cut[n] = to /\ put[0] = first /\ put[n] = last
        /\ \A k \in 0..(n - 1) : StandsFor(cut[k], cut[k + 1], copy, put[k], put[k + 1])
  BY DEF Decodes
<1>1. PICK cut \in [0..n -> from..to], put \in [0..n -> first..last] :
        /\ cut[0] = from /\ cut[n] = to /\ put[0] = first /\ put[n] = last
        /\ \A k \in 0..(n - 1) : StandsFor(cut[k], cut[k + 1], copy, put[k], put[k + 1])
  BY <1>0
<1> DEFINE cut2 == [k \in 0..(n + 1) |-> IF k = n + 1 THEN b ELSE cut[k]]
           put2 == [k \in 0..(n + 1) |-> IF k = n + 1 THEN d ELSE put[k]]
<1>2. from <= to /\ first <= last
  BY <1>1
<1>3. cut2 \in [0..(n + 1) -> from..b] /\ put2 \in [0..(n + 1) -> first..d]
  BY <1>1, <1>2
<1>4. \A k \in 0..n : cut2[k] = cut[k] /\ put2[k] = put[k]
  OBVIOUS
<1>5. cut2[n + 1] = b /\ put2[n + 1] = d
  OBVIOUS
<1> HIDE DEF cut2, put2
<1>6. ASSUME NEW k \in 0..n
      PROVE  StandsFor(cut2[k], cut2[k + 1], copy, put2[k], put2[k + 1])
  <2>1. CASE k = n
    BY <1>1, <1>4, <1>5, <2>1
  <2>2. CASE k # n
    <3>1. k \in 0..(n - 1) /\ k + 1 \in 0..n
      BY <2>2
    <3> QED BY <1>1, <1>4, <3>1
  <2> QED BY <2>1, <2>2
<1>7. n + 1 \in Nat /\ (n + 1) - 1 = n /\ cut2[0] = from /\ put2[0] = first
  BY <1>1, <1>4
<1>8. \A k \in 0..((n + 1) - 1) : StandsFor(cut2[k], cut2[k + 1], copy, put2[k], put2[k + 1])
  BY <1>6, <1>7
<1> DEFINE N == n + 1
<1>9. N \in Nat /\ cut2 \in [0..N -> from..b] /\ put2 \in [0..N -> first..d]
  BY <1>3, <1>7
<1>10. /\ cut2[0] = from /\ cut2[N] = b /\ put2[0] = first /\ put2[N] = d
       /\ \A k \in 0..(N - 1) : StandsFor(cut2[k], cut2[k + 1], copy, put2[k], put2[k + 1])
  BY <1>5, <1>7, <1>8
<1> HIDE DEF N
<1> QED BY <1>9, <1>10, DecodesBy

-----------------------------------------------------------------------------
(* What the string is so far: the bytes in front of MovedTo, once moved.   *)
Taken == Decodes(string, read, Moved, string, MovedTo)

LEMMA TakingMoves ==
  ASSUME Inv, phase = "string", NEW n \in Nat, Taking(read + n), read + n <= count
  PROVE  /\ MovedTo' = MovedTo + n
         /\ SameOn(Moved, Moved', string, MovedTo)
         /\ \A i \in Nat : i < n => Moved'[MovedTo + i] = bytes[read + i]
<1>1. read \in Nat /\ count \in Nat /\ Ordered
  BY DEF Inv
<1>2. read' = read + n /\ UNCHANGED <<count, bytes, string, write, mark>>
  BY DEF Taking, pointers
<1>3. MovedTo \in Nat /\ string <= MovedTo /\ MovedTo <= read
  BY MovedDown
<1>4. MovedTo' = MovedTo + n
  BY <1>1, <1>2 DEF MovedTo, Ordered
<1>5. CASE mark = write
  BY <1>1, <1>2, <1>4, <1>5 DEF Moved, MovedTo, SameOn
<1>6. CASE mark # write
  <2> DEFINE byte(i, end) == IF i \in write..(write + (end - mark) - 1)
                             THEN bytes[i - write + mark] ELSE bytes[i]
  <2>a. Moved = [i \in 0..count |-> byte(i, read)]
    BY <1>6 DEF Moved
  <2>b. Moved' = [i \in 0..count |-> byte(i, read + n)]
    BY <1>2, <1>6 DEF Moved
  <2>1. \A i \in 0..count : Moved[i] = byte(i, read) /\ Moved'[i] = byte(i, read + n)
    <3> HIDE DEF byte
    <3> QED BY <2>a, <2>b
  <2>2. MovedTo = write + (read - mark) /\ MovedTo + n <= count
    BY <1>1, <1>3, <1>6 DEF MovedTo
  <2>3. \A i \in Nat : i < MovedTo => Moved'[i] = Moved[i]
    BY <1>1, <2>1, <2>2 DEF Ordered
  <2>4. ASSUME NEW i \in Nat, i < n PROVE Moved'[MovedTo + i] = bytes[read + i]
    <3>1. /\ MovedTo + i \in 0..count
          /\ byte(MovedTo + i, read + n) = bytes[read + i]
      BY <1>1, <2>2, <2>4 DEF Ordered
    <3> QED BY <2>1, <3>1
  <2> QED BY <1>4, <2>3, <2>4 DEF SameOn
<1> QED BY <1>5, <1>6

LEMMA EncodedMoves ==
  ASSUME Inv, phase = "string", NEW codepoint, NEW length \in Nat,
         Encoded(codepoint, length), read + length <= count,
         Len(utf8_encode(codepoint)) <= length
  PROVE  /\ SameOn(Moved, Moved', string, MovedTo)
         /\ HoldsPoint(Moved', MovedTo, MovedTo', codepoint)
<1> DEFINE s == utf8_encode(codepoint)
<1>1. read \in Nat /\ count \in Nat /\ Ordered /\ Len(s) \in Nat
  BY SpelledLength DEF Inv
<1>2. /\ bytes' = Put(Moved, MovedTo, s) /\ write' = MovedTo + Len(s)
      /\ read' = read + length /\ mark' = read + length
      /\ UNCHANGED <<count, string>>
  BY DEF Encoded, mis_string_restart
<1>3. MovedTo \in Nat /\ string <= MovedTo /\ MovedTo <= read
  BY MovedDown
<1>4. Len(s) <= length
  OBVIOUS
<1> HIDE DEF s
<1>5. MovedTo' = MovedTo + Len(s)
  BY <1>1, <1>2, <1>3 DEF MovedTo
<1>6. \A i \in 0..count : Moved'[i] = bytes'[i]
  BY <1>1, <1>2, <1>3 DEF Moved, Put
<1>7. \A i \in 0..count :
        bytes'[i] = IF i \in MovedTo..(MovedTo + Len(s) - 1) THEN s[i - MovedTo + 1] ELSE Moved[i]
  BY <1>2 DEF Put
<1>8. ASSUME NEW i \in Nat, i < MovedTo PROVE Moved'[i] = Moved[i]
  BY <1>1, <1>3, <1>6, <1>7, <1>8
<1>9. ASSUME NEW k \in 1..Len(s) PROVE Moved'[MovedTo + k - 1] = s[k]
  <2>1. /\ MovedTo + k - 1 \in 0..count /\ MovedTo + k - 1 \in MovedTo..(MovedTo + Len(s) - 1)
        /\ (MovedTo + k - 1) - MovedTo + 1 = k
    BY <1>1, <1>3, <1>4
  <2> QED BY <1>6, <1>7, <2>1
<1> QED BY <1>5, <1>8, <1>9 DEF SameOn, HoldsPoint, s

-----------------------------------------------------------------------------
LEMMA SourceKept ==
  ASSUME [Next]_vars
  PROVE  UNCHANGED <<source, count, validate_utf8, allow_comments>>
<1>1. CASE StringNext /\ UNCHANGED <<number, text, allow_comments>>
  <2>1. UNCHANGED <<source, count, validate_utf8>>
    BY <1>1 DEF StringNext, Plain, Multibyte, BadSequence, Control, SimpleEscape, UnitEscape, PairEscape,
       BadEscape, Complete, Taking, Throw, Encoded
  <2> QED BY <1>1, <2>1
<1>2. CASE SkipSpace \/ StartComment \/ BlockComment \/ LineComment \/ End \/ Junk
  BY <1>2 DEF SkipSpace, StartComment, BlockComment, LineComment, End, Junk, Continues, Throwing, flags
<1>3. CASE Word \/ String \/ Number \/ Mark \/ (NumberNext /\ UNCHANGED flags)
  <2>1. UNCHANGED flags
    BY <1>3 DEF Word, String, Number, Mark
  <2>2. ~StringNext
    BY <1>3, StringNextInString DEF Word, String, Number, Mark, AtToken, NumberNext, WholeDigit, Point,
       FractionDigit, Exponent, ExponentDigit, Integer, Compute, Strtod, AtFinish, AtExponent, AtPoint
  <2> QED BY <2>1, <2>2, BytesStay DEF flags
<1>4. CASE UNCHANGED vars
  BY <1>4 DEF vars, stream
<1> QED BY <1>1, <1>2, <1>3, <1>4 DEF Next

(* A sequence that the NUL behind the text cuts short is none.             *)
LEMMA EndsAtNul ==
  ASSUME NEW b, NEW o, NEW at \in Nat, NEW end \in Nat, at < end, b[end] = 0,
         \A i \in at..end : o[i] = b[i]
  PROVE  /\ utf8_validate_sequence(b, at, 4) = utf8_validate_sequence(o, at, 4)
         /\ \A n \in 1..4 : WellFormed(b, at, n) <=> WellFormed(o, at, n)
<1>1. o[at] = b[at] /\ o[at + 1] = b[at + 1]
  BY at \in at..end, at + 1 \in at..end
<1>2. o[at + 2] = b[at + 2] \/ (o[at + 1] = 0 /\ b[at + 1] = 0)
  <2>1. CASE end = at + 1
    BY <1>1, <2>1
  <2>2. CASE end # at + 1
    BY <2>2, at + 2 \in at..end
  <2> QED BY <2>1, <2>2
<1>3. o[at + 3] = b[at + 3] \/ (o[at + 1] = 0 /\ b[at + 1] = 0) \/ (o[at + 2] = 0 /\ b[at + 2] = 0)
  <2>1. CASE end = at + 1 \/ end = at + 2
    <3>1. end = at + 2 => o[at + 2] = b[at + 2]
      BY at + 2 \in at..(at + 2)
    <3> QED BY <1>1, <2>1, <3>1
  <2>2. CASE ~(end = at + 1 \/ end = at + 2)
    BY <2>2, at + 3 \in at..end
  <2> QED BY <2>1, <2>2
<1>4. ~IS_CONTINUATION(0) /\ ~Tailing(0)
  BY DEF IS_CONTINUATION, Tailing, Within
<1> DEFINE cont == Leader(b[at]).cont
<1>5. cont \in 0..3
  BY DEF Leader, Announces
<1>6. FollowedBy(b, at, cont) <=> FollowedBy(o, at, cont)
  <2> HIDE DEF cont
  <2> QED BY <1>1, <1>2, <1>3, <1>4, <1>5 DEF FollowedBy
<1>7. ASSUME FollowedBy(b, at, cont), NEW bits
      PROVE  Joined(bits, cont, b, at) = Joined(bits, cont, o, at)
  <2> HIDE DEF cont
  <2> QED BY <1>1, <1>2, <1>3, <1>4, <1>5, <1>7 DEF FollowedBy, Joined
<1>8. IsSequence(b, at, 4) <=> IsSequence(o, at, 4)
  BY <1>1, <1>6, <1>7 DEF IsSequence
<1>9. utf8_validate_sequence(b, at, 4) = utf8_validate_sequence(o, at, 4)
  BY <1>1, <1>8 DEF utf8_validate_sequence
<1>10. ASSUME NEW n \in 1..4 PROVE WellFormed(b, at, n) <=> WellFormed(o, at, n)
  <2>1. ~Within(0, 160, 191) /\ ~Within(0, 128, 159) /\ ~Within(0, 144, 191) /\ ~Within(0, 128, 143)
    BY DEF Within
  <2>2. WellFormed1(b[at]) <=> WellFormed1(o[at])
    BY <1>1
  <2>3. WellFormed2(b[at], b[at + 1]) <=> WellFormed2(o[at], o[at + 1])
    BY <1>1
  <2>4. WellFormed3(b[at], b[at + 1], b[at + 2]) <=> WellFormed3(o[at], o[at + 1], o[at + 2])
    BY <1>1, <1>2, <1>4, <2>1 DEF WellFormed3
  <2>5. WellFormed4(b[at], b[at + 1], b[at + 2], b[at + 3])
          <=> WellFormed4(o[at], o[at + 1], o[at + 2], o[at + 3])
    BY <1>1, <1>2, <1>3, <1>4, <2>1 DEF WellFormed4
  <2> QED BY <2>2, <2>3, <2>4, <2>5 DEF WellFormed
<1> QED BY <1>9, <1>10

(* In front of the NUL, too, exactly the rows of the table are accepted.   *)
LEMMA ValidatesBeforeNul ==
  ASSUME NEW b, NEW at \in Nat, NEW end \in Nat, at < end, b[end] = 0,
         \A i \in at..end : b[i] \in Byte
  PROVE  /\ utf8_validate_sequence(b, at, 4) \in {-1} \cup 1..4
         /\ \A n \in 1..4 : (utf8_validate_sequence(b, at, 4) = n) <=> WellFormed(b, at, n)
<1> DEFINE o == [i \in Nat |-> IF i \in at..end THEN b[i] ELSE 0]
<1>1. (\A i \in at..end : o[i] = b[i]) /\ \A i \in 0..3 : o[at + i] \in Byte
  BY DEF Byte
<1> HIDE DEF o
<1>2. \A n \in 1..4 : (utf8_validate_sequence(o, at, 4) = n) <=> WellFormed(o, at, n)
  BY <1>1, ValidatesTheTable
<1>3. /\ utf8_validate_sequence(b, at, 4) = utf8_validate_sequence(o, at, 4)
      /\ \A n \in 1..4 : WellFormed(b, at, n) <=> WellFormed(o, at, n)
  BY <1>1, EndsAtNul
<1>4. utf8_validate_sequence(b, at, 4) \in {-1} \cup 1..4
  BY DEF utf8_validate_sequence, Leader, Announces
<1> QED BY <1>2, <1>3, <1>4

-----------------------------------------------------------------------------
(* The text at the read position of a string that goes on.                 *)
LEMMA TextAhead ==
  ASSUME Typed, phase = "string"
  PROVE  /\ read \in Nat /\ count \in Nat /\ read <= count /\ Ordered /\ Inv
         /\ source[count] = 0
         /\ \A i \in read..count :
              bytes[i] = source[i] /\ Moved[i] = source[i] /\ source[i] \in Byte
         /\ MovedTo \in Nat /\ string <= MovedTo /\ MovedTo <= read
BY MovedDown DEF Typed, Inv, ReadInside, Ordered

LEMMA SequenceAhead ==
  ASSUME Typed, phase = "string", Here >= 128
  PROVE  /\ Sequence \in {-1} \cup 1..4
         /\ \A n \in 1..4 : (Sequence = n) <=> WellFormed(source, read, n)
<1>1. /\ read \in Nat /\ count \in Nat /\ read <= count
      /\ \A i \in read..count : bytes[i] = source[i] /\ bytes[i] \in Byte
      /\ bytes[count] = 0
  BY TextAhead
<1>2. read < count
  BY <1>1 DEF Here
<1>3. /\ Sequence \in {-1} \cup 1..4
      /\ \A n \in 1..4 : (Sequence = n) <=> WellFormed(bytes, read, n)
  BY <1>1, <1>2, ValidatesBeforeNul DEF Sequence
<1>4. \A n \in 1..4 : WellFormed(bytes, read, n) <=> WellFormed(source, read, n)
  BY <1>1, <1>2, EndsAtNul
<1> QED BY <1>3, <1>4

TextKept == UNCHANGED <<source, validate_utf8>>
LEMMA StandsLater ==
  ASSUME TextKept, NEW a, NEW b, NEW copy, NEW c, NEW d
  PROVE  StandsFor(a, b, copy, c, d)' <=> StandsFor(a, b, copy, c, d)
<1>1. AsItIs(a, b, copy, c, d)' <=> AsItIs(a, b, copy, c, d)
  BY DEF TextKept, AsItIs
<1>2. WholeSequence(a, b, copy, c, d)' <=> WholeSequence(a, b, copy, c, d)
  BY DEF TextKept, WholeSequence
<1>3. Letter(a, b, copy, c, d)' <=> Letter(a, b, copy, c, d)
  BY DEF TextKept, Letter
<1>4. OneUnit(a, b, copy, c, d)' <=> OneUnit(a, b, copy, c, d)
  BY DEF TextKept, OneUnit, EscapesUnit
<1>5. TwoUnits(a, b, copy, c, d)' <=> TwoUnits(a, b, copy, c, d)
  BY DEF TextKept, TwoUnits, EscapesUnit
<1> QED BY <1>1, <1>2, <1>3, <1>4, <1>5 DEF StandsFor

LEMMA DecodesLater ==
  ASSUME TextKept, NEW from, NEW to, NEW copy, NEW first, NEW last
  PROVE  Decodes(from, to, copy, first, last)' <=> Decodes(from, to, copy, first, last)
BY StandsLater DEF Decodes

LEMMA TakenLater ==
  ASSUME TextKept, Decodes(string', read', Moved', string', MovedTo')
  PROVE  Taken'
BY DecodesLater DEF Taken

LEMMA LiteralGoesOn ==
  ASSUME Typed, Taken, Plain \/ Multibyte
  PROVE  Taken' /\ string' = string /\ phase' = "string"
<1>1. phase = "string"
  BY DEF Plain, Multibyte, InString
<1>2. /\ read \in Nat /\ count \in Nat /\ read <= count /\ Ordered /\ Inv
      /\ \A i \in read..count : bytes[i] = source[i] /\ source[i] \in Byte
      /\ MovedTo \in Nat /\ string <= MovedTo /\ MovedTo <= read /\ string \in Nat
  BY <1>1, TextAhead DEF Ordered
<1>3. Inv' /\ UNCHANGED <<source, string, phase, validate_utf8>> /\ read' <= count
  <2>1. Inv' /\ UNCHANGED <<source, count, string, phase, validate_utf8>>
    BY <1>2, StringsKeep DEF Plain, Multibyte, Taking, pointers, StringNext
  <2> QED BY <1>1, <2>1 DEF Inv, ReadInside
<1>4. PICK n \in 1..4 :
        /\ Taking(read + n)
        /\ \A c \in Nat : \A copy, d :
             d = c + n /\ (\A i \in Nat : i < n => copy[c + i] = source[read + i])
               => StandsFor(read, read + n, copy, c, d)
  <2>1. CASE Plain
    <3>1. Taking(read + 1)
      BY <2>1 DEF Plain
    <3>2. /\ source[read] \notin {Quote, Backslash} /\ source[read] >= 32
          /\ ~(validate_utf8 /\ source[read] >= 128)
      BY <1>2, <2>1 DEF Plain, Here
    <3>3. ASSUME NEW copy, NEW c \in Nat, NEW d, d = c + 1,
                 \A i \in Nat : i < 1 => copy[c + i] = source[read + i]
          PROVE  AsItIs(read, read + 1, copy, c, d)
      <4>1. copy[c] = source[read]
        PROOF
        <5>1. copy[c + 0] = source[read + 0]
          BY <3>3
        <5> QED BY <1>2, <5>1
      <4> QED BY <3>2, <3>3, <4>1 DEF AsItIs, Holds
    <3> QED BY <3>1, <3>3 DEF StandsFor
  <2>2. CASE Multibyte
    <3>1. validate_utf8 /\ Here >= 128 /\ Sequence # -1 /\ Taking(read + Sequence)
      BY <2>2 DEF Multibyte
    <3>2. PICK n \in 1..4 : n = Sequence /\ WellFormed(source, read, n)
      BY <1>1, <3>1, SequenceAhead
    <3>3. ASSUME NEW copy, NEW c \in Nat, NEW d, d = c + n,
                 \A i \in Nat : i < n => copy[c + i] = source[read + i]
          PROVE  WholeSequence(read, read + n, copy, c, d)
      <4> QED BY <1>2, <3>1, <3>2, <3>3 DEF WholeSequence, Here
    <3> QED BY <3>1, <3>2, <3>3 DEF StandsFor
  <2> QED BY <2>1, <2>2
<1>5. read' = read + n /\ read + n <= count
  BY <1>3, <1>4 DEF Taking
<1>6. /\ MovedTo' = MovedTo + n
      /\ SameOn(Moved, Moved', string, MovedTo)
      /\ \A i \in Nat : i < n => Moved'[MovedTo + i] = source[read + i]
  <2>1. \A i \in Nat : i < n => bytes[read + i] = source[read + i]
    BY <1>2, <1>5
  <2>2. /\ MovedTo' = MovedTo + n
        /\ SameOn(Moved, Moved', string, MovedTo)
        /\ \A i \in Nat : i < n => Moved'[MovedTo + i] = bytes[read + i]
    <3>1. n \in Nat
      OBVIOUS
    <3> QED BY <1>1, <1>2, <1>4, <1>5, <3>1, TakingMoves
  <2> QED BY <2>1, <2>2
<1>7. StandsFor(read, read + n, Moved', MovedTo, MovedTo + n)
  BY <1>2, <1>4, <1>6
<1>8. Decodes(string, read, Moved', string, MovedTo)
  BY <1>2, <1>6, DecodesElsewhere DEF Taken
<1>9. Decodes(string, read + n, Moved', string, MovedTo + n)
  BY <1>2, <1>7, <1>8, DecodesOn
<1>10. Decodes(string', read', Moved', string', MovedTo')
  BY <1>3, <1>5, <1>6, <1>9
<1> QED BY <1>1, <1>3, <1>10, TakenLater DEF TextKept

LEMMA HexAhead ==
  ASSUME Typed, phase = "string", NEW at \in Nat, read <= at, at <= count
  PROVE  /\ HexRun(Moved, at) \in 0..4 /\ at + HexRun(Moved, at) <= count
         /\ HexRun(source, at) = HexRun(Moved, at)
         /\ HexDigits(Moved, at) => /\ at + 4 <= count /\ HexDigits(source, at)
                                    /\ parse_hex4(source, at) = parse_hex4(Moved, at)
<1>1. /\ read \in Nat /\ count \in Nat /\ Inv
      /\ \A i \in read..count : Moved[i] = source[i] /\ bytes[i] = source[i]
  BY TextAhead
<1>2. HexRun(Moved, at) \in 0..4 /\ at + HexRun(Moved, at) <= count
  BY <1>1, HexInside
<1>3. Moved[at] = source[at]
  BY <1>1
<1>4. IsHex(Moved[at]) => Moved[at + 1] = source[at + 1]
  BY <1>1, <1>2 DEF HexRun
<1>5. IsHex(Moved[at]) /\ IsHex(Moved[at + 1]) => Moved[at + 2] = source[at + 2]
  BY <1>1, <1>2 DEF HexRun
<1>6. IsHex(Moved[at]) /\ IsHex(Moved[at + 1]) /\ IsHex(Moved[at + 2]) => Moved[at + 3] = source[at + 3]
  BY <1>1, <1>2 DEF HexRun
<1>7. HexRun(source, at) = HexRun(Moved, at)
  BY <1>3, <1>4, <1>5, <1>6 DEF HexRun
<1>8. HexDigits(Moved, at) => parse_hex4(source, at) = parse_hex4(Moved, at)
  BY <1>3, <1>4, <1>5, <1>6 DEF HexDigits, HexRun, parse_hex4
<1> QED BY <1>2, <1>7, <1>8 DEF HexDigits

(* The text behind a backslash, as far as an escape looks.                 *)
LEMMA EscapeAhead ==
  ASSUME Typed, AtEscape
  PROVE  /\ phase = "string" /\ source[read] = Backslash
         /\ read + 1 <= count /\ Moved[read + 1] = source[read + 1]
         /\ Moved[read + 1] # 0 => read + 2 <= count
         /\ AtUnit /\ HexDigits(Moved, read + 2) =>
              /\ read + 6 <= count /\ Moved[read + 6] = source[read + 6]
              /\ EscapesUnit(read, parse_hex4(Moved, read + 2))
         /\ AtHigh /\ Moved[read + 6] = Backslash =>
              read + 7 <= count /\ Moved[read + 7] = source[read + 7]
         /\ AtHigh /\ Follows => read + 8 <= count
         /\ AtHigh /\ Follows /\ HexDigits(Moved, read + 8) =>
              /\ read + 12 <= count
              /\ EscapesUnit(read + 6, parse_hex4(Moved, read + 8))
<1>1. phase = "string"
  BY DEF AtEscape, InString
<1>2. /\ read \in Nat /\ count \in Nat /\ read <= count /\ Inv
      /\ \A i \in read..count : Moved[i] = source[i] /\ bytes[i] = source[i]
  BY <1>1, TextAhead
<1>3. \A k \in Nat : read <= k /\ k <= count /\ Moved[k] # 0 => k + 1 <= count
  BY <1>2, BeforeTheEnd
<1>4. source[read] = Backslash /\ read + 1 <= count /\ Moved[read + 1] = source[read + 1]
  BY <1>2, <1>3 DEF AtEscape, Here, Backslash
<1>5. Moved[read + 1] # 0 => read + 2 <= count
  BY <1>2, <1>3, <1>4
<1>6. ASSUME AtUnit, HexDigits(Moved, read + 2)
      PROVE  /\ read + 6 <= count /\ Moved[read + 6] = source[read + 6]
             /\ EscapesUnit(read, parse_hex4(Moved, read + 2))
  <2>1. read + 2 <= count /\ source[read + 1] = Letter_u
    BY <1>4, <1>5, <1>6 DEF AtUnit, Letter_u
  <2>2. /\ read + 6 <= count /\ HexDigits(source, read + 2)
        /\ parse_hex4(source, read + 2) = parse_hex4(Moved, read + 2)
    BY <1>1, <1>2, <1>6, <2>1, HexAhead
  <2> QED BY <1>2, <1>4, <2>1, <2>2 DEF EscapesUnit
<1>7. ASSUME AtHigh, Moved[read + 6] = Backslash
      PROVE  read + 7 <= count /\ Moved[read + 7] = source[read + 7]
  BY <1>2, <1>3, <1>6, <1>7 DEF AtHigh, Backslash
<1>8. AtHigh /\ Follows => read + 8 <= count
  BY <1>2, <1>3, <1>7 DEF Follows, Letter_u
<1>9. ASSUME AtHigh, Follows, HexDigits(Moved, read + 8)
      PROVE  /\ read + 12 <= count
             /\ EscapesUnit(read + 6, parse_hex4(Moved, read + 8))
  <2>1. source[read + 6] = Backslash /\ source[read + 7] = Letter_u
    BY <1>6, <1>7, <1>9 DEF AtHigh, Follows
  <2>2. /\ read + 12 <= count /\ HexDigits(source, read + 8)
        /\ parse_hex4(source, read + 8) = parse_hex4(Moved, read + 8)
    BY <1>1, <1>2, <1>8, <1>9, HexAhead
  <2>3. (read + 6) + 1 = read + 7 /\ (read + 6) + 2 = read + 8
    BY <1>2
  <2> QED BY <2>1, <2>2, <2>3 DEF EscapesUnit
<1> QED BY <1>1, <1>4, <1>5, <1>6, <1>7, <1>8, <1>9

LEMMA EncodedGoesOn ==
  ASSUME Typed, phase = "string", Taken, NEW cp, NEW length \in Nat,
         Encoded(cp, length), read + length <= count, Len(utf8_encode(cp)) \in 0..length,
         \A c \in Nat : \A copy, d : HoldsPoint(copy, c, d, cp) => StandsFor(read, read + length, copy, c, d)
  PROVE  Taken' /\ string' = string /\ phase' = "string"
<1>1. /\ read \in Nat /\ Inv /\ string \in Nat /\ MovedTo \in Nat
  BY TextAhead DEF Ordered
<1>2. /\ UNCHANGED <<source, string, phase, validate_utf8>> /\ read' = read + length
  BY DEF Encoded
<1>3. /\ SameOn(Moved, Moved', string, MovedTo)
      /\ HoldsPoint(Moved', MovedTo, MovedTo', cp)
  BY <1>1, EncodedMoves
<1>4. StandsFor(read, read + length, Moved', MovedTo, MovedTo')
  BY <1>1, <1>3
<1>5. Decodes(string, read, Moved', string, MovedTo)
  BY <1>1, <1>3, DecodesElsewhere DEF Taken
<1>6. MovedTo' \in Nat /\ MovedTo <= MovedTo'
  BY <1>1, <1>3 DEF HoldsPoint
<1>7. Decodes(string, read + length, Moved', string, MovedTo')
  <2> DEFINE d == MovedTo'
  <2>1. d \in Nat /\ MovedTo <= d /\ StandsFor(read, read + length, Moved', MovedTo, d)
    BY <1>4, <1>6
  <2> HIDE DEF d
  <2>2. read + length \in Nat /\ read <= read + length
    BY <1>1
  <2>3. Decodes(string, read + length, Moved', string, d)
    BY <1>1, <1>5, <2>1, <2>2, DecodesOn
  <2> QED BY <2>3 DEF d
<1>8. Decodes(string', read', Moved', string', MovedTo')
  BY <1>2, <1>7
<1> QED BY <1>2, <1>8, TakenLater DEF TextKept

LEMMA EscapeGoesOn ==
  ASSUME Typed, Taken, SimpleEscape \/ UnitEscape \/ PairEscape
  PROVE  Taken' /\ string' = string /\ phase' = "string"
<1>1. AtEscape
  BY DEF SimpleEscape, UnitEscape, PairEscape, AtHigh, AtUnit
<1>2. phase = "string" /\ read \in Nat /\ source[read] = Backslash
  BY <1>1, EscapeAhead, TextAhead
<1>3. CASE SimpleEscape
  <2> DEFINE b == Moved[read + 1]  byte == escape[b]
  <2>1. b \in EscapeLetters /\ b = source[read + 1] /\ Encoded(byte, 2) /\ read + 2 <= count
    BY <1>1, <1>3, EscapeAhead DEF SimpleEscape, EscapeLetters
  <2>2. byte \in Nat /\ byte <= 127
    BY <2>1 DEF EscapeLetters, escape
  <2>3. byte = escape[source[read + 1]]
    BY <2>1
  <2> HIDE DEF b, byte
  <2>4. utf8_encode(byte) = <<byte>>
    BY <2>2 DEF utf8_encode
  <2>5. Len(utf8_encode(byte)) = 1 /\ utf8_encode(byte)[1] = byte
    BY <2>4
  <2>6. ASSUME NEW copy, NEW c \in Nat, NEW d, HoldsPoint(copy, c, d, byte)
        PROVE  StandsFor(read, read + 2, copy, c, d)
    <3>1. d = c + 1 /\ copy[c + 1 - 1] = byte
      BY <2>5, <2>6 DEF HoldsPoint
    <3>2. Holds(copy, c, d, byte)
      BY <3>1 DEF Holds
    <3> QED BY <1>2, <2>1, <2>3, <3>2 DEF StandsFor, Letter
  <2>7. Len(utf8_encode(byte)) \in 0..2
    BY <2>5
  <2> QED BY <1>2, <2>1, <2>6, <2>7, EncodedGoesOn
<1>4. CASE UnitEscape
  <2> DEFINE cp == parse_hex4(Moved, read + 2)
  <2>1. AtUnit /\ HexDigits(Moved, read + 2) /\ ~is_surrogate(cp) /\ Encoded(cp, 6)
    BY <1>4 DEF UnitEscape
  <2>2. cp \in Nat /\ EscapesUnit(read, cp) /\ read + 6 <= count
    BY <1>1, <2>1, HexValue, EscapeAhead
  <2> HIDE DEF cp
  <2>3. ASSUME NEW copy, NEW c \in Nat, NEW d, HoldsPoint(copy, c, d, cp)
        PROVE  StandsFor(read, read + 6, copy, c, d)
    BY <2>1, <2>2, <2>3 DEF StandsFor, OneUnit
  <2>4. Len(utf8_encode(cp)) \in 0..6
    BY SpelledLength
  <2> QED BY <1>2, <2>1, <2>2, <2>3, <2>4, EncodedGoesOn
<1>5. CASE PairEscape
  <2> DEFINE high == parse_hex4(Moved, read + 2)  low == parse_hex4(Moved, read + 8)
             cp == Paired(high, low)
  <2>1. /\ AtHigh /\ Follows /\ HexDigits(Moved, read + 8) /\ AtUnit /\ HexDigits(Moved, read + 2)
        /\ High(high) /\ Low(low) /\ Encoded(cp, 12)
    BY <1>5 DEF PairEscape, AtHigh
  <2>2. /\ high \in Nat /\ low \in Nat /\ EscapesUnit(read, high) /\ EscapesUnit(read + 6, low)
        /\ read + 12 <= count
    BY <1>1, <2>1, HexValue, EscapeAhead
  <2> HIDE DEF high, low
  <2>3. ASSUME NEW copy, NEW c \in Nat, NEW d, HoldsPoint(copy, c, d, cp)
        PROVE  StandsFor(read, read + 12, copy, c, d)
    BY <2>1, <2>2, <2>3 DEF StandsFor, TwoUnits
  <2>4. Len(utf8_encode(cp)) \in 0..12
    BY SpelledLength
  <2> HIDE DEF cp
  <2> QED BY <1>2, <2>1, <2>2, <2>3, <2>4, EncodedGoesOn
<1> QED BY <1>3, <1>4, <1>5

(* A string begins with nothing in it.                                     *)
LEMMA StringBegins ==
  ASSUME Typed, String
  PROVE  Taken' /\ string' = read + 1 /\ read' = read + 1 /\ source[read] = Quote
<1>1. read \in Nat /\ Inv
  BY DEF Typed, Inv
<1>2. /\ read' = read + 1 /\ string' = read + 1 /\ write' = read + 1 /\ mark' = read + 1
      /\ TextKept /\ bytes[read] = Quote /\ AtToken
  BY DEF String, StringStart, TextKept, Here, flags
<1>3. bytes[read] = source[read]
  BY <1>1, <1>2 DEF Inv, ReadInside, AtToken
<1>4. MovedTo' = read + 1
  BY <1>2 DEF MovedTo
<1>5. Decodes(string', read', Moved', string', MovedTo')
  <2> DEFINE m == Moved'
  <2>1. Decodes(read + 1, read + 1, m, read + 1, read + 1)
    <3> HIDE DEF m
    <3> QED BY <1>1, DecodesNothing
  <2> QED BY <1>2, <1>4, <2>1
<1> QED BY <1>2, <1>3, <1>5, TakenLater

LEMMA StringSaid ==
  ASSUME TextKept, NEW r, NEW from, NEW to, source[from] = Quote, source[to - 1] = Quote,
         r.value[1] = from + 1,
         Decodes(from + 1, to - 1, bytes', r.value[1], r.value[1] + r.value[2])
  PROVE  StringLexeme(r, from, to)'
BY DecodesLater DEF StringLexeme, TextKept

(* A string ends with what was taken.                                      *)
LEMMA StringIsTaken ==
  ASSUME Typed, Taken, NEW from \in Nat, from + 1 = string, source[from] = Quote, Complete
  PROVE  \E r : /\ results' = Append(results, r) /\ r.type = "string"
                /\ \E to \in Nat : to = read' /\ StringLexeme(r, from, to)'
<1>1. phase = "string" /\ read' = read + 1 /\ Here = Quote
  BY DEF Complete, InString
<1>2. /\ read \in Nat /\ string \in Nat /\ write \in Nat /\ mark \in Nat /\ string <= write /\ write <= mark
      /\ MovedTo \in Nat /\ source[read] = Quote
  BY <1>1, TextAhead DEF Ordered, Here
<1>3. /\ results' = Append(results, Value("string", <<string, MovedTo - string>>))
      /\ bytes' = Moved
  <2>1. CASE mark = string
    <3>1. Moved = bytes /\ MovedTo = read
      BY <1>2, <2>1 DEF Moved, MovedTo
    <3> QED BY <2>1, <3>1 DEF Complete, Return
  <2>2. CASE mark # string
    BY <2>2 DEF Complete, Return
  <2> QED BY <2>1, <2>2
<1>a. PICK r : r = Value("string", <<string, MovedTo - string>>)
  OBVIOUS
<1>b. PICK to \in Nat : to = read + 1
  BY <1>2
<1>4. r.type = "string" /\ r.value[1] = string /\ r.value[2] = MovedTo - string
  BY <1>a DEF Value
<1>5. TextKept
  BY DEF Complete, TextKept
<1>6. to - 1 = read /\ string + (MovedTo - string) = MovedTo
  BY <1>2, <1>b
<1>7. Decodes(string, read, bytes', string, MovedTo)
  BY <1>3 DEF Taken
<1>8. Decodes(from + 1, to - 1, bytes', r.value[1], r.value[1] + r.value[2])
  BY <1>4, <1>6, <1>7
<1>9. StringLexeme(r, from, to)'
  BY <1>2, <1>4, <1>5, <1>6, <1>8, StringSaid
<1> QED BY <1>1, <1>3, <1>4, <1>9, <1>a, <1>b

(* A string is given up only where nothing stands for anything.            *)
Fails(a, code, at) ==
  /\ results' = Append(results, Error(code, at)) /\ phase' = "done" /\ read' = at
  /\ StringFault(a, code, at)

LEMMA StringFails ==
  ASSUME Typed, BadSequence \/ Control \/ BadEscape
  PROVE  phase = "string" /\ \E code : \E at \in Nat : Fails(read, code, at)
<1>0. BadEscape => AtEscape
  BY DEF BadEscape, AtHigh, AtUnit, NoEscape, ShortUnit, LowFirst, HighAlone, ShortSecond, BadSecond
<1>1. phase = "string"
  BY <1>0 DEF BadSequence, Control, AtEscape, InString
<1>2. read \in Nat /\ read <= count /\ Here = source[read] /\ Here \in Byte /\ count \in Nat
  BY <1>1, TextAhead DEF Here
<1>3. CASE BadSequence
  <2>1. validate_utf8 /\ Here >= 128 /\ Sequence = -1 /\ throw_parse_error("UTF8", read)
    BY <1>3 DEF BadSequence, Throw
  <2>2. \A n \in 1..4 : ~WellFormed(source, read, n)
    <3>1. \A n \in 1..4 : -1 # n
      OBVIOUS
    <3> QED BY <1>1, <2>1, <3>1, SequenceAhead
  <2>3. StringFault(read, "UTF8", read)
    BY <1>2, <2>1, <2>2 DEF StringFault, SequenceFault
  <2> QED BY <1>1, <1>2, <2>1, <2>3 DEF Fails, throw_parse_error
<1>4. CASE Control
  <2>1. Here < 32 /\ throw_parse_error("INVALID", read)
    BY <1>4 DEF Control, Throw
  <2>2. StringFault(read, "INVALID", read)
    BY <1>2, <2>1 DEF StringFault
  <2> QED BY <1>1, <1>2, <2>1, <2>2 DEF Fails, throw_parse_error
<1>5. CASE BadEscape
  <2>0. AtEscape /\ source[read] = Backslash /\ Moved[read + 1] = source[read + 1] /\ read + 1 <= count
    BY <1>0, <1>5, EscapeAhead
  <2>h. AtHigh => AtUnit /\ HexDigits(Moved, read + 2)
    BY DEF AtHigh
  <2>2. CASE NoEscape
    <3>1. throw_parse_error("ESCAPE", read + 1) /\ source[read + 1] \notin EscapeLetters \cup {Letter_u}
      BY <1>1, <1>2, <2>0, <2>2 DEF NoEscape, throw_parse_error
    <3>2. LetterFault(read)
      BY <1>1, <1>2, <2>0, <3>1 DEF LetterFault
    <3>3. PICK at \in Nat : at = read + 1
      BY <1>1, <1>2
    <3>4. StringFault(read, "ESCAPE", at)
      BY <1>1, <1>2, <3>2, <3>3 DEF StringFault
    <3> QED BY <1>1, <1>2, <3>1, <3>3, <3>4 DEF throw_parse_error, Fails
  <2>3. AtUnit => read + 2 <= count /\ source[read + 1] = Letter_u
    BY <1>1, <1>2, <2>0, EscapeAhead DEF AtUnit, Letter_u
  <2>4. CASE ShortUnit
    <3>1. /\ AtUnit /\ ~HexDigits(Moved, read + 2)
          /\ throw_parse_error("ESCAPE", read + 2 + HexRun(Moved, read + 2))
      BY <1>1, <1>2, <2>4 DEF ShortUnit, throw_parse_error
    <3>2. HexRun(Moved, read + 2) \in 0..4 /\ HexRun(source, read + 2) = HexRun(Moved, read + 2)
      BY <1>1, <1>2, <2>3, <3>1, HexAhead
    <3>3. PICK at \in Nat : at = read + 2 + HexRun(Moved, read + 2)
      BY <1>1, <1>2, <3>2
    <3>4. HexFault(read + 2, at)
      BY <1>1, <1>2, <3>1, <3>2, <3>3 DEF HexFault, HexDigits
    <3>5. UnitFault(read, at)
      BY <1>1, <1>2, <2>0, <2>3, <3>1, <3>4 DEF UnitFault
    <3>6. StringFault(read, "ESCAPE", at)
      BY <1>1, <1>2, <3>5 DEF StringFault
    <3> QED BY <1>1, <1>2, <3>1, <3>3, <3>6 DEF throw_parse_error, Fails
  <2>5. AtUnit /\ HexDigits(Moved, read + 2) =>
          /\ EscapesUnit(read, parse_hex4(Moved, read + 2)) /\ parse_hex4(Moved, read + 2) \in Nat
          /\ Moved[read + 6] = source[read + 6]
    BY <1>1, <1>2, <2>0, EscapeAhead, HexValue
  <2>6. CASE LowFirst
    <3>1. /\ AtUnit /\ HexDigits(Moved, read + 2) /\ Low(parse_hex4(Moved, read + 2))
          /\ throw_parse_error("SURROGATE", read + 6)
      BY <1>1, <1>2, <2>6 DEF LowFirst, throw_parse_error
    <3>2. LowFault(read)
      BY <1>1, <1>2, <2>5, <3>1 DEF LowFault
    <3>3. PICK at \in Nat : at = read + 6
      BY <1>1, <1>2
    <3>4. StringFault(read, "SURROGATE", at)
      BY <1>1, <1>2, <3>2, <3>3 DEF StringFault
    <3> QED BY <1>1, <1>2, <3>1, <3>3, <3>4 DEF throw_parse_error, Fails
  <2>7. AtHigh => EscapesHigh(read)
    BY <1>1, <1>2, <2>5 DEF AtHigh, EscapesHigh
  <2>8. CASE HighAlone
    <3>1. CASE Moved[read + 6] = Backslash
      <4>1. /\ throw_parse_error("SURROGATE", read + 7) /\ AtHigh /\ source[read + 7] # Letter_u
            /\ source[read + 6] = Backslash
        BY <1>1, <1>2, <2>0, <2>h, <2>5, <2>8, <3>1, EscapeAhead DEF HighAlone, Follows, throw_parse_error
      <4>2. PICK at \in Nat : at = read + 7
        BY <1>1, <1>2
      <4>3. PairFault(read, at)
        BY <1>1, <1>2, <2>7, <4>1, <4>2 DEF PairFault
      <4>4. StringFault(read, "SURROGATE", at)
        BY <1>1, <1>2, <4>3 DEF StringFault
      <4> QED BY <1>1, <1>2, <4>1, <4>2, <4>4 DEF throw_parse_error, Fails
    <3>2. CASE Moved[read + 6] # Backslash
      <4>1. throw_parse_error("SURROGATE", read + 6) /\ AtHigh /\ source[read + 6] # Backslash
        BY <1>1, <1>2, <2>0, <2>h, <2>5, <2>8, <3>2 DEF HighAlone, throw_parse_error
      <4>2. PICK at \in Nat : at = read + 6
        BY <1>1, <1>2
      <4>3. PairFault(read, at)
        BY <1>1, <1>2, <2>7, <4>1, <4>2 DEF PairFault
      <4>4. StringFault(read, "SURROGATE", at)
        BY <1>1, <1>2, <4>3 DEF StringFault
      <4> QED BY <1>1, <1>2, <4>1, <4>2, <4>4 DEF throw_parse_error, Fails
    <3> QED BY <1>1, <1>2, <3>1, <3>2
  <2>9. AtHigh /\ Follows => /\ read + 8 <= count /\ source[read + 6] = Backslash
                             /\ source[read + 7] = Letter_u
    BY <1>1, <1>2, <2>0, <2>h, <2>5, EscapeAhead DEF Follows
  <2>10. CASE ShortSecond
    <3>1. /\ AtHigh /\ Follows /\ ~HexDigits(Moved, read + 8)
          /\ throw_parse_error("ESCAPE", read + 8 + HexRun(Moved, read + 8))
      BY <1>1, <1>2, <2>10 DEF ShortSecond, throw_parse_error
    <3>2. HexRun(Moved, read + 8) \in 0..4 /\ HexRun(source, read + 8) = HexRun(Moved, read + 8)
      BY <1>1, <1>2, <2>9, <3>1, HexAhead
    <3>3. PICK at \in Nat : at = read + 8 + HexRun(Moved, read + 8)
      BY <1>1, <1>2, <3>2
    <3>4. HexFault(read + 8, at)
      BY <1>1, <1>2, <3>1, <3>2, <3>3 DEF HexFault, HexDigits
    <3>5. UnitFault(read + 6, at)
      <4>1. (read + 6) + 1 = read + 7 /\ (read + 6) + 2 = read + 8
        BY <1>1, <1>2
      <4> QED BY <1>1, <1>2, <2>9, <3>1, <3>4, <4>1 DEF UnitFault
    <3>6. StringFault(read, "ESCAPE", at)
      BY <1>1, <1>2, <2>7, <3>1, <3>5 DEF StringFault
    <3> QED BY <1>1, <1>2, <3>1, <3>3, <3>6 DEF throw_parse_error, Fails
  <2>11. CASE BadSecond
    <3> DEFINE low == parse_hex4(Moved, read + 8)
    <3>1. /\ AtHigh /\ Follows /\ HexDigits(Moved, read + 8) /\ ~Low(low)
          /\ throw_parse_error("SURROGATE", read + 12)
      BY <1>1, <1>2, <2>11 DEF BadSecond, throw_parse_error
    <3>2. EscapesUnit(read + 6, low) /\ low \in Nat
      BY <1>1, <1>2, <2>0, <3>1, EscapeAhead, HexValue
    <3> HIDE DEF low
    <3>3. PICK at \in Nat : at = read + 12
      BY <1>1, <1>2
    <3>4. PairFault(read, at)
      BY <1>1, <1>2, <2>7, <3>1, <3>2, <3>3 DEF PairFault
    <3>5. StringFault(read, "SURROGATE", at)
      BY <1>1, <1>2, <3>4 DEF StringFault
    <3> QED BY <1>1, <1>2, <3>1, <3>3, <3>5 DEF throw_parse_error, Fails
  <2> QED BY <1>1, <1>5, <2>2, <2>4, <2>6, <2>8, <2>10, <2>11 DEF BadEscape
<1> QED BY <1>3, <1>4, <1>5

-----------------------------------------------------------------------------
(* What a text says does not depend on where the scanners are in it.       *)

(* What the text says does not depend on where the scanners are.           *)
SourceSame == UNCHANGED <<source, count, validate_utf8, allow_comments>>

LEMMA BlanksLater ==
  ASSUME SourceSame
  PROVE  /\ \A a, b : Blank(a, b)' <=> Blank(a, b)
         /\ \A a, b : Blanks(a, b)' <=> Blanks(a, b)
         /\ \A a : OpensBlock(a)' <=> OpensBlock(a)
         /\ \A a : OpensLine(a)' <=> OpensLine(a)
         /\ \A a : Closes(a)' <=> Closes(a)
         /\ \A a : Unclosed(a)' <=> Unclosed(a)
         /\ \A a : Ended(a)' <=> Ended(a)
<1>1. \A a : OpensBlock(a)' <=> OpensBlock(a)
  BY DEF SourceSame, OpensBlock
<1>2. \A a : OpensLine(a)' <=> OpensLine(a)
  BY DEF SourceSame, OpensLine
<1>3. \A a : Closes(a)' <=> Closes(a)
  BY DEF SourceSame, Closes
<1>4. \A a, b : Blank(a, b)' <=> Blank(a, b)
  BY <1>1, <1>2, <1>3 DEF SourceSame, Blank
<1>5. \A a, b : Blanks(a, b)' <=> Blanks(a, b)
  BY <1>4 DEF Blanks
<1>6. \A a : Unclosed(a)' <=> Unclosed(a)
  BY <1>1, <1>2, <1>3 DEF SourceSame, Unclosed
<1>7. \A a : Ended(a)' <=> Ended(a)
  BY <1>5, <1>6 DEF SourceSame, Ended
<1> QED BY <1>1, <1>2, <1>3, <1>4, <1>5, <1>6, <1>7

LEMMA PartsLater ==
  ASSUME SourceSame
  PROVE  /\ \A a : IsDigitAt(a)' <=> IsDigitAt(a)
         /\ \A a, b : Digits(a, b)' <=> Digits(a, b)
         /\ \A a, b, x, y : Worth(a, b, x, y)' <=> Worth(a, b, x, y)
         /\ \A w, p, x, left : WholePart(w, p, x, left)' <=> WholePart(w, p, x, left)
         /\ \A q : ExponentDigits(q)' = ExponentDigits(q) /\ ExponentSign(q)' = ExponentSign(q)
         /\ \A q, to, exp : ExponentPart(q, to, exp)' <=> ExponentPart(q, to, exp)
         /\ \A from : Negative(from)' <=> Negative(from)
         /\ \A from : FirstDigit(from)' = FirstDigit(from) /\ SumLimit(from)' = SumLimit(from)
         /\ \A from, to, x, left : WholeNumber(from, to, x, left)' <=> WholeNumber(from, to, x, left)
         /\ \A from, q, y, power, plain :
              Mantissa(from, q, y, power, plain)' <=> Mantissa(from, q, y, power, plain)
<1>1. \A a : IsDigitAt(a)' <=> IsDigitAt(a)
  BY DEF SourceSame, IsDigitAt
<1>2. \A a, b : Digits(a, b)' <=> Digits(a, b)
  BY <1>1 DEF Digits
<1>3. \A a, b, x, y : Worth(a, b, x, y)' <=> Worth(a, b, x, y)
  BY <1>1 DEF SourceSame, Worth
<1>4. \A w, p, x, left : WholePart(w, p, x, left)' <=> WholePart(w, p, x, left)
  BY <1>2, <1>3 DEF SourceSame, WholePart
<1>5. \A q : ExponentDigits(q)' = ExponentDigits(q) /\ ExponentSign(q)' = ExponentSign(q)
  BY DEF SourceSame, ExponentDigits, ExponentSign
<1>6. \A q, to, exp : ExponentPart(q, to, exp)' <=> ExponentPart(q, to, exp)
  BY <1>3, <1>5 DEF SourceSame, ExponentPart
<1>7. \A from : Negative(from)' <=> Negative(from)
  BY DEF SourceSame, Negative
<1>8. \A from : FirstDigit(from)' = FirstDigit(from) /\ SumLimit(from)' = SumLimit(from)
  BY <1>7 DEF FirstDigit, SumLimit
<1>9. \A from, to, x, left : WholeNumber(from, to, x, left)' <=> WholeNumber(from, to, x, left)
  BY <1>1, <1>4, <1>8 DEF SourceSame, WholeNumber
<1>10. \A p, q, x, y, scale : FractionPart(p, q, x, y, scale)' <=> FractionPart(p, q, x, y, scale)
  BY <1>2, <1>3 DEF SourceSame, FractionPart
<1>11. \A from, q, y, power, plain :
         Mantissa(from, q, y, power, plain)' <=> Mantissa(from, q, y, power, plain)
  BY <1>1, <1>4, <1>8, <1>10 DEF SourceSame, Mantissa
<1> QED BY <1>1, <1>2, <1>3, <1>4, <1>5, <1>6, <1>7, <1>8, <1>9, <1>11

LEMMA NumbersLater ==
  ASSUME SourceSame
  PROVE  /\ \A r, from, to : IntegerLexeme(r, from, to)' <=> IntegerLexeme(r, from, to)
         /\ \A r, from, to : RealLexeme(r, from, to)' <=> RealLexeme(r, from, to)
         /\ \A from, at : NumberFault(from, at)' <=> NumberFault(from, at)
<1>1. \A from, to, y, power : Scientific(from, to, y, power)' <=> Scientific(from, to, y, power)
  BY PartsLater DEF SourceSame, Scientific
<1>2. \A from, to, y, power : RealNumber(from, to, y, power)' <=> RealNumber(from, to, y, power)
  BY <1>1, PartsLater DEF RealNumber
<1>3. \A r, from, to : IntegerLexeme(r, from, to)' <=> IntegerLexeme(r, from, to)
  BY PartsLater DEF IntegerLexeme
<1>4. \A r, from, to : RealLexeme(r, from, to)' <=> RealLexeme(r, from, to)
  BY <1>2, PartsLater DEF RealLexeme, Negative, SourceSame
<1>5. \A from, at : NumberFault(from, at)' <=> NumberFault(from, at)
  BY <1>2, PartsLater DEF SourceSame, NumberFault
<1> QED BY <1>3, <1>4, <1>5

LEMMA FaultsLater ==
  ASSUME SourceSame
  PROVE  /\ \A a, code, at : StringFault(a, code, at)' <=> StringFault(a, code, at)
         /\ \A from, code, at : ErrorLexeme(from, code, at)' <=> ErrorLexeme(from, code, at)
<1>1. \A a, at : HexFault(a, at)' <=> HexFault(a, at)
  BY DEF SourceSame, HexFault
<1>2. \A a, unit : EscapesUnit(a, unit)' <=> EscapesUnit(a, unit)
  BY DEF SourceSame, EscapesUnit
<1>3. \A a : SequenceFault(a)' <=> SequenceFault(a)
  BY DEF SourceSame, SequenceFault
<1>4. \A a : LetterFault(a)' <=> LetterFault(a)
  BY DEF SourceSame, LetterFault
<1>5. \A a, at : UnitFault(a, at)' <=> UnitFault(a, at)
  BY <1>1 DEF SourceSame, UnitFault
<1>6. \A a : EscapesHigh(a)' <=> EscapesHigh(a)
  BY <1>2 DEF EscapesHigh
<1>7. \A a : LowFault(a)' <=> LowFault(a)
  BY <1>2 DEF LowFault
<1>8. \A a, at : PairFault(a, at)' <=> PairFault(a, at)
  BY <1>2, <1>6 DEF SourceSame, PairFault
<1>9. \A a, code, at : StringFault(a, code, at)' <=> StringFault(a, code, at)
  BY <1>3, <1>4, <1>5, <1>6, <1>7, <1>8 DEF SourceSame, StringFault
<1>10. \A from, code, at : FaultyString(from, code, at)' <=> FaultyString(from, code, at)
  BY <1>9, DecodesLater DEF SourceSame, TextKept, FaultyString
<1>11. \A from, at : NoLexeme(from, at)' <=> NoLexeme(from, at)
  BY DEF SourceSame, NoLexeme
<1>12. \A from, at : CommentFault(from, at)' <=> CommentFault(from, at)
  BY DEF SourceSame, CommentFault
<1>13. \A from, at : WordFault(from, at)' <=> WordFault(from, at)
  BY DEF SourceSame, WordFault
<1>14. \A from, code, at : ErrorLexeme(from, code, at)' <=> ErrorLexeme(from, code, at)
  BY <1>10, <1>11, <1>12, <1>13, NumbersLater DEF ErrorLexeme
<1> QED BY <1>9, <1>14

LEMMA LexemeLater ==
  ASSUME SourceSame, NEW r, NEW from, NEW to, Lexeme(r, from, to), r.type # "string"
  PROVE  Lexeme(r, from, to)'
<1>1. WordLexeme(r, from, to)' <=> WordLexeme(r, from, to)
  BY DEF SourceSame, WordLexeme, At
<1>2. MarkLexeme(r, from, to)' <=> MarkLexeme(r, from, to)
  BY DEF SourceSame, MarkLexeme
<1> QED BY <1>1, <1>2, NumbersLater, FaultsLater DEF Lexeme

-----------------------------------------------------------------------------
(* Runs of any length are told by a witness, which is one entry longer     *)
(* after one step.                                                         *)

LEMMA BlanksBy ==
  ASSUME NEW from, NEW to, NEW n \in Nat, NEW cut \in [0..n -> from..to],
         cut[0] = from, cut[n] = to, \A k \in 0..(n - 1) : Blank(cut[k], cut[k + 1])
  PROVE  Blanks(from, to)
<1> SUFFICES \E m \in Nat : \E c \in [0..m -> from..to] :
               /\ c[0] = from /\ c[m] = to
               /\ \A k \in 0..(m - 1) : Blank(c[k], c[k + 1])
  BY DEF Blanks
<1> WITNESS n \in Nat
<1> WITNESS cut \in [0..n -> from..to]
<1> QED OBVIOUS

LEMMA BlanksNothing == ASSUME NEW at \in Nat PROVE Blanks(at, at)
<1> DEFINE cut == [k \in 0..0 |-> at]
<1>1. cut \in [0..0 -> at..at] /\ cut[0] = at
  OBVIOUS
<1> HIDE DEF cut
<1>2. \A k \in 0..(0 - 1) : Blank(cut[k], cut[k + 1])
  OBVIOUS
<1> QED BY <1>1, <1>2, BlanksBy

LEMMA BlanksOn ==
  ASSUME NEW from \in Nat, NEW to \in Nat, Blanks(from, to), NEW b \in Nat, to <= b, Blank(to, b)
  PROVE  Blanks(from, b)
<1>0. PICK n \in Nat : \E cut \in [0..n -> from..to] :
        /\ cut[0] = from /\ cut[n] = to
        /\ \A k \in 0..(n - 1) : Blank(cut[k], cut[k + 1])
  BY DEF Blanks
<1>1. PICK cut \in [0..n -> from..to] :
        /\ cut[0] = from /\ cut[n] = to
        /\ \A k \in 0..(n - 1) : Blank(cut[k], cut[k + 1])
  BY <1>0
<1> DEFINE cut2 == [k \in 0..(n + 1) |-> IF k = n + 1 THEN b ELSE cut[k]]
<1>2. cut2 \in [0..(n + 1) -> from..b]
  BY <1>1
<1>3. (\A k \in 0..n : cut2[k] = cut[k]) /\ cut2[n + 1] = b
  OBVIOUS
<1> HIDE DEF cut2
<1>4. ASSUME NEW k \in 0..n PROVE Blank(cut2[k], cut2[k + 1])
  <2>1. CASE k = n
    BY <1>1, <1>3, <2>1
  <2>2. CASE k # n
    <3>1. k \in 0..(n - 1) /\ k + 1 \in 0..n
      BY <2>2
    <3> QED BY <1>1, <1>3, <3>1
  <2> QED BY <2>1, <2>2
<1> DEFINE N == n + 1
<1>5. /\ N \in Nat /\ N - 1 = n /\ cut2 \in [0..N -> from..b]
      /\ cut2[0] = from /\ cut2[N] = b
  BY <1>1, <1>2, <1>3
<1>6. \A k \in 0..(N - 1) : Blank(cut2[k], cut2[k + 1])
  BY <1>4, <1>5
<1> HIDE DEF N
<1> QED BY <1>5, <1>6, BlanksBy

-----------------------------------------------------------------------------
(* The least of some numbers.                                              *)
LEMMA LeastOf ==
  ASSUME NEW T, T \subseteq Nat, T # {}
  PROVE  \E x \in T : \A y \in T : x <= y
<1> DEFINE R == OpToRel(<, Nat)
<1>1. IsWellFoundedOn(R, Nat)
  BY NatLessThanWellFounded
<1>2. PICK x \in T : \A y \in T : ~(<<y, x>> \in R)
  <2> HIDE DEF R
  <2> QED BY <1>1, WFMin
<1>3. \A y \in T : ~(y < x)
  BY <1>2 DEF OpToRel
<1> QED BY <1>3

(* Where strchr finds nothing a NUL is in the way, with no such byte in    *)
(* front of it.                                                            *)
LEMMA NulInTheWay ==
  ASSUME Inv, phase # "done", NEW c, FindsNone(c)
  PROVE  \E end \in Nat : /\ read <= end /\ end <= count /\ source[end] = 0
                          /\ \A i \in read..(end - 1) : source[i] # c
<1>1. /\ read \in Nat /\ count \in Nat /\ read <= count /\ source[count] = 0
      /\ \A i \in read..count : bytes[i] = source[i]
  BY DEF Inv, ReadInside
<1> DEFINE T == {i \in read..count : source[i] \in {0, c}}
<1>2. T \subseteq Nat /\ count \in T
  BY <1>1
<1>3. PICK end \in T : \A i \in T : end <= i
  <2> HIDE DEF T
  <2> QED BY <1>2, LeastOf
<1>4. end \in read..count /\ end \in Nat /\ source[end] \in {0, c}
  BY <1>1
<1>5. ASSUME NEW i \in read..(end - 1) PROVE source[i] \notin {0, c} /\ bytes[i] = source[i]
  <2>1. i \in read..count /\ ~(end <= i)
    BY <1>1, <1>4
  <2> QED BY <1>1, <1>3, <2>1
<1>6. source[end] # 0 => Finds(c, end)
  BY <1>1, <1>4, <1>5 DEF Finds
<1> QED BY <1>1, <1>4, <1>5, <1>6 DEF FindsNone

-----------------------------------------------------------------------------
LEMMA WorthBy ==
  ASSUME NEW a, NEW b, NEW x, NEW y, NEW v \in [a..b -> Nat], v[a] = x, v[b] = y,
         \A i \in a..(b - 1) : IsDigitAt(i) /\ v[i + 1] = v[i] * Ten + (source[i] - Zero)
  PROVE  Worth(a, b, x, y)
<1> SUFFICES \E u \in [a..b -> Nat] :
               /\ u[a] = x /\ u[b] = y
               /\ \A i \in a..(b - 1) : IsDigitAt(i) /\ u[i + 1] = u[i] * Ten + (source[i] - Zero)
  BY DEF Worth
<1> WITNESS v \in [a..b -> Nat]
<1> QED OBVIOUS

LEMMA WorthNothing == ASSUME NEW a \in Nat, NEW x \in Nat PROVE Worth(a, a, x, x)
<1> DEFINE v == [i \in a..a |-> x]
<1>1. v \in [a..a -> Nat] /\ v[a] = x
  OBVIOUS
<1> HIDE DEF v
<1>2. \A i \in a..(a - 1) : IsDigitAt(i) /\ v[i + 1] = v[i] * Ten + (source[i] - Zero)
  OBVIOUS
<1> QED BY <1>1, <1>2, WorthBy

LEMMA WorthOn ==
  ASSUME NEW a \in Nat, NEW b \in Nat, a <= b, NEW x, NEW y, Worth(a, b, x, y), IsDigitAt(b)
  PROVE  Worth(a, b + 1, x, y * Ten + (source[b] - Zero)) /\ y \in Nat
<1>1. PICK v \in [a..b -> Nat] :
        /\ v[a] = x /\ v[b] = y
        /\ \A i \in a..(b - 1) : IsDigitAt(i) /\ v[i + 1] = v[i] * Ten + (source[i] - Zero)
  BY DEF Worth
<1>2. y \in Nat /\ Ten \in Nat /\ source[b] - Zero \in Nat
  BY <1>1, NumberAssumption DEF IsDigitAt, Zero
<1> DEFINE z == y * Ten + (source[b] - Zero)
<1>3. z \in Nat
  <2> DEFINE t == y * Ten
  <2>1. t \in Nat
    BY <1>2
  <2> HIDE DEF t
  <2>2. t + (source[b] - Zero) \in Nat
    BY <1>2, <2>1
  <2> QED BY <2>2 DEF t
<1>a. z = y * Ten + (source[b] - Zero)
  OBVIOUS
<1> HIDE DEF z
<1> DEFINE w == [i \in a..(b + 1) |-> IF i = b + 1 THEN z ELSE v[i]]
<1>4. w \in [a..(b + 1) -> Nat]
  BY <1>1, <1>3
<1>5. (\A i \in a..b : w[i] = v[i]) /\ w[b + 1] = z
  OBVIOUS
<1> HIDE DEF w
<1>6. ASSUME NEW i \in a..b
      PROVE  IsDigitAt(i) /\ w[i + 1] = w[i] * Ten + (source[i] - Zero)
  <2>1. CASE i = b
    BY <1>1, <1>5, <1>a, <2>1
  <2>2. CASE i # b
    <3>1. i \in a..(b - 1) /\ i + 1 \in a..b
      BY <2>2
    <3> QED BY <1>1, <1>5, <3>1
  <2> QED BY <2>1, <2>2
<1> DEFINE N == b + 1
<1>7. N - 1 = b /\ w \in [a..N -> Nat] /\ w[a] = x /\ w[N] = z
  BY <1>1, <1>4, <1>5
<1>8. \A i \in a..(N - 1) : IsDigitAt(i) /\ w[i + 1] = w[i] * Ten + (source[i] - Zero)
  BY <1>6, <1>7
<1> HIDE DEF N
<1>9. Worth(a, N, x, z)
  BY <1>7, <1>8, WorthBy
<1> QED BY <1>2, <1>9, <1>a DEF N

-----------------------------------------------------------------------------
(* What each step of the scanners does to the part of the text that no     *)
(* result tells of yet: it is read on, or a result tells of it.            *)

(* Where the scanners are in the text, at being where the last result      *)
(* ends.                                                                   *)
AtBlank(at) == phase = "space" /\ Blanks(at, read)

InBlock(at) ==
  /\ phase = "block"
  /\ \E a \in Nat : /\ Blanks(at, a) /\ OpensBlock(a) /\ a + 2 <= read
                    /\ \A i \in (a + 2)..(read - 1) : ~Closes(i)

InLine(at) ==
  phase = "line" /\ \E a \in Nat : Blanks(at, a) /\ OpensLine(a) /\ read = a + 1

InText(at) ==
  /\ phase = "string"
  /\ \E from \in Nat : Blanks(at, from) /\ from + 1 = string /\ source[from] = Quote /\ Taken

AtLast(at) == phase = "done" /\ Ended(at)

Tells(at) ==
  \E r : /\ results' = Append(results, r)
         /\ \E from, to \in Nat :
              /\ Blanks(at, from) /\ Lexeme(r, from, to)'
              /\ IF r.type = "error" THEN phase' = "done" ELSE phase' = "space" /\ read' = to

LEMMA TellsError ==
  ASSUME SourceSame, NEW at, NEW from \in Nat, NEW to \in Nat, Blanks(at, from),
         NEW code, ErrorLexeme(from, code, to), throw_parse_error(code, to)
  PROVE  Tells(at)
<1>1. PICK r : r = Error(code, to)
  OBVIOUS
<1>2. r.type = "error" /\ r.value = <<code, to>>
  BY <1>1 DEF Error
<1>3. Lexeme(r, from, to)
  BY <1>2 DEF Lexeme
<1>4. Lexeme(r, from, to)'
  BY <1>2, <1>3, LexemeLater
<1> QED BY <1>1, <1>2, <1>4 DEF throw_parse_error, Tells

LEMMA TellsValue ==
  ASSUME SourceSame, NEW at, NEW from \in Nat, NEW to \in Nat, Blanks(at, from),
         NEW r, results' = Append(results, r), r.type \notin {"error", "string"},
         Lexeme(r, from, to), phase' = "space", read' = to
  PROVE  Tells(at)
BY LexemeLater DEF Tells

-----------------------------------------------------------------------------
(* The text at the read position of a scan that is not over.               *)
LEMMA Ahead ==
  ASSUME Inv, phase # "done"
  PROVE  /\ read \in Nat /\ count \in Nat /\ read <= count /\ source[count] = 0
         /\ \A i \in read..count : bytes[i] = source[i] /\ source[i] \in Byte
         /\ Here = source[read]
         /\ \A k \in Nat : read <= k /\ k <= count /\ source[k] # 0 => k + 1 <= count
<1>1. /\ read \in Nat /\ count \in Nat /\ read <= count /\ source[count] = 0
      /\ \A i \in read..count : bytes[i] = source[i] /\ source[i] \in Byte
  BY DEF Inv, ReadInside
<1> QED BY <1>1 DEF Here

LEMMA SpaceScans ==
  ASSUME Inv, SourceSame, NEW at \in Nat, AtBlank(at), SkipSpace
  PROVE  results' = results /\ AtBlank(at)'
<1>1. phase = "space" /\ Blanks(at, read)
  BY DEF AtBlank
<1>2. read \in Nat /\ Here = source[read]
  BY <1>1, Ahead
<1>3. results' = results /\ phase' = "space" /\ read' = read + 1 /\ source[read] \in Spaces
  BY <1>2 DEF SkipSpace, AtSpace, Continues
<1>4. Blank(read, read + 1)
  BY <1>2, <1>3 DEF Blank
<1>5. PICK to \in Nat : to = read + 1
  BY <1>2
<1>6. Blanks(at, to)
  BY <1>1, <1>2, <1>4, <1>5, BlanksOn
<1>7. Blanks(at, to)'
  BY <1>6, BlanksLater
<1>8. read' = to
  BY <1>3, <1>5
<1> QED BY <1>3, <1>7, <1>8, BlanksLater DEF AtBlank

LEMMA BlankOver ==
  ASSUME SourceSame, NEW at \in Nat, NEW a \in Nat, Blanks(at, a),
         NEW to \in Nat, a <= to, Blank(a, to), phase' = "space", read' = to
  PROVE  AtBlank(at)'
<1>1. Blanks(at, to)
  BY BlanksOn
<1>2. Blanks(at, to)'
  BY <1>1, BlanksLater
<1> QED BY <1>2, BlanksLater DEF AtBlank

LEMMA TextEnds ==
  ASSUME SourceSame, NEW at \in Nat, NEW a \in Nat, Blanks(at, a), Unclosed(a) \/ a = count,
         phase' = "done"
  PROVE  AtLast(at)'
<1>1. Ended(at)
  BY DEF Ended
<1>2. Ended(at)'
  BY <1>1, BlanksLater
<1> QED BY <1>2 DEF AtLast

LEMMA CommentStarts ==
  ASSUME Inv, SourceSame, NEW at \in Nat, AtBlank(at), StartComment
  PROVE  (results' = results /\ (InBlock(at)' \/ InLine(at)')) \/ Tells(at)
<1>1. phase = "space" /\ Blanks(at, read)
  BY DEF AtBlank
<1>2. /\ read \in Nat /\ count \in Nat /\ Here = source[read]
      /\ \A i \in read..count : bytes[i] = source[i]
      /\ \A k \in Nat : read <= k /\ k <= count /\ source[k] # 0 => k + 1 <= count
      /\ read <= count
  BY <1>1, Ahead
<1>3. allow_comments /\ source[read] = Slash
  BY <1>2 DEF StartComment, AtComment
<1>4. bytes[read + 1] = source[read + 1]
  <2>1. read + 1 <= count
    BY <1>2, <1>3 DEF Slash
  <2> QED BY <1>2, <2>1
<1>a. PICK a \in Nat : a = read
  BY <1>2
<1>5. CASE source[read + 1] = Star
  <2>1. results' = results /\ phase' = "block" /\ read' = read + 2
    BY <1>4, <1>5 DEF StartComment, Continues, CommentBody, Star, Slash
  <2>2. Blanks(at, a) /\ OpensBlock(a) /\ read' = a + 2
    BY <1>1, <1>3, <1>5, <1>a, <2>1 DEF OpensBlock
  <2>3. Blanks(at, a)' /\ OpensBlock(a)' /\ \A i \in (a + 2)..(read' - 1) : ~Closes(i)'
    BY <2>2, BlanksLater
  <2> QED BY <2>1, <2>2, <2>3 DEF InBlock
<1>6. CASE source[read + 1] = Slash
  <2>1. results' = results /\ phase' = "line" /\ read' = read + 1
    BY <1>4, <1>6 DEF StartComment, Continues, Star, Slash
  <2>2. Blanks(at, a) /\ OpensLine(a) /\ read' = a + 1
    BY <1>1, <1>3, <1>6, <1>a, <2>1 DEF OpensLine
  <2>3. Blanks(at, a)' /\ OpensLine(a)'
    BY <2>2, BlanksLater
  <2> QED BY <2>1, <2>2, <2>3 DEF InLine
<1>7. CASE source[read + 1] \notin {Star, Slash}
  <2>1. PICK to \in Nat : to = read + 1
    BY <1>2
  <2>2. throw_parse_error("UNEXPECTED", to)
    BY <1>4, <1>7, <2>1 DEF StartComment, Throwing, throw_parse_error
  <2>3. CommentFault(a, to)
    BY <1>3, <1>7, <1>a, <2>1 DEF CommentFault
  <2>4. ErrorLexeme(a, "UNEXPECTED", to)
    BY <2>3 DEF ErrorLexeme
  <2> QED BY <1>1, <1>a, <2>2, <2>4, TellsError
<1> QED BY <1>5, <1>6, <1>7

LEMMA BlockScans ==
  ASSUME Inv, SourceSame, NEW at \in Nat, InBlock(at), BlockComment
  PROVE  results' = results /\ (AtBlank(at)' \/ InBlock(at)' \/ AtLast(at)')
<1>1. PICK a \in Nat : /\ Blanks(at, a) /\ OpensBlock(a) /\ a + 2 <= read
                       /\ \A i \in (a + 2)..(read - 1) : ~Closes(i)
  BY DEF InBlock
<1>2. /\ read \in Nat /\ count \in Nat /\ source[count] = 0
      /\ \A i \in read..count : bytes[i] = source[i]
      /\ \A k \in Nat : read <= k /\ k <= count /\ source[k] # 0 => k + 1 <= count
      /\ read <= count
  BY Ahead DEF BlockComment
<1>0. results' = results
  BY DEF BlockComment, Continues
<1>3. CASE FindsNone(Star) /\ Continues("done", TextEnd)
  <2>1. PICK end \in Nat : /\ read <= end /\ end <= count /\ source[end] = 0
                           /\ \A i \in read..(end - 1) : source[i] # Star
    BY <1>3, NulInTheWay DEF BlockComment
  <2>2. \A i \in (a + 2)..(end - 1) : ~Closes(i)
    BY <1>1, <1>2, <2>1 DEF Closes
  <2>3. Unclosed(a)
    BY <1>1, <1>2, <2>1, <2>2 DEF Unclosed
  <2>4. phase' = "done"
    BY <1>3 DEF Continues
  <2> QED BY <1>0, <1>1, <2>3, <2>4, TextEnds
<1>4. ASSUME NEW i \in read..count, Finds(Star, i),
             Continues(CASE bytes[i + 1] = Slash -> "space"
                         [] bytes[i + 1] # Slash /\ AfterStar(i) = count -> "done"
                         [] OTHER -> "block",
                       AfterStar(i))
      PROVE  AtBlank(at)' \/ InBlock(at)' \/ AtLast(at)'
  <2>1. /\ i \in Nat /\ source[i] = Star /\ i + 1 <= count /\ bytes[i + 1] = source[i + 1]
        /\ \A j \in read..(i - 1) : source[j] # Star
    <3>1. /\ i \in Nat /\ source[i] = Star
          /\ \A j \in read..(i - 1) : bytes[j] # Star /\ bytes[j] = source[j]
      BY <1>2, <1>4 DEF Finds
    <3>2. i + 1 <= count
      BY <1>2, <3>1 DEF Star
    <3> QED BY <1>2, <3>1, <3>2
  <2>2. \A j \in (a + 2)..(i - 1) : ~Closes(j)
    BY <1>1, <1>2, <2>1 DEF Closes
  <2>3. CASE source[i + 1] = Slash
    <3>1. PICK to \in Nat : to = i + 2
      BY <2>1
    <3>2. phase' = "space" /\ read' = to
      BY <1>4, <2>1, <2>3, <3>1 DEF Continues, AfterStar
    <3>3. Closes(to - 2) /\ a + 4 <= to /\ (to - 3) = i - 1
      <4>1. to - 2 = i /\ to - 3 = i - 1 /\ a + 4 <= to
        BY <1>1, <1>2, <2>1, <3>1
      <4> QED BY <2>1, <2>3, <4>1 DEF Closes
    <3>4. Blank(a, to)
      BY <1>1, <2>2, <3>3 DEF Blank
    <3> QED BY <1>1, <3>2, <3>3, <3>4, BlankOver
  <2>4. CASE source[i + 1] # Slash
    <3>1. \A j \in (a + 2)..i : ~Closes(j)
      BY <2>1, <2>2, <2>4 DEF Closes
    <3>2. AfterStar(i) = i + 1
      BY <2>1, <2>4 DEF AfterStar
    <3>3. CASE i + 1 = count
      <4>1. phase' = "done"
        BY <1>4, <2>1, <2>4, <3>2, <3>3 DEF Continues
      <4>2. count \in (a + 1)..count /\ count - 1 = i
        BY <1>1, <1>2, <2>1, <3>3
      <4>3. Unclosed(a)
        BY <1>1, <1>2, <3>1, <4>2 DEF Unclosed
      <4> QED BY <1>1, <4>1, <4>3, TextEnds
    <3>4. CASE i + 1 # count
      <4>1. phase' = "block" /\ read' = i + 1
        BY <1>4, <2>1, <2>4, <3>2, <3>4 DEF Continues
      <4>2. a + 2 <= i + 1 /\ (i + 1) - 1 = i
        BY <1>1, <1>2, <2>1
      <4>3. Blanks(at, a)' /\ OpensBlock(a)' /\ \A j \in (a + 2)..i : ~Closes(j)'
        BY <1>1, <3>1, BlanksLater
      <4> QED BY <4>1, <4>2, <4>3 DEF InBlock
    <3> QED BY <3>3, <3>4
  <2> QED BY <2>3, <2>4
<1> QED BY <1>0, <1>3, <1>4 DEF BlockComment

LEMMA LineScans ==
  ASSUME Inv, SourceSame, NEW at \in Nat, InLine(at), LineComment
  PROVE  results' = results /\ (AtBlank(at)' \/ AtLast(at)')
<1>1. PICK a \in Nat : Blanks(at, a) /\ OpensLine(a) /\ read = a + 1
  BY DEF InLine
<1>2. /\ count \in Nat /\ read <= count
      /\ \A i \in read..count : bytes[i] = source[i]
  BY Ahead DEF LineComment
<1>0. results' = results
  BY DEF LineComment, Continues
<1>3. source[a + 1] = Slash
  BY <1>1 DEF OpensLine
<1>4. CASE FindsNone(Newline) /\ Continues("done", TextEnd)
  <2>1. PICK end \in Nat : /\ read <= end /\ end <= count /\ source[end] = 0
                           /\ \A i \in read..(end - 1) : source[i] # Newline
    BY <1>4, NulInTheWay DEF LineComment
  <2>2. Unclosed(a)
    BY <1>1, <1>2, <2>1 DEF Unclosed
  <2>3. phase' = "done"
    BY <1>4 DEF Continues
  <2> QED BY <1>0, <1>1, <2>2, <2>3, TextEnds
<1>5. ASSUME NEW i \in read..count, Finds(Newline, i), Continues("space", i)
      PROVE  AtBlank(at)'
  <2>1. /\ i \in Nat /\ source[i] = Newline
        /\ \A j \in read..(i - 1) : source[j] # Newline
    BY <1>1, <1>2, <1>5 DEF Finds
  <2>2. a + 2 <= i
    BY <1>1, <1>3, <2>1 DEF Slash, Newline
  <2>3. Blank(a, i)
    BY <1>1, <2>1, <2>2 DEF Blank
  <2>4. phase' = "space" /\ read' = i
    BY <1>5 DEF Continues
  <2> QED BY <1>1, <2>1, <2>2, <2>3, <2>4, BlankOver
<1> QED BY <1>0, <1>4, <1>5 DEF LineComment

LEMMA WordTells ==
  ASSUME Inv, SourceSame, NEW at \in Nat, AtBlank(at), Word
  PROVE  Tells(at)
<1>1. phase = "space" /\ Blanks(at, read)
  BY DEF AtBlank
<1>2. /\ read \in Nat /\ count \in Nat
      /\ \A i \in read..count : bytes[i] = source[i]
      /\ \A k \in Nat : read <= k /\ k <= count /\ source[k] # 0 => k + 1 <= count
  BY <1>1, Ahead
<1>3. PICK word \in Words :
        /\ Matches(word, 1)
        /\ \/ /\ Matches(word, Len(word))
              /\ read' = read + Len(word) /\ Return("word", word)
           \/ \E bad \in 2..Len(word) :
                /\ Matches(word, bad - 1)
                /\ bytes[read + bad - 1] # word[bad]
                /\ throw_parse_error("UNEXPECTED", read + bad - 1)
  BY DEF Word
<1>4. Len(word) \in 4..5 /\ \A i \in 1..Len(word) : word[i] # 0
  BY WordsSpelled
<1>5. ASSUME NEW n \in 1..Len(word), Matches(word, n)
      PROVE  /\ \A k \in 1..n : source[read + k - 1] = word[k]
             /\ read + n <= count
  <2>1. \A k \in 1..n : /\ read + k - 1 <= count /\ bytes[read + k - 1] = word[k]
                        /\ read + k - 1 \in Nat /\ read <= read + k - 1
    BY <1>2, <1>4, <1>5 DEF Matches
  <2>2. \A k \in 1..n : source[read + k - 1] = word[k]
    BY <1>2, <2>1
  <2>3. n \in 1..n
    BY <1>4
  <2>4. read + n - 1 <= count /\ source[read + n - 1] # 0 /\ read + n - 1 \in Nat /\ read <= read + n - 1
    <3>1. word[n] # 0 /\ source[read + n - 1] = word[n]
      BY <1>4, <2>2, <2>3
    <3> QED BY <2>1, <2>3, <3>1
  <2>5. (read + n - 1) + 1 <= count
    BY <1>2, <2>4
  <2> QED BY <1>2, <1>4, <2>2, <2>5
<1>a. PICK from \in Nat : from = read
  BY <1>2
<1>6. CASE Matches(word, Len(word)) /\ read' = read + Len(word) /\ Return("word", word)
  <2>1. PICK to \in Nat : to = read + Len(word)
    BY <1>2, <1>4
  <2>2. PICK r : r = Value("word", word)
    OBVIOUS
  <2>3. r.type = "word" /\ r.value = word /\ r.type \notin {"error", "string"}
    BY <2>2 DEF Value
  <2>4. At(from, word)
    BY <1>4, <1>5, <1>6, <1>a DEF At
  <2>5. Lexeme(r, from, to)
    BY <1>a, <2>1, <2>3, <2>4 DEF Lexeme, WordLexeme
  <2>6. results' = Append(results, r) /\ phase' = "space" /\ read' = to
    BY <1>6, <2>1, <2>2 DEF Return
  <2> QED BY <1>1, <1>a, <2>3, <2>5, <2>6, TellsValue
<1>7. ASSUME NEW bad \in 2..Len(word), Matches(word, bad - 1), bytes[read + bad - 1] # word[bad],
             throw_parse_error("UNEXPECTED", read + bad - 1)
      PROVE  Tells(at)
  <2>1. bad - 1 \in 1..Len(word)
    BY <1>4
  <2>2. /\ \A k \in 1..(bad - 1) : source[read + k - 1] = word[k]
        /\ read + (bad - 1) <= count
    BY <1>5, <1>7, <2>1
  <2>3. PICK to \in Nat : to = read + bad - 1
    BY <1>2, <1>4
  <2>4. source[to] # word[bad]
    BY <1>2, <1>4, <1>7, <2>2, <2>3
  <2>5. WordFault(from, to)
    BY <1>a, <2>2, <2>3, <2>4 DEF WordFault
  <2>6. ErrorLexeme(from, "UNEXPECTED", to)
    BY <2>5 DEF ErrorLexeme
  <2>7. throw_parse_error("UNEXPECTED", to)
    BY <1>7, <2>3 DEF throw_parse_error
  <2> QED BY <1>1, <1>a, <2>6, <2>7, TellsError
<1> QED BY <1>3, <1>6, <1>7

LEMMA MarkTells ==
  ASSUME Inv, SourceSame, NEW at \in Nat, AtBlank(at), Mark \/ Junk
  PROVE  Tells(at)
<1>1. phase = "space" /\ Blanks(at, read)
  BY DEF AtBlank
<1>2. read \in Nat /\ count \in Nat /\ Here = source[read] /\ read <= count
  BY <1>1, Ahead
<1>a. PICK from \in Nat : from = read
  BY <1>2
<1>3. CASE Mark
  <2>1. PICK to \in Nat : to = read + 1
    BY <1>2
  <2>2. PICK r : r = Value("mark", <<source[read]>>)
    OBVIOUS
  <2>3. r.type = "mark" /\ r.value = <<source[read]>> /\ r.type \notin {"error", "string"}
    BY <2>2 DEF Value
  <2>4. source[read] \in Marks /\ results' = Append(results, r) /\ phase' = "space" /\ read' = to
    BY <1>2, <1>3, <2>1, <2>2 DEF Mark, Return
  <2>5. Lexeme(r, from, to)
    BY <1>a, <2>1, <2>3, <2>4 DEF Lexeme, MarkLexeme
  <2> QED BY <1>1, <1>a, <2>3, <2>4, <2>5, TellsValue
<1>4. CASE Junk
  <2>1. throw_parse_error("UNEXPECTED", from)
    BY <1>4, <1>a DEF Junk, Throwing, throw_parse_error
  <2>2. NoLexeme(from, from)
    BY <1>2, <1>4, <1>a DEF Junk, AtToken, NoLexeme
  <2>3. ErrorLexeme(from, "UNEXPECTED", from)
    BY <2>2 DEF ErrorLexeme
  <2> QED BY <1>1, <1>a, <2>1, <2>3, TellsError
<1> QED BY <1>3, <1>4

LEMMA EndIsLast ==
  ASSUME Inv, SourceSame, NEW at \in Nat, AtBlank(at), End
  PROVE  results' = results /\ AtLast(at)'
<1>1. phase = "space" /\ Blanks(at, read)
  BY DEF AtBlank
<1>2. read \in Nat /\ read = count /\ results' = results /\ phase' = "done"
  BY <1>1, Ahead DEF End, Continues
<1>a. PICK a \in Nat : a = read
  BY <1>2
<1> QED BY <1>1, <1>2, <1>a, TextEnds

LEMMA StringStarts ==
  ASSUME Typed, SourceSame, NEW at \in Nat, AtBlank(at), String
  PROVE  results' = results /\ InText(at)'
<1>1. phase = "space" /\ Blanks(at, read) /\ Inv
  BY DEF AtBlank, Typed
<1>2. read \in Nat
  BY <1>1, Ahead
<1>3. results' = results /\ phase' = "string"
  BY DEF String
<1>4. Taken' /\ string' = read + 1 /\ source[read] = Quote
  BY StringBegins
<1>a. PICK from \in Nat : from = read
  BY <1>2
<1>5. Blanks(at, from)' /\ source'[from] = Quote /\ from + 1 = string'
  BY <1>1, <1>4, <1>a, BlanksLater DEF SourceSame
<1> QED BY <1>3, <1>4, <1>5 DEF InText

LEMMA TextScans ==
  ASSUME Typed, SourceSame, NEW at \in Nat, InText(at), StringNext
  PROVE  (results' = results /\ InText(at)') \/ Tells(at)
<1>1. phase = "string" /\ Inv
  BY DEF InText, Typed
<1>2. PICK from \in Nat : Blanks(at, from) /\ from + 1 = string /\ source[from] = Quote /\ Taken
  BY DEF InText
<1>3. Blanks(at, from)' /\ source'[from] = Quote
  BY <1>2, BlanksLater DEF SourceSame
<1>4. ASSUME Taken', string' = string, phase' = "string", results' = results
      PROVE  results' = results /\ InText(at)'
  BY <1>2, <1>3, <1>4 DEF InText
<1>5. CASE Plain \/ Multibyte
  <2>1. results' = results
    BY <1>5 DEF Plain, Multibyte, Taking
  <2> QED BY <1>2, <1>4, <1>5, <2>1, LiteralGoesOn
<1>6. CASE SimpleEscape \/ UnitEscape \/ PairEscape
  <2>1. results' = results
    BY <1>6 DEF SimpleEscape, UnitEscape, PairEscape, Encoded
  <2> QED BY <1>2, <1>4, <1>6, <2>1, EscapeGoesOn
<1>7. CASE Complete
  <2>1. PICK r : /\ results' = Append(results, r) /\ r.type = "string"
                 /\ \E to \in Nat : to = read' /\ StringLexeme(r, from, to)'
    BY <1>2, <1>7, StringIsTaken
  <2>2. phase' = "space"
    BY <1>7 DEF Complete, Return
  <2>3. PICK to \in Nat : to = read' /\ StringLexeme(r, from, to)'
    BY <2>1
  <2>4. Lexeme(r, from, to)'
    BY <2>1, <2>3 DEF Lexeme
  <2> QED BY <1>2, <2>1, <2>2, <2>3, <2>4 DEF Tells
<1>8. CASE BadSequence \/ Control \/ BadEscape
  <2>1. PICK code : \E to \in Nat : Fails(read, code, to)
    BY <1>8, StringFails
  <2>2. PICK to \in Nat : Fails(read, code, to)
    BY <2>1
  <2>3. throw_parse_error(code, to) /\ StringFault(read, code, to)
    BY <2>2 DEF Fails, throw_parse_error
  <2>4. PICK a \in Nat, last \in Nat : a = read /\ last = MovedTo
    BY <1>1, TextAhead
  <2>5. Decodes(from + 1, a, Moved, from + 1, last) /\ StringFault(a, code, to)
    BY <1>2, <2>3, <2>4 DEF Taken
  <2>6. FaultyString(from, code, to)
    BY <1>2, <2>5 DEF FaultyString
  <2>7. ErrorLexeme(from, code, to)
    BY <2>6 DEF ErrorLexeme
  <2> QED BY <1>2, <2>3, <2>7, TellsError
<1> QED BY <1>5, <1>6, <1>7, <1>8 DEF StringNext

-----------------------------------------------------------------------------
(* Numbers: the sum is below a power of the base, so that as many digits   *)
(* are kept as fit, and what the scanner holds is told by the digits it    *)
(* has read.                                                               *)

(* The powers of the base.                                                 *)
LEMMA PowersGrow ==
  /\ \A k \in 0..MaxSigDigits : Ten ^ k \in Nat \ {0}
  /\ \A k \in 0..(MaxSigDigits - 1) :
       Ten ^ (k + 1) = Ten * Ten ^ k /\ Ten ^ (k + 1) <= 2 * (LongMax + 1)
<1>0. Ten \in 2..10 /\ MaxSigDigits \in Nat \ {0} /\ Ten ^ 0 = 1
  BY NumberAssumption
<1>1. ASSUME NEW k \in 0..(MaxSigDigits - 1)
      PROVE  Ten ^ (k + 1) = Ten * Ten ^ k /\ Ten ^ (k + 1) <= 2 * (LongMax + 1)
  <2>1. k + 1 \in 1..MaxSigDigits /\ (k + 1) - 1 = k
    BY <1>0
  <2>2. Ten ^ (k + 1) = Ten * Ten ^ ((k + 1) - 1) /\ Ten ^ (k + 1) <= 2 * (LongMax + 1)
    BY <2>1, NumberAssumption
  <2> QED BY <2>1, <2>2
<1> DEFINE T == {k \in 0..MaxSigDigits : Ten ^ k \notin Nat \ {0}}
<1>2. T = {}
  <2>1. SUFFICES ASSUME T # {} PROVE FALSE
    OBVIOUS
  <2>2. T \subseteq Nat
    BY <1>0
  <2>3. PICK k \in T : \A j \in T : k <= j
    <3> HIDE DEF T
    <3> QED BY <2>1, <2>2, LeastOf
  <2>4. k \in 0..MaxSigDigits /\ Ten ^ k \notin Nat \ {0} /\ k # 0
    BY <1>0
  <2>5. PICK j \in 0..(MaxSigDigits - 1) : k = j + 1
    <3>1. k - 1 \in 0..(MaxSigDigits - 1) /\ k = (k - 1) + 1
      BY <1>0, <2>4
    <3> QED BY <3>1
  <2>6. Ten ^ j \in Nat \ {0}
    <3>1. j \in 0..MaxSigDigits /\ ~(k <= j)
      BY <1>0, <2>5
    <3> QED BY <2>3, <3>1
  <2>7. \A x \in Nat \ {0} : Ten * x \in Nat \ {0}
    BY <1>0
  <2> QED BY <1>1, <2>4, <2>5, <2>6, <2>7
<1> QED BY <1>1, <1>2

LEMMA LargestPowerOfTen == \A k \in 0..MaxSigDigits : Ten ^ k <= Ten ^ MaxSigDigits
<1>0. Ten \in 2..10 /\ MaxSigDigits \in Nat \ {0}
  BY NumberAssumption
<1> DEFINE T == {i \in 0..MaxSigDigits : ~(Ten ^ (MaxSigDigits - i) <= Ten ^ MaxSigDigits)}
<1>1. T = {}
  <2>1. SUFFICES ASSUME T # {} PROVE FALSE
    OBVIOUS
  <2>2. T \subseteq Nat
    BY <1>0
  <2>3. PICK i \in T : \A j \in T : i <= j
    <3> HIDE DEF T
    <3> QED BY <2>1, <2>2, LeastOf
  <2>4. i \in 0..MaxSigDigits /\ ~(Ten ^ (MaxSigDigits - i) <= Ten ^ MaxSigDigits)
    OBVIOUS
  <2>5. i # 0
    <3>1. MaxSigDigits - 0 = MaxSigDigits /\ Ten ^ MaxSigDigits \in Nat
      BY <1>0, PowersGrow
    <3> QED BY <2>4, <3>1
  <2>6. i - 1 \in 0..MaxSigDigits /\ ~(i <= i - 1)
    BY <1>0, <2>4, <2>5
  <2>7. Ten ^ (MaxSigDigits - (i - 1)) <= Ten ^ MaxSigDigits
    BY <2>3, <2>6
  <2>8. PICK k \in 0..(MaxSigDigits - 1) : k = MaxSigDigits - i /\ k + 1 = MaxSigDigits - (i - 1)
    BY <1>0, <2>4, <2>5
  <2>9. Ten ^ (k + 1) = Ten * Ten ^ k /\ Ten ^ k \in Nat /\ Ten ^ MaxSigDigits \in Nat
    BY <1>0, PowersGrow
  <2>10. \A x \in Nat : x <= Ten * x /\ Ten * x \in Nat
    BY <1>0
  <2>11. Ten ^ k <= Ten ^ (k + 1) /\ Ten ^ (k + 1) <= Ten ^ MaxSigDigits
    BY <2>7, <2>8, <2>9, <2>10
  <2>12. Ten ^ (k + 1) \in Nat
    BY <2>9, <2>10
  <2>13. Ten ^ k <= Ten ^ MaxSigDigits
    BY <2>9, <2>11, <2>12
  <2> QED BY <2>4, <2>8, <2>13
<1>2. ASSUME NEW k \in 0..MaxSigDigits PROVE Ten ^ k <= Ten ^ MaxSigDigits
  <2>1. PICK i \in 0..MaxSigDigits : k = MaxSigDigits - i
    <3>1. MaxSigDigits - k \in 0..MaxSigDigits /\ k = MaxSigDigits - (MaxSigDigits - k)
      BY <1>0
    <3> QED BY <3>1
  <2> QED BY <1>1, <2>1
<1> QED BY <1>2

(* A sum of as many digits as are counted, the first of them no zero.      *)
Sized(x, digits) ==
  LET kept == Min2(digits, MaxSigDigits)
  IN x < Ten ^ kept /\ (kept > 0 => Ten ^ (kept - 1) <= x)

LEMMA TimesBase ==
  ASSUME NEW x \in Nat, NEW p \in Nat, NEW d \in Nat, d < Ten
  PROVE  /\ x * Ten + d \in Nat
         /\ x < p => x * Ten + d < Ten * p
         /\ p <= x => Ten * p <= x * Ten + d
<1>1. Ten \in 2..10
  BY NumberAssumption
<1> QED BY <1>1

LEMMA SumFitsDigit ==
  ASSUME NEW x \in Nat, NEW digits \in Nat, Sized(x, digits), digits < MaxSigDigits,
         NEW d \in Nat, d < Ten
  PROVE  /\ x * Ten + d \in Nat /\ Wrapped(x * Ten + d) = x * Ten + d
         /\ (digits > 0 \/ d > 0) => x * Ten + d > 0 /\ Sized(x * Ten + d, digits + 1)
         /\ ~(digits > 0 \/ d > 0) => x * Ten + d = 0 /\ Sized(x * Ten + d, digits)
<1>0. Ten \in 2..10 /\ MaxSigDigits \in Nat \ {0} /\ Ten ^ 0 = 1 /\ LongMax \in Nat
  BY NumberAssumption
<1> DEFINE y == x * Ten + d
<1>1. /\ Min2(digits, MaxSigDigits) = digits /\ Min2(digits + 1, MaxSigDigits) = digits + 1
      /\ (digits + 1) - 1 = digits /\ digits + 1 > 0
  BY <1>0 DEF Min2
<1>2. x < Ten ^ digits /\ (digits > 0 => Ten ^ (digits - 1) <= x)
  BY <1>1 DEF Sized
<1> DEFINE p == Ten ^ digits  q == Ten ^ (digits + 1)
<1>3. p \in Nat \ {0} /\ q \in Nat /\ q = Ten * p /\ q <= 2 * (LongMax + 1)
  <2>1. digits \in 0..MaxSigDigits /\ digits \in 0..(MaxSigDigits - 1) /\ digits + 1 \in 0..MaxSigDigits
    BY <1>0
  <2> QED BY <2>1, PowersGrow
<1>4. x < p
  BY <1>2
<1>5. y \in Nat /\ y < q
  <2> HIDE DEF p, q
  <2> QED BY <1>3, <1>4, TimesBase
<1>6. digits > 0 => p <= y
  <2>1. SUFFICES ASSUME digits > 0 PROVE p <= y
    OBVIOUS
  <2> DEFINE r == Ten ^ (digits - 1)
  <2>2. r \in Nat /\ p = Ten * r /\ r <= x
    <3>1. digits - 1 \in 0..MaxSigDigits /\ digits - 1 \in 0..(MaxSigDigits - 1) /\ (digits - 1) + 1 = digits
      BY <1>0, <2>1
    <3>2. Ten ^ ((digits - 1) + 1) = Ten * Ten ^ (digits - 1) /\ Ten ^ (digits - 1) \in Nat
      BY <3>1, PowersGrow
    <3> QED BY <1>2, <2>1, <3>1, <3>2
  <2> HIDE DEF p, r
  <2> QED BY <2>2, TimesBase
<1>7. digits = 0 => x = 0 /\ y = d /\ p = 1
  BY <1>0, <1>2
<1> HIDE DEF p, q, y
<1>8. Wrapped(y) = y
  BY <1>0, <1>3, <1>5 DEF Wrapped
<1>9. digits > 0 \/ d > 0 => y > 0 /\ p <= y
  BY <1>3, <1>5, <1>6, <1>7
<1>10. digits > 0 \/ d > 0 => Sized(y, digits + 1)
  BY <1>1, <1>5, <1>9 DEF Sized, p, q
<1>11. ~(digits > 0 \/ d > 0) => y = 0 /\ Sized(y, digits)
  <2>1. ~(digits > 0 \/ d > 0) => digits = 0 /\ d = 0
    OBVIOUS
  <2> QED BY <1>1, <1>7, <2>1 DEF Sized, p
<1> QED BY <1>5, <1>8, <1>9, <1>10, <1>11 DEF y

Locals(negative, sum, exponent, sig_digits, force_double, exp_sign, exp) ==
  [negative |-> negative, sum |-> sum, exponent |-> exponent, sig_digits |-> sig_digits,
   force_double |-> force_double, exp_sign |-> exp_sign, exp |-> exp]

(* What the locals of parse_number hold of the number that begins at from. *)
SignOf(from) == IF source[from] = Minus THEN TRUE ELSE FALSE
SigDigits(from, at) == IF source[FirstDigit(from)] = Zero THEN 0 ELSE at - FirstDigit(from)

WholeRead(from) ==
  \E x, left \in Nat :
    /\ number = Locals(SignOf(from), x, left, SigDigits(from, read), FALSE, 1, 0)
    /\ WholePart(FirstDigit(from), read, x, left)
    /\ Sized(x, SigDigits(from, read))
    /\ phase = IF source[FirstDigit(from)] = Zero THEN "point" ELSE "whole"

FractionRead(from) ==
  /\ phase = "fraction"
  /\ \E p, kept, x, y, left, digits \in Nat :
       /\ number = Locals(SignOf(from), y, left - (kept - (p + 1)), digits, TRUE, 1, 0)
       /\ WholePart(FirstDigit(from), p, x, left) /\ source[p] = PointByte
       /\ p + 1 <= kept /\ kept <= read /\ Worth(p + 1, kept, x, y)
       /\ Digits(p + 1, read) /\ (read = p + 1 => IsDigitAt(read))
       /\ Sized(y, digits) /\ (kept < read => digits >= MaxSigDigits)

ExponentRead(from) ==
  /\ phase = "exponent"
  /\ \E q, y, exp, digits \in Nat : \E power \in Int : \E plain \in BOOLEAN :
       /\ number = Locals(SignOf(from), y, power, digits, TRUE, ExponentSign(q), exp)
       /\ Mantissa(from, q, y, power, plain) /\ source[q] \in E_e
       /\ ExponentDigits(q) <= read /\ Worth(ExponentDigits(q), read, 0, exp)
       /\ exp <= ExpLimit /\ (read = ExponentDigits(q) => IsDigitAt(read))

NumberRead(from) == WholeRead(from) \/ FractionRead(from) \/ ExponentRead(from)
InNumber(at) == \E from \in Nat : Blanks(at, from) /\ NumberRead(from)

LEMMA DigitAhead ==
  ASSUME Inv, phase # "done", NEW k \in Nat, read <= k, k <= count
  PROVE  /\ Digit(bytes[k]) < Ten <=> IsDigitAt(k)
         /\ IsDigitAt(k) => /\ Digit(bytes[k]) = source[k] - Zero /\ source[k] - Zero \in Nat
                            /\ source[k] - Zero < Ten /\ k + 1 <= count
<1>1. Ten \in 2..10
  BY NumberAssumption
<1>2. bytes[k] = source[k] /\ source[k] \in Byte /\ (source[k] # 0 => k + 1 <= count)
  BY Ahead
<1>3. \A b \in Byte : Digit(b) = IF b < 48 THEN b + 208 ELSE b - 48
  BY DEF Digit, Zero, Byte
<1> QED BY <1>1, <1>2, <1>3 DEF IsDigitAt, Zero, Byte

LEMMA ReadLater ==
  ASSUME SourceSame, NEW from, NEW at
  PROVE  /\ SignOf(from)' = SignOf(from) /\ FirstDigit(from)' = FirstDigit(from)
         /\ SigDigits(from, at)' = SigDigits(from, at)
BY PartsLater DEF SourceSame, SignOf, SigDigits

LEMMA WholeBegins ==
  ASSUME NEW w \in Nat, IsDigitAt(w), NEW d, d = source[w] - Zero, d \in Nat
  PROVE  WholePart(w, w + 1, d, 0)
<1>0. MaxSigDigits \in Nat \ {0} /\ Ten \in 2..10
  BY NumberAssumption
<1>1. Worth(w, w, 0, 0)
  BY WorthNothing
<1>2. Worth(w, w + 1, 0, 0 * Ten + (source[w] - Zero))
  BY <1>1, WorthOn
<1>3. 0 * Ten + (source[w] - Zero) = d
  BY <1>0
<1>4. Worth(w, w + 1, 0, d)
  BY <1>2, <1>3
<1>5. Digits(w, w + 1) /\ w < w + 1
  BY DEF Digits
<1>6. Min2(w + 1, w + MaxSigDigits) = w + 1
  BY <1>0 DEF Min2
<1>7. 0 = (w + 1) - (w + 1)
  OBVIOUS
<1> QED BY <1>4, <1>5, <1>6, <1>7 DEF WholePart

LEMMA SizedNothing == Sized(0, 0)
<1>1. Min2(0, MaxSigDigits) = 0 /\ Ten ^ 0 = 1
  BY NumberAssumption DEF Min2
<1> QED BY <1>1 DEF Sized

LEMMA NumberStarts ==
  ASSUME Inv, SourceSame, NEW at \in Nat, AtBlank(at), Number
  PROVE  (results' = results /\ InNumber(at)') \/ Tells(at)
<1>1. phase = "space" /\ Blanks(at, read)
  BY DEF AtBlank
<1>2. /\ read \in Nat /\ count \in Nat /\ Here = source[read] /\ read <= count
      /\ \A i \in read..count : bytes[i] = source[i]
      /\ \A k \in Nat : read <= k /\ k <= count /\ source[k] # 0 => k + 1 <= count
  BY <1>1, Ahead
<1>a. PICK from \in Nat : from = read
  BY <1>2
<1>b. PICK w \in Nat : w = FirstDigit(from) /\ w = IF Here = Minus THEN read + 1 ELSE read
  BY <1>2, <1>a DEF FirstDigit, Negative
<1>3. read <= w /\ w <= count
  BY <1>2, <1>b DEF Minus
<1>4. PICK d : d = Digit(bytes[w])
  OBVIOUS
<1>5. /\ d < Ten <=> IsDigitAt(w)
      /\ IsDigitAt(w) => d = source[w] - Zero /\ d \in Nat /\ d < Ten
  BY <1>1, <1>3, <1>4, DigitAhead
<1>6. CASE d < Ten
  <2> DEFINE s == SignOf(from)
  <2>1. s = (Here = Minus)
    BY <1>2, <1>a DEF SignOf
  <2> HIDE DEF s
  <2>2. PICK digits \in Nat : digits = IF d # 0 THEN 1 ELSE 0
    OBVIOUS
  <2>3. /\ results' = results /\ read' = w + 1
        /\ phase' = IF d # 0 THEN "whole" ELSE "point"
        /\ number' = [NoNumber EXCEPT !.negative = s, !.sum = d, !.sig_digits = digits]
    BY <1>4, <1>6, <1>b, <2>1, <2>2 DEF Number, parse_number, Goes
  <2>4. [NoNumber EXCEPT !.negative = s, !.sum = d, !.sig_digits = digits]
          = Locals(s, d, 0, digits, FALSE, 1, 0)
    <3>1. PICK m : m = [NoNumber EXCEPT !.negative = s]
      OBVIOUS
    <3>2. m = Locals(s, 0, 0, 0, FALSE, 1, 0)
      BY <3>1 DEF NoNumber, Locals
    <3>3. PICK k : k = [m EXCEPT !.sum = d]
      OBVIOUS
    <3>4. k = Locals(s, d, 0, 0, FALSE, 1, 0)
      BY <3>2, <3>3 DEF Locals
    <3>5. PICK j : j = [k EXCEPT !.sig_digits = digits]
      OBVIOUS
    <3>7. j = Locals(s, d, 0, digits, FALSE, 1, 0)
      BY <3>4, <3>5 DEF Locals
    <3>6. [NoNumber EXCEPT !.negative = s, !.sum = d, !.sig_digits = digits]
            = [[[NoNumber EXCEPT !.negative = s] EXCEPT !.sum = d] EXCEPT !.sig_digits = digits]
      OBVIOUS
    <3> QED BY <3>1, <3>3, <3>5, <3>6, <3>7
  <2>5. d = 0 <=> source[w] = Zero
    BY <1>5, <1>6, NumberAssumption DEF IsDigitAt, Zero
  <2>6. PICK to \in Nat : to = w + 1
    OBVIOUS
  <2>7. SigDigits(from, to) = digits
    BY <1>5, <1>6, <1>b, <2>2, <2>5, <2>6 DEF SigDigits
  <2>8. WholePart(w, to, d, 0)
    BY <1>5, <1>6, <2>6, WholeBegins
  <2>9. Sized(d, digits)
    <3>1. 0 * Ten + d = d /\ MaxSigDigits \in Nat \ {0} /\ Ten \in 2..10
      BY <1>5, <1>6, NumberAssumption
    <3>2. /\ d > 0 => Sized(0 * Ten + d, 0 + 1)
          /\ ~(d > 0) => Sized(0 * Ten + d, 0)
      <4>1. 0 \in Nat /\ 0 < MaxSigDigits
        BY <3>1
      <4> QED BY <1>5, <1>6, <4>1, SizedNothing, SumFitsDigit
    <3> QED BY <1>5, <1>6, <2>2, <3>1, <3>2
  <2>10. /\ SigDigits(from, to)' = digits /\ FirstDigit(from)' = w /\ WholePart(w, to, d, 0)'
         /\ Sized(d, digits)' /\ SignOf(from)' = s /\ Blanks(at, from)' /\ source'[w] = source[w]
    <3>1. Sized(d, digits)'
      BY <2>9 DEF Sized
    <3> QED BY <1>1, <1>a, <1>b, <2>7, <2>8, <3>1, ReadLater, PartsLater, BlanksLater DEF SourceSame, s
  <2>11. WholeRead(from)'
    <3>1. 0 \in Nat /\ d \in Nat
      BY <1>5, <1>6
    <3>2. read' = to
      BY <2>3, <2>6
    <3>3. number' = Locals(s, d, 0, digits, FALSE, 1, 0)
      BY <2>3, <2>4
    <3>4. phase' = IF source'[w] = Zero THEN "point" ELSE "whole"
      BY <2>3, <2>5, <2>10
    <3> QED BY <2>10, <3>1, <3>2, <3>3, <3>4 DEF WholeRead
  <2> QED BY <2>3, <2>10, <2>11 DEF InNumber, NumberRead
<1>7. CASE ~(d < Ten)
  <2>1. PICK to \in Nat : to = w + 1
    OBVIOUS
  <2>2. throw_parse_error("NUMBER", to)
    BY <1>4, <1>7, <1>b, <2>1 DEF Number, parse_number, throw_parse_error
  <2>3. Here = Minus
    <3>1. SUFFICES ASSUME Here # Minus PROVE FALSE
      OBVIOUS
    <3>2. 48 <= source[w] /\ source[w] < 48 + Ten /\ w = read /\ source[w] \in Byte
      BY <1>2, <1>b, <3>1, Ahead DEF Number, AtToken
    <3>3. IsDigitAt(w)
      BY <3>2, NumberAssumption DEF IsDigitAt, Zero, Byte
    <3> QED BY <1>5, <1>7, <3>3
  <2>4. NumberFault(from, to)
    <3>1. Negative(from) /\ to = from + 2 /\ from + 1 = w
      BY <1>2, <1>a, <1>b, <2>1, <2>3 DEF Negative
    <3> QED BY <1>5, <1>7, <3>1 DEF NumberFault
  <2>5. ErrorLexeme(from, "NUMBER", to)
    BY <2>4 DEF ErrorLexeme
  <2> QED BY <1>1, <1>a, <2>2, <2>5, TellsError
<1> QED BY <1>6, <1>7

LEMMA FirstInside == ASSUME NEW from \in Nat PROVE FirstDigit(from) \in Nat
BY DEF FirstDigit

(* The whole part with one digit more.                                     *)
LEMMA WholeOn ==
  ASSUME NEW w \in Nat, NEW p \in Nat, NEW x \in Nat, NEW left \in Nat,
         WholePart(w, p, x, left), source[w] # Zero, IsDigitAt(p)
  PROVE  /\ p - w < MaxSigDigits => left = 0 /\ WholePart(w, p + 1, x * Ten + (source[p] - Zero), 0)
         /\ ~(p - w < MaxSigDigits) => WholePart(w, p + 1, x, left + 1)
<1>0. MaxSigDigits \in Nat \ {0} /\ w < p /\ Digits(w, p)
  BY NumberAssumption DEF WholePart
<1>1. Digits(w, p + 1) /\ w < p + 1
  <2>1. ASSUME NEW i \in w..((p + 1) - 1) PROVE IsDigitAt(i)
    <3>1. i = p \/ i \in w..(p - 1)
      OBVIOUS
    <3> QED BY <1>0, <3>1 DEF Digits
  <2> QED BY <1>0, <2>1 DEF Digits
<1>2. CASE p - w < MaxSigDigits
  <2>1. Min2(p, w + MaxSigDigits) = p /\ Min2(p + 1, w + MaxSigDigits) = p + 1
    BY <1>0, <1>2 DEF Min2
  <2>2. Worth(w, p, 0, x) /\ left = p - p
    BY <2>1 DEF WholePart
  <2>3. Worth(w, p + 1, 0, x * Ten + (source[p] - Zero))
    BY <1>0, <2>2, WorthOn
  <2>4. left = 0 /\ 0 = (p + 1) - (p + 1)
    BY <2>2
  <2> QED BY <1>1, <1>2, <2>1, <2>3, <2>4 DEF WholePart
<1>3. CASE ~(p - w < MaxSigDigits)
  <2>1. Min2(p, w + MaxSigDigits) = w + MaxSigDigits /\ Min2(p + 1, w + MaxSigDigits) = w + MaxSigDigits
    BY <1>0, <1>3 DEF Min2
  <2>2. Worth(w, w + MaxSigDigits, 0, x) /\ left = p - (w + MaxSigDigits)
    BY <2>1 DEF WholePart
  <2>3. left + 1 = (p + 1) - (w + MaxSigDigits)
    BY <1>0, <2>2
  <2> QED BY <1>1, <1>3, <2>1, <2>2, <2>3 DEF WholePart
<1> QED BY <1>2, <1>3

LEMMA SizedFull ==
  ASSUME NEW x \in Nat, NEW digits \in Nat, Sized(x, digits), digits >= MaxSigDigits
  PROVE  Sized(x, digits + 1) /\ Full(x) /\ x < Ten ^ MaxSigDigits
<1>0. MaxSigDigits \in Nat \ {0}
  BY NumberAssumption
<1>1. Min2(digits, MaxSigDigits) = MaxSigDigits /\ Min2(digits + 1, MaxSigDigits) = MaxSigDigits
  BY <1>0 DEF Min2
<1>2. MaxSigDigits > 0
  BY <1>0
<1> QED BY <1>1, <1>2 DEF Sized, Full

LEMMA WholeScans ==
  ASSUME Inv, SourceSame, NEW from \in Nat, WholeRead(from), WholeDigit
  PROVE  results' = results /\ WholeRead(from)'
<1>0. phase = "whole" /\ IsDigit
  BY DEF WholeDigit
<1>1. /\ read \in Nat /\ read <= count /\ Here = bytes[read]
  BY <1>0, Ahead DEF Here
<1>2. IsDigitAt(read)
  BY <1>0, <1>1, DigitAhead DEF IsDigit
<1>3. PICK d \in Nat : d = Digit(Here) /\ d = source[read] - Zero /\ d < Ten
  BY <1>0, <1>1, <1>2, DigitAhead
<1>4. PICK w \in Nat : w = FirstDigit(from)
  BY FirstInside
<1>5. PICK s : s = SignOf(from)
  OBVIOUS
<1>6. PICK x \in Nat : \E left \in Nat :
        /\ number = Locals(SignOf(from), x, left, SigDigits(from, read), FALSE, 1, 0)
        /\ WholePart(FirstDigit(from), read, x, left)
        /\ Sized(x, SigDigits(from, read))
        /\ phase = IF source[FirstDigit(from)] = Zero THEN "point" ELSE "whole"
  BY DEF WholeRead
<1>7. PICK left \in Nat :
        /\ number = Locals(SignOf(from), x, left, SigDigits(from, read), FALSE, 1, 0)
        /\ WholePart(FirstDigit(from), read, x, left)
        /\ Sized(x, SigDigits(from, read))
        /\ phase = IF source[FirstDigit(from)] = Zero THEN "point" ELSE "whole"
  BY <1>6
<1>8. source[w] # Zero
  BY <1>0, <1>4, <1>7
<1>9. PICK digits \in Nat : digits = read - w /\ digits > 0
  <2>1. w < read
    BY <1>4, <1>7 DEF WholePart
  <2>2. read - w \in Nat /\ read - w > 0
    BY <1>1, <2>1
  <2> QED BY <2>2
<1>10. PICK to \in Nat : to = read + 1
  BY <1>1
<1>11. SigDigits(from, read) = digits /\ SigDigits(from, to) = digits + 1
  <2>1. to - w = digits + 1
    BY <1>1, <1>9, <1>10
  <2> QED BY <1>4, <1>8, <1>9, <2>1 DEF SigDigits
<1>12. number = Locals(s, x, left, digits, FALSE, 1, 0) /\ Sized(x, digits) /\ WholePart(w, read, x, left)
  BY <1>4, <1>5, <1>7, <1>11
<1>13. number.sum = x /\ number.exponent = left /\ number.sig_digits = digits
  BY <1>12 DEF Locals
<1>14. results' = results /\ read' = to /\ phase' = "whole"
  BY <1>10 DEF WholeDigit, Goes
<1>15. /\ SignOf(from)' = s /\ FirstDigit(from)' = w /\ SigDigits(from, to)' = digits + 1
       /\ source'[w] # Zero
  BY <1>4, <1>5, <1>8, <1>11, ReadLater DEF SourceSame
<1>16. ASSUME NEW y \in Nat, NEW over \in Nat, number' = Locals(s, y, over, digits + 1, FALSE, 1, 0),
              WholePart(w, to, y, over), Sized(y, digits + 1)
       PROVE  WholeRead(from)'
  <2>1. WholePart(w, to, y, over)'
    BY <1>16, PartsLater
  <2>2. Sized(y, digits + 1)'
    BY <1>16 DEF Sized
  <2>3. phase' = IF source'[w] = Zero THEN "point" ELSE "whole"
    BY <1>14, <1>15
  <2> QED BY <1>14, <1>15, <1>16, <2>1, <2>2, <2>3 DEF WholeRead
<1>17. CASE digits < MaxSigDigits
  <2>1. PICK y \in Nat : y = x * Ten + d /\ Wrapped(x * Ten + d) = y /\ Sized(y, digits + 1)
    BY <1>3, <1>9, <1>12, <1>17, SumFitsDigit
  <2>2. left = 0 /\ WholePart(w, to, y, 0)
    BY <1>2, <1>3, <1>8, <1>9, <1>10, <1>12, <1>17, <1>1, <2>1, WholeOn
  <2>3. number' = [number EXCEPT !.sum = y, !.sig_digits = digits + 1]
    BY <1>3, <1>13, <1>17, <2>1 DEF WholeDigit, Goes, Keeps
  <2>4. number' = Locals(s, y, 0, digits + 1, FALSE, 1, 0)
    <3>1. PICK k : k = [number EXCEPT !.sum = y]
      OBVIOUS
    <3>2. k = Locals(s, y, left, digits, FALSE, 1, 0)
      BY <1>12, <3>1 DEF Locals
    <3>3. PICK e : e = digits + 1
      OBVIOUS
    <3>4. PICK j : j = [k EXCEPT !.sig_digits = e]
      OBVIOUS
    <3>5. j = Locals(s, y, left, e, FALSE, 1, 0)
      BY <3>2, <3>4 DEF Locals
    <3>6. number' = [[number EXCEPT !.sum = y] EXCEPT !.sig_digits = e]
      BY <2>3, <3>3
    <3> QED BY <2>2, <3>1, <3>3, <3>4, <3>5, <3>6
  <2> QED BY <1>14, <1>16, <2>1, <2>2, <2>4
<1>18. CASE ~(digits < MaxSigDigits)
  <2>0. MaxSigDigits \in Nat /\ digits >= MaxSigDigits
    BY <1>18, NumberAssumption
  <2>1. Sized(x, digits + 1)
    BY <1>12, <2>0, SizedFull
  <2>2. WholePart(w, to, x, left + 1)
    BY <1>1, <1>2, <1>8, <1>9, <1>10, <1>12, <1>18, WholeOn
  <2>3. number' = [number EXCEPT !.exponent = left + 1, !.sig_digits = digits + 1]
    BY <1>13, <1>18 DEF WholeDigit, Goes, Keeps
  <2>4. number' = Locals(s, x, left + 1, digits + 1, FALSE, 1, 0)
    <3>1. PICK e : e = digits + 1
      OBVIOUS
    <3>a. PICK l : l = left + 1
      OBVIOUS
    <3>2. PICK k : k = [number EXCEPT !.exponent = l]
      OBVIOUS
    <3>3. k = Locals(s, x, l, digits, FALSE, 1, 0)
      BY <1>12, <3>2 DEF Locals
    <3>4. PICK j : j = [k EXCEPT !.sig_digits = e]
      OBVIOUS
    <3>5. j = Locals(s, x, l, e, FALSE, 1, 0)
      BY <3>3, <3>4 DEF Locals
    <3>6. number' = [[number EXCEPT !.exponent = l] EXCEPT !.sig_digits = e]
      BY <2>3, <3>1, <3>a
    <3> QED BY <3>1, <3>2, <3>4, <3>5, <3>6, <3>a
  <2>5. left + 1 \in Nat
    OBVIOUS
  <2> QED BY <1>14, <1>16, <2>1, <2>2, <2>4, <2>5
<1> QED BY <1>17, <1>18

(* What there is behind a point, of which as much is kept as the sum holds. *)
Kept(p, kept, x, y, digits, at) ==
  /\ p + 1 <= kept /\ kept <= at /\ Worth(p + 1, kept, x, y)
  /\ Digits(p + 1, at) /\ (at = p + 1 => IsDigitAt(at))
  /\ Sized(y, digits) /\ (kept < at => digits >= MaxSigDigits)

LEMMA FractionReadBy ==
  ASSUME SourceSame, NEW from, NEW p \in Nat, NEW kept \in Nat, NEW x \in Nat, NEW y \in Nat,
         NEW left \in Nat, NEW digits \in Nat, NEW to, read' = to, phase' = "fraction",
         NEW e, e = left - (kept - (p + 1)),
         number' = Locals(SignOf(from), y, e, digits, TRUE, 1, 0),
         WholePart(FirstDigit(from), p, x, left), source[p] = PointByte,
         Kept(p, kept, x, y, digits, to)
  PROVE  FractionRead(from)'
<1>1. SignOf(from)' = SignOf(from) /\ FirstDigit(from)' = FirstDigit(from)
  BY ReadLater
<1>2. WholePart(FirstDigit(from), p, x, left)' /\ Worth(p + 1, kept, x, y)' /\ Digits(p + 1, to)'
      /\ (to = p + 1 => IsDigitAt(to)') /\ Sized(y, digits)' /\ source'[p] = PointByte
  <2>1. Sized(y, digits)'
    BY DEF Sized, Kept
  <2>2. WholePart(FirstDigit(from), p, x, left)'
    BY PartsLater
  <2> QED BY <2>1, <2>2, PartsLater DEF Kept, SourceSame
<1> SUFFICES \E p2, kept2, x2, y2, left2, digits2 \in Nat :
       /\ number' = Locals(SignOf(from)', y2, left2 - (kept2 - (p2 + 1)), digits2, TRUE, 1, 0)
       /\ WholePart(FirstDigit(from), p2, x2, left2)' /\ source'[p2] = PointByte
       /\ p2 + 1 <= kept2 /\ kept2 <= read' /\ Worth(p2 + 1, kept2, x2, y2)'
       /\ Digits(p2 + 1, read)' /\ (read' = p2 + 1 => IsDigitAt(read)')
       /\ Sized(y2, digits2)' /\ (kept2 < read' => digits2 >= MaxSigDigits)
  BY DEF FractionRead
<1> WITNESS p \in Nat, kept \in Nat, x \in Nat, y \in Nat, left \in Nat, digits \in Nat
<1>3. Digits(p + 1, read)' /\ (read' = p + 1 => IsDigitAt(read)')
  BY <1>2 DEF Digits, IsDigitAt
<1> QED BY <1>1, <1>2, <1>3 DEF Kept

LEMMA WholeReads ==
  ASSUME NEW from, WholeRead(from)
  PROVE  \E x, left \in Nat :
           /\ number = Locals(SignOf(from), x, left, SigDigits(from, read), FALSE, 1, 0)
           /\ WholePart(FirstDigit(from), read, x, left)
           /\ Sized(x, SigDigits(from, read))
           /\ phase = IF source[FirstDigit(from)] = Zero THEN "point" ELSE "whole"
BY DEF WholeRead

LEMMA PointScans ==
  ASSUME Inv, SourceSame, NEW at \in Nat, NEW from \in Nat, Blanks(at, from), WholeRead(from), Point
  PROVE  (results' = results /\ FractionRead(from)') \/ Tells(at)
<1>0. phase # "done"
  BY DEF Point, AtPoint
<1>1. /\ read \in Nat /\ count \in Nat /\ read <= count /\ Here = source[read]
      /\ \A k \in Nat : read <= k /\ k <= count /\ source[k] # 0 => k + 1 <= count
  BY <1>0, Ahead
<1>2. source[read] = PointByte /\ read + 1 <= count
  BY <1>1 DEF Point, PointByte
<1>3. PICK x, left \in Nat :
        /\ number = Locals(SignOf(from), x, left, SigDigits(from, read), FALSE, 1, 0)
        /\ WholePart(FirstDigit(from), read, x, left)
        /\ Sized(x, SigDigits(from, read))
  BY WholeReads
<1>4. PICK p \in Nat : p = read
  BY <1>1
<1>5. PICK to \in Nat : to = read + 1
  BY <1>1
<1>6. Digit(bytes[to]) < Ten <=> IsDigitAt(to)
  BY <1>0, <1>1, <1>2, <1>5, DigitAhead
<1>7. CASE IsDigitAt(to)
  <2>1. /\ results' = results /\ read' = to /\ phase' = "fraction"
        /\ number' = [number EXCEPT !.force_double = TRUE]
    BY <1>5, <1>6, <1>7 DEF Point, Goes
  <2>2. PICK digits \in Nat : digits = SigDigits(from, read)
    <3>1. FirstDigit(from) \in Nat /\ FirstDigit(from) < read
      BY <1>3, FirstInside DEF WholePart
    <3>2. SigDigits(from, read) \in Nat
      BY <1>1, <3>1 DEF SigDigits
    <3> QED BY <3>2
  <2>3. number' = Locals(SignOf(from), x, left, digits, TRUE, 1, 0)
    BY <1>3, <2>1, <2>2 DEF Locals
  <2>4. Kept(p, to, x, x, digits, to)
    <3>1. Worth(p + 1, to, x, x)
      BY <1>4, <1>5, WorthNothing
    <3>2. Digits(p + 1, to)
      BY <1>4, <1>5 DEF Digits
    <3> QED BY <1>3, <1>4, <1>5, <1>7, <2>2, <3>1, <3>2 DEF Kept
  <2>5. left = left - (to - (p + 1))
    BY <1>4, <1>5
  <2> QED BY <1>2, <1>3, <1>4, <2>1, <2>3, <2>4, <2>5, FractionReadBy
<1>8. CASE ~IsDigitAt(to)
  <2>1. throw_parse_error("NUMBER", to)
    BY <1>5, <1>6, <1>8 DEF Point, Throws, throw_parse_error
  <2>2. NumberFault(from, to)
    BY <1>2, <1>3, <1>4, <1>5, <1>8 DEF NumberFault
  <2>3. ErrorLexeme(from, "NUMBER", to)
    BY <2>2 DEF ErrorLexeme
  <2> QED BY <2>1, <2>3, TellsError
<1> QED BY <1>7, <1>8

LEMMA FractionReads ==
  ASSUME NEW from, FractionRead(from)
  PROVE  \E p, kept, x, y, left, digits \in Nat :
           /\ number = Locals(SignOf(from), y, left - (kept - (p + 1)), digits, TRUE, 1, 0)
           /\ WholePart(FirstDigit(from), p, x, left) /\ source[p] = PointByte
           /\ Kept(p, kept, x, y, digits, read)
BY DEF FractionRead, Kept

LEMMA FractionScans ==
  ASSUME Inv, SourceSame, NEW from \in Nat, FractionRead(from), FractionDigit
  PROVE  results' = results /\ FractionRead(from)'
<1>0. phase = "fraction" /\ IsDigit
  BY DEF FractionDigit
<1>1. /\ read \in Nat /\ count \in Nat /\ read <= count /\ Here = bytes[read]
  BY <1>0, Ahead DEF Here
<1>2. IsDigitAt(read)
  BY <1>0, <1>1, DigitAhead DEF IsDigit
<1>3. PICK d \in Nat : d = Digit(Here) /\ d = source[read] - Zero /\ d < Ten
  BY <1>0, <1>1, <1>2, DigitAhead
<1>4. PICK p, kept, x, y, left, digits \in Nat :
        /\ number = Locals(SignOf(from), y, left - (kept - (p + 1)), digits, TRUE, 1, 0)
        /\ WholePart(FirstDigit(from), p, x, left) /\ source[p] = PointByte
        /\ Kept(p, kept, x, y, digits, read)
  BY FractionReads
<1>5. PICK to \in Nat : to = read + 1
  BY <1>1
<1>6. PICK e \in Int : e = left - (kept - (p + 1))
  OBVIOUS
<1>7. PICK s : s = SignOf(from)
  OBVIOUS
<1>8. number = Locals(s, y, e, digits, TRUE, 1, 0)
  BY <1>4, <1>6, <1>7
<1>9. number.sum = y /\ number.exponent = e /\ number.sig_digits = digits
  BY <1>8 DEF Locals
<1>10. results' = results /\ read' = to /\ phase' = "fraction"
  BY <1>5 DEF FractionDigit, Goes
<1>11. Digits(p + 1, to) /\ to # p + 1
  <2>1. ASSUME NEW i \in (p + 1)..(to - 1) PROVE IsDigitAt(i)
    <3>1. i = read \/ i \in (p + 1)..(read - 1)
      BY <1>1, <1>5
    <3> QED BY <1>2, <1>4, <3>1 DEF Digits, Kept
  <2>2. p + 1 <= read
    BY <1>1, <1>4 DEF Kept
  <2> QED BY <1>1, <1>5, <2>1, <2>2 DEF Digits
<1>12. CASE digits < MaxSigDigits
  <2>1. kept = read
    <3>1. kept <= read /\ ~(kept < read)
      BY <1>4, <1>12, NumberAssumption DEF Kept
    <3> QED BY <1>1, <3>1
  <2>2. PICK z \in Nat :
          /\ z = y * Ten + d /\ Wrapped(y * Ten + d) = z
          /\ (digits > 0 \/ d > 0) => z > 0 /\ Sized(z, digits + 1)
          /\ ~(digits > 0 \/ d > 0) => z = 0 /\ Sized(z, digits)
    BY <1>3, <1>4, <1>12, SumFitsDigit DEF Kept
  <2>3. PICK more \in Nat : more = (IF z # 0 THEN digits + 1 ELSE digits) /\ Sized(z, more)
    BY <2>2
  <2>4. Ten * y + d = y * Ten + d
    BY NumberAssumption
  <2>5. PICK f \in Int : f = e - 1
    OBVIOUS
  <2>6. number' = [number EXCEPT !.sum = z, !.exponent = f, !.sig_digits = more]
    BY <1>3, <1>9, <1>12, <2>2, <2>3, <2>4, <2>5 DEF FractionDigit, Goes, Keeps
  <2>7. number' = Locals(s, z, f, more, TRUE, 1, 0)
    <3>1. PICK k : k = [number EXCEPT !.sum = z]
      OBVIOUS
    <3>2. k = Locals(s, z, e, digits, TRUE, 1, 0)
      BY <1>8, <3>1 DEF Locals
    <3>3. PICK l : l = [k EXCEPT !.exponent = f]
      OBVIOUS
    <3>4. l = Locals(s, z, f, digits, TRUE, 1, 0)
      BY <3>2, <3>3 DEF Locals
    <3>5. PICK m : m = [l EXCEPT !.sig_digits = more]
      OBVIOUS
    <3>6. m = Locals(s, z, f, more, TRUE, 1, 0)
      BY <3>4, <3>5 DEF Locals
    <3>7. number' = [[[number EXCEPT !.sum = z] EXCEPT !.exponent = f] EXCEPT !.sig_digits = more]
      BY <2>6
    <3> QED BY <3>1, <3>3, <3>5, <3>6, <3>7
  <2>8. Kept(p, to, x, z, more, to)
    <3>1. Worth(p + 1, read + 1, x, y * Ten + (source[read] - Zero))
      BY <1>1, <1>2, <1>4, <2>1, WorthOn DEF Kept
    <3>2. Worth(p + 1, to, x, z)
      BY <1>3, <1>5, <2>2, <3>1
    <3>3. p + 1 <= to
      BY <1>1, <1>4, <1>5 DEF Kept
    <3> QED BY <1>5, <1>11, <2>3, <3>2, <3>3 DEF Kept
  <2>9. f = left - (to - (p + 1))
    BY <1>5, <1>6, <2>1, <2>5
  <2> QED BY <1>4, <1>7, <1>10, <2>7, <2>8, <2>9, FractionReadBy
<1>13. CASE ~(digits < MaxSigDigits)
  <2>1. number' = number
    BY <1>9, <1>13 DEF FractionDigit, Goes, Keeps
  <2>2. Kept(p, kept, x, y, digits, to)
    <3>1. digits >= MaxSigDigits
      BY <1>13, NumberAssumption
    <3>2. kept <= to
      BY <1>1, <1>4, <1>5 DEF Kept
    <3> QED BY <1>4, <1>11, <3>1, <3>2 DEF Kept
  <2> QED BY <1>4, <1>6, <1>7, <1>8, <1>10, <2>1, <2>2, FractionReadBy
<1> QED BY <1>12, <1>13

LEMMA MantissaByPoint ==
  ASSUME NEW from \in Nat, NEW p \in Nat, NEW kept \in Nat, NEW x \in Nat, NEW y \in Nat,
         NEW left \in Nat, NEW digits \in Nat, NEW q \in Nat,
         WholePart(FirstDigit(from), p, x, left), source[p] = PointByte,
         Kept(p, kept, x, y, digits, q), ~IsDigitAt(q),
         NEW power, power = left - (kept - (p + 1))
  PROVE  Mantissa(from, q, y, power, FALSE)
<1>0. MaxSigDigits \in Nat \ {0}
  BY NumberAssumption
<1>1. PICK scale \in Nat : scale = kept - (p + 1)
  <2>1. kept - (p + 1) \in Nat
    BY DEF Kept
  <2> QED BY <2>1
<1>2. y < Ten ^ MaxSigDigits
  <2> DEFINE m == Min2(digits, MaxSigDigits)
  <2>1. y < Ten ^ m /\ m \in 0..MaxSigDigits
    BY <1>0 DEF Kept, Sized, Min2
  <2> HIDE DEF m
  <2>2. Ten ^ m <= Ten ^ MaxSigDigits /\ Ten ^ m \in Nat /\ Ten ^ MaxSigDigits \in Nat
    BY <1>0, <2>1, PowersGrow, LargestPowerOfTen
  <2> QED BY <2>1, <2>2
<1>3. kept < q => Full(y)
  BY SizedFull DEF Kept
<1>4. p + 1 < q
  BY DEF Kept
<1>5. FractionPart(p, q, x, y, scale)
  <2>1. kept \in (p + 1)..q
    BY DEF Kept
  <2> QED BY <1>1, <1>2, <1>3, <2>1 DEF FractionPart, Kept
<1>6. power = left - scale
  BY <1>1
<1> QED BY <1>4, <1>5, <1>6 DEF Mantissa

LEMMA MantissaPlain ==
  ASSUME NEW from \in Nat, NEW q \in Nat, NEW x \in Nat, NEW left \in Nat,
         WholePart(FirstDigit(from), q, x, left), source[q] # PointByte
  PROVE  Mantissa(from, q, x, left, TRUE)
<1>1. 0 \in Nat /\ left = left - 0
  OBVIOUS
<1> QED BY <1>1 DEF Mantissa

(* In front of the exponent.                                               *)
LEMMA MantissaRead ==
  ASSUME Inv, NEW from \in Nat, NumberRead(from), AtExponent
  PROVE  \E y, digits \in Nat : \E power \in Int : \E plain, force \in BOOLEAN :
           /\ number = Locals(SignOf(from), y, power, digits, force, 1, 0)
           /\ Mantissa(from, read, y, power, plain)
<1>0. phase \in {"whole", "point", "fraction"} /\ phase # "done"
  BY DEF AtExponent, AtPoint
<1>1. /\ read \in Nat /\ count \in Nat /\ read <= count /\ Here = source[read] /\ Here = bytes[read]
  BY <1>0, Ahead DEF Here
<1>2. PICK q \in Nat : q = read
  BY <1>1
<1>3. CASE WholeRead(from)
  <2>1. PICK x, left \in Nat :
        /\ number = Locals(SignOf(from), x, left, SigDigits(from, read), FALSE, 1, 0)
        /\ WholePart(FirstDigit(from), read, x, left)
        /\ Sized(x, SigDigits(from, read))
        /\ phase = IF source[FirstDigit(from)] = Zero THEN "point" ELSE "whole"
    BY <1>3, WholeReads
  <2>2. PICK digits \in Nat : digits = SigDigits(from, read)
    <3>1. FirstDigit(from) \in Nat /\ FirstDigit(from) < read
      BY <2>1, FirstInside DEF WholePart
    <3>2. SigDigits(from, read) \in Nat
      BY <1>1, <3>1 DEF SigDigits
    <3> QED BY <3>2
  <2>3. source[q] # PointByte
    BY <1>1, <1>2, <2>1 DEF AtExponent
  <2>4. Mantissa(from, q, x, left, TRUE)
    BY <1>2, <2>1, <2>3, MantissaPlain
  <2>5. left \in Int
    OBVIOUS
  <2> QED BY <1>2, <2>1, <2>2, <2>4, <2>5
<1>4. CASE FractionRead(from)
  <2>1. PICK p, kept, x, y, left, digits \in Nat :
        /\ number = Locals(SignOf(from), y, left - (kept - (p + 1)), digits, TRUE, 1, 0)
        /\ WholePart(FirstDigit(from), p, x, left) /\ source[p] = PointByte
        /\ Kept(p, kept, x, y, digits, read)
    BY <1>4, FractionReads
  <2>2. phase = "fraction" /\ ~IsDigit
    BY <1>4 DEF FractionRead, AtExponent, AtPoint
  <2>3. ~IsDigitAt(q)
    BY <1>0, <1>1, <1>2, <2>2, DigitAhead DEF IsDigit
  <2>4. PICK power \in Int : power = left - (kept - (p + 1))
    OBVIOUS
  <2>5. Mantissa(from, q, y, power, FALSE)
    BY <1>2, <2>1, <2>3, <2>4, MantissaByPoint
  <2> QED BY <1>2, <2>1, <2>4, <2>5
<1>5. CASE ExponentRead(from)
  BY <1>0, <1>5 DEF ExponentRead
<1> QED BY <1>3, <1>4, <1>5 DEF NumberRead

LEMMA ExponentReadBy ==
  ASSUME SourceSame, NEW from, NEW q \in Nat, NEW y \in Nat, NEW exp \in Nat, NEW digits \in Nat,
         NEW power \in Int, NEW to, read' = to, phase' = "exponent",
         number' = Locals(SignOf(from), y, power, digits, TRUE, ExponentSign(q), exp),
         \E plain \in BOOLEAN : Mantissa(from, q, y, power, plain), source[q] \in E_e,
         ExponentDigits(q) <= to, Worth(ExponentDigits(q), to, 0, exp),
         exp <= ExpLimit, to = ExponentDigits(q) => IsDigitAt(to)
  PROVE  ExponentRead(from)'
<1>0. PICK plain \in BOOLEAN : Mantissa(from, q, y, power, plain)
  OBVIOUS
<1>1. SignOf(from)' = SignOf(from) /\ ExponentSign(q)' = ExponentSign(q)
      /\ ExponentDigits(q)' = ExponentDigits(q)
  BY ReadLater, PartsLater
<1>2. Mantissa(from, q, y, power, plain)' /\ source'[q] \in E_e
  BY <1>0, PartsLater DEF SourceSame
<1>3. PICK first : first = ExponentDigits(q)
  OBVIOUS
<1>4. Worth(first, to, 0, exp)' /\ (to = first => IsDigitAt(to)')
  BY <1>3, PartsLater
<1>5. Worth(ExponentDigits(q), read, 0, exp)' /\ (read' = ExponentDigits(q)' => IsDigitAt(read)')
  <2>1. ExponentDigits(q)' = first
    BY <1>1, <1>3
  <2> QED BY <1>4, <2>1 DEF Worth, IsDigitAt
<1> SUFFICES \E q2, y2, exp2, digits2 \in Nat : \E power2 \in Int : \E plain2 \in BOOLEAN :
       /\ number' = Locals(SignOf(from)', y2, power2, digits2, TRUE, ExponentSign(q2)', exp2)
       /\ Mantissa(from, q2, y2, power2, plain2)' /\ source'[q2] \in E_e
       /\ ExponentDigits(q2)' <= read' /\ Worth(ExponentDigits(q2), read, 0, exp2)'
       /\ exp2 <= ExpLimit /\ (read' = ExponentDigits(q2)' => IsDigitAt(read)')
  BY DEF ExponentRead
<1> WITNESS q \in Nat, y \in Nat, exp \in Nat, digits \in Nat
<1> WITNESS power \in Int
<1> WITNESS plain \in BOOLEAN
<1> QED BY <1>1, <1>2, <1>5

LEMMA ExponentInside == ASSUME NEW q \in Nat PROVE ExponentDigits(q) \in Nat
BY DEF ExponentDigits

LEMMA ExponentStarts ==
  ASSUME Inv, SourceSame, NEW at \in Nat, NEW from \in Nat, Blanks(at, from), NumberRead(from), Exponent
  PROVE  (results' = results /\ ExponentRead(from)') \/ Tells(at)
<1>0. AtExponent /\ phase # "done" /\ Here \in E_e
  BY DEF Exponent, AtExponent, AtPoint
<1>1. /\ read \in Nat /\ count \in Nat /\ read <= count /\ Here = source[read]
      /\ \A i \in read..count : bytes[i] = source[i]
      /\ \A k \in Nat : read <= k /\ k <= count /\ source[k] # 0 => k + 1 <= count
  BY <1>0, Ahead
<1>2. PICK y, digits \in Nat : \E power \in Int : \E plain, force \in BOOLEAN :
           /\ number = Locals(SignOf(from), y, power, digits, force, 1, 0)
           /\ Mantissa(from, read, y, power, plain)
  BY <1>0, MantissaRead
<1>3. PICK power \in Int : \E plain, force \in BOOLEAN :
           /\ number = Locals(SignOf(from), y, power, digits, force, 1, 0)
           /\ Mantissa(from, read, y, power, plain)
  BY <1>2
<1>4. PICK plain, force \in BOOLEAN :
           /\ number = Locals(SignOf(from), y, power, digits, force, 1, 0)
           /\ Mantissa(from, read, y, power, plain)
  BY <1>3
<1>5. PICK q \in Nat : q = read
  BY <1>1
<1>6. source[q] \in E_e /\ q + 1 <= count /\ bytes[read + 1] = source[q + 1]
  <2>1. source[q] \in E_e /\ source[q] # 0
    BY <1>0, <1>1, <1>5 DEF E_e
  <2>2. q + 1 <= count /\ q + 1 \in read..count
    BY <1>1, <1>5, <2>1
  <2> QED BY <1>1, <1>5, <2>1, <2>2
<1>7. PICK first \in Nat : first = ExponentDigits(q)
  BY ExponentInside
<1>8. q <= first /\ first <= count
  <2>1. source[q + 1] \in {Minus, Plus} => q + 2 <= count
    BY <1>1, <1>5, <1>6 DEF Minus, Plus
  <2> QED BY <1>1, <1>6, <1>7, <2>1 DEF ExponentDigits
<1>9. Digit(bytes[first]) < Ten <=> IsDigitAt(first)
  BY <1>0, <1>1, <1>5, <1>7, <1>8, DigitAhead
<1>10. PICK g : g = ExponentSign(q)
  OBVIOUS
<1>11. IF Digit(bytes[first]) < Ten
       THEN Goes("exponent", first, [number EXCEPT !.force_double = TRUE, !.exp_sign = g])
       ELSE Throws("NUMBER", first)
  <2>1. first = IF source[q + 1] \in {Minus, Plus} THEN read + 2 ELSE read + 1
    BY <1>5, <1>7 DEF ExponentDigits
  <2>2. g = IF source[q + 1] = Minus THEN -1 ELSE 1
    BY <1>10 DEF ExponentSign
  <2> QED BY <1>6, <2>1, <2>2 DEF Exponent, Throws, throw_parse_error
<1>12. CASE IsDigitAt(first)
  <2>1. /\ results' = results /\ read' = first /\ phase' = "exponent"
        /\ number' = [number EXCEPT !.force_double = TRUE, !.exp_sign = g]
    BY <1>9, <1>11, <1>12 DEF Goes
  <2>2. PICK s : s = SignOf(from)
    OBVIOUS
  <2>3. number' = Locals(s, y, power, digits, TRUE, g, 0)
    <3>1. PICK k : k = [number EXCEPT !.force_double = TRUE]
      OBVIOUS
    <3>2. k = Locals(s, y, power, digits, TRUE, 1, 0)
      BY <1>4, <2>2, <3>1 DEF Locals
    <3>3. PICK m : m = [k EXCEPT !.exp_sign = g]
      OBVIOUS
    <3>4. m = Locals(s, y, power, digits, TRUE, g, 0)
      BY <3>2, <3>3 DEF Locals
    <3>5. number' = [[number EXCEPT !.force_double = TRUE] EXCEPT !.exp_sign = g]
      BY <2>1
    <3> QED BY <3>1, <3>3, <3>4, <3>5
  <2>4. Worth(first, first, 0, 0) /\ 0 <= ExpLimit /\ first <= first
    BY WorthNothing, NumberAssumption
  <2>5. Mantissa(from, q, y, power, plain)
    BY <1>4, <1>5
  <2>6. number' = Locals(SignOf(from), y, power, digits, TRUE, ExponentSign(q), 0)
    BY <1>10, <2>2, <2>3
  <2>7. ExponentDigits(q) <= first /\ Worth(ExponentDigits(q), first, 0, 0)
        /\ (first = ExponentDigits(q) => IsDigitAt(first)) /\ source[q] \in E_e /\ 0 \in Nat
    BY <1>6, <1>7, <1>12, <2>4
  <2>9. \E b \in BOOLEAN : Mantissa(from, q, y, power, b)
    BY <2>5
  <2>8. ExponentRead(from)'
    BY <2>9, <2>1, <2>4, <2>5, <2>6, <2>7, ExponentReadBy
  <2> QED BY <2>1, <2>8
<1>13. CASE ~IsDigitAt(first)
  <2>1. throw_parse_error("NUMBER", first)
    BY <1>9, <1>11, <1>13 DEF Throws
  <2>2. NumberFault(from, first)
    BY <1>4, <1>5, <1>6, <1>7, <1>13 DEF NumberFault
  <2>3. ErrorLexeme(from, "NUMBER", first)
    BY <2>2 DEF ErrorLexeme
  <2> QED BY <2>1, <2>3, TellsError
<1> QED BY <1>12, <1>13

LEMMA ExponentReads ==
  ASSUME NEW from, ExponentRead(from)
  PROVE  \E q, y, exp, digits \in Nat : \E power \in Int :
           /\ number = Locals(SignOf(from), y, power, digits, TRUE, ExponentSign(q), exp)
           /\ \E plain \in BOOLEAN : Mantissa(from, q, y, power, plain)
           /\ source[q] \in E_e
           /\ ExponentDigits(q) <= read /\ Worth(ExponentDigits(q), read, 0, exp)
           /\ exp <= ExpLimit /\ (read = ExponentDigits(q) => IsDigitAt(read))
<1>1. PICK q, y, exp, digits \in Nat : \E power \in Int : \E plain \in BOOLEAN :
       /\ number = Locals(SignOf(from), y, power, digits, TRUE, ExponentSign(q), exp)
       /\ Mantissa(from, q, y, power, plain) /\ source[q] \in E_e
       /\ ExponentDigits(q) <= read /\ Worth(ExponentDigits(q), read, 0, exp)
       /\ exp <= ExpLimit /\ (read = ExponentDigits(q) => IsDigitAt(read))
  BY DEF ExponentRead
<1>2. PICK power \in Int : \E plain \in BOOLEAN :
       /\ number = Locals(SignOf(from), y, power, digits, TRUE, ExponentSign(q), exp)
       /\ Mantissa(from, q, y, power, plain) /\ source[q] \in E_e
       /\ ExponentDigits(q) <= read /\ Worth(ExponentDigits(q), read, 0, exp)
       /\ exp <= ExpLimit /\ (read = ExponentDigits(q) => IsDigitAt(read))
  BY <1>1
<1>3. \E plain \in BOOLEAN : Mantissa(from, q, y, power, plain)
  BY <1>2
<1>4. /\ number = Locals(SignOf(from), y, power, digits, TRUE, ExponentSign(q), exp)
      /\ source[q] \in E_e
      /\ ExponentDigits(q) <= read /\ Worth(ExponentDigits(q), read, 0, exp)
      /\ exp <= ExpLimit /\ (read = ExponentDigits(q) => IsDigitAt(read))
  BY <1>2
<1> SUFFICES \E q2, y2, exp2, digits2 \in Nat : \E power2 \in Int :
       /\ number = Locals(SignOf(from), y2, power2, digits2, TRUE, ExponentSign(q2), exp2)
       /\ \E plain \in BOOLEAN : Mantissa(from, q2, y2, power2, plain)
       /\ source[q2] \in E_e
       /\ ExponentDigits(q2) <= read /\ Worth(ExponentDigits(q2), read, 0, exp2)
       /\ exp2 <= ExpLimit /\ (read = ExponentDigits(q2) => IsDigitAt(read))
  OBVIOUS
<1> WITNESS q \in Nat, y \in Nat, exp \in Nat, digits \in Nat
<1> WITNESS power \in Int
<1> QED BY <1>3, <1>4

LEMMA ExponentScans ==
  ASSUME Inv, SourceSame, NEW at \in Nat, NEW from \in Nat, Blanks(at, from), ExponentRead(from),
         ExponentDigit
  PROVE  (results' = results /\ ExponentRead(from)') \/ Tells(at)
<1>0. phase = "exponent" /\ IsDigit /\ phase # "done"
  BY DEF ExponentDigit
<1>1. /\ read \in Nat /\ count \in Nat /\ read <= count /\ Here = bytes[read]
  BY <1>0, Ahead DEF Here
<1>2. IsDigitAt(read)
  BY <1>0, <1>1, DigitAhead DEF IsDigit
<1>3. PICK d \in Nat : d = Digit(Here) /\ d = source[read] - Zero
  BY <1>0, <1>1, <1>2, DigitAhead
<1>4. PICK q, y, exp, digits \in Nat : \E power \in Int :
           /\ number = Locals(SignOf(from), y, power, digits, TRUE, ExponentSign(q), exp)
           /\ \E plain \in BOOLEAN : Mantissa(from, q, y, power, plain)
           /\ source[q] \in E_e
           /\ ExponentDigits(q) <= read /\ Worth(ExponentDigits(q), read, 0, exp)
           /\ exp <= ExpLimit /\ (read = ExponentDigits(q) => IsDigitAt(read))
  BY ExponentReads
<1>5. PICK power \in Int :
           /\ number = Locals(SignOf(from), y, power, digits, TRUE, ExponentSign(q), exp)
           /\ \E plain \in BOOLEAN : Mantissa(from, q, y, power, plain)
           /\ source[q] \in E_e
           /\ ExponentDigits(q) <= read /\ Worth(ExponentDigits(q), read, 0, exp)
           /\ exp <= ExpLimit /\ (read = ExponentDigits(q) => IsDigitAt(read))
  BY <1>4
<1>6. PICK to \in Nat : to = read + 1
  BY <1>1
<1>7. PICK first \in Nat : first = ExponentDigits(q)
  BY ExponentInside
<1>8. first <= read /\ first <= to /\ to # first
  BY <1>1, <1>5, <1>6, <1>7
<1>9. PICK more \in Nat : more = exp * Ten + d /\ Worth(first, to, 0, more)
  <2>1. Worth(first, read + 1, 0, exp * Ten + (source[read] - Zero))
    BY <1>1, <1>2, <1>5, <1>7, <1>8, WorthOn
  <2>2. exp * Ten + d \in Nat
    <3>1. Ten \in Nat
      BY NumberAssumption
    <3>2. exp * Ten \in Nat
      BY <3>1
    <3> QED BY <3>2
  <2> QED BY <1>3, <1>6, <2>1, <2>2
<1>10. number.exp = exp
  BY <1>5 DEF Locals
<1>11. IF more > ExpLimit THEN Throws("NUMBER", to)
       ELSE Goes("exponent", to, [number EXCEPT !.exp = more])
  <2>1. Ten * exp + d = more
    <3>1. Ten * exp = exp * Ten
      <4>1. Ten \in Nat
        BY NumberAssumption
      <4>2. \A a, b \in Nat : a * b = b * a
        OBVIOUS
      <4> QED BY <4>1, <4>2
    <3> QED BY <1>9, <3>1
  <2> QED BY <1>3, <1>6, <1>10, <2>1 DEF ExponentDigit, Throws, throw_parse_error
<1>12. ExpLimit \in Nat
  BY NumberAssumption
<1>13. CASE more > ExpLimit
  <2>1. throw_parse_error("NUMBER", to)
    BY <1>11, <1>13 DEF Throws
  <2>2. ExponentPart(q, to - 1, exp) /\ ExponentPart(q, to, more)
    <3>1. to - 1 = read
      BY <1>1, <1>6
    <3> QED BY <1>5, <1>7, <1>8, <1>9, <3>1 DEF ExponentPart
  <2>3. NumberFault(from, to)
    BY <1>5, <1>13, <2>2 DEF NumberFault
  <2>4. ErrorLexeme(from, "NUMBER", to)
    BY <2>3 DEF ErrorLexeme
  <2> QED BY <2>1, <2>4, TellsError
<1>14. CASE ~(more > ExpLimit)
  <2>1. /\ results' = results /\ read' = to /\ phase' = "exponent"
        /\ number' = [number EXCEPT !.exp = more]
    BY <1>11, <1>14 DEF Goes
  <2>2. number' = Locals(SignOf(from), y, power, digits, TRUE, ExponentSign(q), more)
    BY <1>5, <2>1 DEF Locals
  <2>3. more <= ExpLimit
    BY <1>12, <1>14
  <2>4. ExponentDigits(q) <= to /\ Worth(ExponentDigits(q), to, 0, more)
        /\ (to = ExponentDigits(q) => IsDigitAt(to))
    BY <1>7, <1>8, <1>9
  <2>5. ExponentRead(from)'
    BY <1>5, <2>1, <2>2, <2>3, <2>4, ExponentReadBy
  <2> QED BY <2>1, <2>5
<1> QED BY <1>13, <1>14

LEMMA RealTells ==
  ASSUME Inv, SourceSame, NEW at \in Nat, NEW from \in Nat, Blanks(at, from), Compute \/ Strtod,
         NEW y \in Nat, NEW power \in Int, RealNumber(from, read, y, power),
         number.negative = SignOf(from), number.sum = y, Power = power
  PROVE  Tells(at)
<1>0. phase # "done"
  BY DEF Compute, Strtod, AtFinish, AtExponent, AtPoint
<1>1. read \in Nat
  BY <1>0, Ahead
<1>2. PICK to \in Nat : to = read
  BY <1>1
<1>3. SignOf(from) = Negative(from)
  BY DEF SignOf, Negative
<1>4. ASSUME Return("real", <<number.negative, number.sum, Power>>) \/ Return("real", <<>>), read' = read
      PROVE  Tells(at)
  <2>1. PICK v : Return("real", v) /\ v \in {<<>>, <<SignOf(from), y, power>>}
    BY <1>4
  <2>2. PICK r : r = Value("real", v)
    OBVIOUS
  <2>3. r.type = "real" /\ r.value = v /\ r.type \notin {"error", "string"}
    BY <2>2 DEF Value
  <2>4. r.value \in {<<>>, <<Negative(from), y, power>>}
    BY <1>3, <2>1, <2>3
  <2>5. RealLexeme(r, from, to)
    BY <1>2, <2>4 DEF RealLexeme
  <2>6. Lexeme(r, from, to)
    BY <2>3, <2>5 DEF Lexeme
  <2>7. results' = Append(results, r) /\ phase' = "space" /\ read' = to
    BY <1>2, <1>4, <2>1, <2>2 DEF Return
  <2> QED BY <2>3, <2>6, <2>7, TellsValue
<1>5. CASE Compute
  BY <1>4, <1>5 DEF Compute
<1>6. CASE Strtod
  <2>1. CASE Return("real", <<>>) /\ UNCHANGED read
    BY <1>4, <2>1
  <2>2. CASE throw_parse_error("NUMBER", read)
    <3>1. throw_parse_error("NUMBER", to)
      BY <1>2, <2>2 DEF throw_parse_error
    <3>2. NumberFault(from, to)
      BY <1>2 DEF NumberFault
    <3>3. ErrorLexeme(from, "NUMBER", to)
      BY <3>2 DEF ErrorLexeme
    <3> QED BY <3>1, <3>3, TellsError
  <2> QED BY <1>6, <2>1, <2>2 DEF Strtod
<1> QED BY <1>5, <1>6

LEMMA WholeEnds ==
  ASSUME Typed, SourceSame, NEW at \in Nat, NEW from \in Nat, Blanks(at, from), WholeRead(from),
         Integer \/ Compute \/ Strtod
  PROVE  Tells(at)
<1>0. phase \in {"whole", "point"} /\ phase # "done" /\ Inv
  BY DEF WholeRead, Typed
<1>1. /\ read \in Nat /\ count \in Nat /\ read <= count /\ Here = source[read] /\ Here = bytes[read]
  BY <1>0, Ahead DEF Here
<1>2. AtPoint /\ Here \notin {PointByte} \cup E_e /\ (phase = "whole" => ~IsDigit)
  BY <1>0 DEF Integer, Compute, Strtod, AtFinish, AtExponent, AtPoint
<1>3. PICK x, left \in Nat :
        /\ number = Locals(SignOf(from), x, left, SigDigits(from, read), FALSE, 1, 0)
        /\ WholePart(FirstDigit(from), read, x, left)
        /\ Sized(x, SigDigits(from, read))
        /\ phase = IF source[FirstDigit(from)] = Zero THEN "point" ELSE "whole"
  BY WholeReads
<1>4. PICK to \in Nat : to = read
  BY <1>1
<1>5. WholeNumber(from, to, x, left)
  <2>1. source[FirstDigit(from)] # Zero => ~IsDigitAt(to)
    BY <1>0, <1>1, <1>2, <1>3, <1>4, DigitAhead DEF IsDigit
  <2> QED BY <1>1, <1>2, <1>3, <1>4, <2>1 DEF WholeNumber
<1>6. PICK w \in Nat : w = FirstDigit(from)
  BY FirstInside
<1>7. /\ MaxSigDigits \in Nat \ {0} /\ LongMax \in Nat
  BY NumberAssumption
<1>8. SigDigits(from, read) > MaxSigDigits <=> left > 0
  <2>1. w < read /\ (source[w] = Zero => read = w + 1) /\ left = read - Min2(read, w + MaxSigDigits)
    BY <1>3, <1>6 DEF WholePart
  <2>2. SigDigits(from, read) = IF source[w] = Zero THEN 0 ELSE read - w
    BY <1>6 DEF SigDigits
  <2> QED BY <1>1, <1>7, <2>1, <2>2 DEF Min2
<1>9. /\ number.negative = SignOf(from) /\ number.sum = x /\ number.exponent = left
      /\ number.sig_digits = SigDigits(from, read) /\ number.force_double = FALSE
      /\ number.exp_sign = 1 /\ number.exp = 0
  BY <1>3 DEF Locals
<1>10. FitsLong(number) <=> x <= SumLimit(from)
  BY <1>9 DEF FitsLong, SumLimit, SignOf, Negative
<1>11. Double <=> (left > 0 \/ ~(x <= SumLimit(from)))
  BY <1>8, <1>9, <1>10 DEF Double
<1>12. SumLimit(from) \in Nat
  BY <1>7 DEF SumLimit
<1>13. CASE Integer
  <2>1. left = 0 /\ x <= SumLimit(from)
    BY <1>11, <1>13 DEF Integer
  <2>2. PICK v : v = IF Negative(from) THEN -x ELSE x
    OBVIOUS
  <2>3. PICK r : r = Value("integer", <<v>>)
    OBVIOUS
  <2>4. r.type = "integer" /\ r.value = <<v>> /\ r.type \notin {"error", "string"}
    BY <2>3 DEF Value
  <2>5. IntegerLexeme(r, from, to)
    BY <1>5, <2>1, <2>2, <2>4 DEF IntegerLexeme
  <2>6. Lexeme(r, from, to)
    BY <2>4, <2>5 DEF Lexeme
  <2>7. v = IF number.negative THEN -number.sum ELSE number.sum
    BY <1>9, <2>2 DEF SignOf, Negative
  <2>8. results' = Append(results, r) /\ phase' = "space" /\ read' = to
    BY <1>4, <1>13, <2>3, <2>7, IntegerIsSigned
  <2> QED BY <2>4, <2>6, <2>8, TellsValue
<1>14. CASE Compute \/ Strtod
  <2>1. left > 0 \/ x > SumLimit(from)
    BY <1>11, <1>12, <1>14 DEF Compute, Strtod
  <2>2. RealNumber(from, read, x, left)
    BY <1>4, <1>5, <2>1 DEF RealNumber
  <2>3. Power = left /\ left \in Int
    BY <1>9 DEF Power
  <2> QED BY <1>0, <1>9, <1>14, <2>2, <2>3, RealTells
<1> QED BY <1>13, <1>14

LEMMA ScientificEnds ==
  ASSUME Typed, SourceSame, NEW at \in Nat, NEW from \in Nat, Blanks(at, from),
         FractionRead(from) \/ ExponentRead(from), Integer \/ Compute \/ Strtod
  PROVE  Tells(at)
<1>0. phase \in {"fraction", "exponent"} /\ phase # "done" /\ Inv
  BY DEF FractionRead, ExponentRead, Typed
<1>1. /\ read \in Nat /\ count \in Nat /\ read <= count /\ Here = source[read] /\ Here = bytes[read]
  BY <1>0, Ahead DEF Here
<1>2. ~IsDigit /\ (phase = "fraction" => Here \notin E_e)
  BY <1>0 DEF Integer, Compute, Strtod, AtFinish, AtExponent, AtPoint
<1>3. ~IsDigitAt(read)
  BY <1>0, <1>1, <1>2, DigitAhead DEF IsDigit
<1>4. PICK to \in Nat : to = read
  BY <1>1
<1>5. CASE FractionRead(from)
  <2>1. PICK p, kept, x, y, left, digits \in Nat :
        /\ number = Locals(SignOf(from), y, left - (kept - (p + 1)), digits, TRUE, 1, 0)
        /\ WholePart(FirstDigit(from), p, x, left) /\ source[p] = PointByte
        /\ Kept(p, kept, x, y, digits, read)
    BY <1>5, FractionReads
  <2>2. PICK power \in Int : power = left - (kept - (p + 1))
    OBVIOUS
  <2>3. Mantissa(from, to, y, power, FALSE)
    BY <1>3, <1>4, <2>1, <2>2, MantissaByPoint
  <2>4. source[to] \notin E_e
    BY <1>1, <1>2, <1>4, <1>5 DEF FractionRead
  <2>5. Scientific(from, to, y, power)
    <3>1. 0 \in Nat
      OBVIOUS
    <3> QED BY <2>3, <2>4, <3>1 DEF Scientific
  <2>6. RealNumber(from, read, y, power)
    BY <1>4, <2>5 DEF RealNumber
  <2>7. /\ number.negative = SignOf(from) /\ number.sum = y /\ number.exponent = power
        /\ number.exp_sign = 1 /\ number.exp = 0 /\ number.force_double = TRUE
    BY <2>1, <2>2 DEF Locals
  <2>8. Power = power /\ (Compute \/ Strtod)
    BY <2>7 DEF Power, Integer, Double
  <2> QED BY <1>0, <2>6, <2>7, <2>8, RealTells
<1>6. CASE ExponentRead(from)
  <2>1. PICK q, y, exp, digits \in Nat : \E power \in Int :
           /\ number = Locals(SignOf(from), y, power, digits, TRUE, ExponentSign(q), exp)
           /\ \E plain \in BOOLEAN : Mantissa(from, q, y, power, plain)
           /\ source[q] \in E_e
           /\ ExponentDigits(q) <= read /\ Worth(ExponentDigits(q), read, 0, exp)
           /\ exp <= ExpLimit /\ (read = ExponentDigits(q) => IsDigitAt(read))
    BY <1>6, ExponentReads
  <2>2. PICK mantissa \in Int :
           /\ number = Locals(SignOf(from), y, mantissa, digits, TRUE, ExponentSign(q), exp)
           /\ \E plain \in BOOLEAN : Mantissa(from, q, y, mantissa, plain)
           /\ source[q] \in E_e
           /\ ExponentDigits(q) <= read /\ Worth(ExponentDigits(q), read, 0, exp)
           /\ exp <= ExpLimit /\ (read = ExponentDigits(q) => IsDigitAt(read))
    BY <2>1
  <2>3. PICK power \in Int : power = mantissa + ExponentSign(q) * exp
    <3>1. ExponentSign(q) \in {-1, 1}
      BY DEF ExponentSign
    <3>2. ExponentSign(q) * exp \in Int
      BY <3>1
    <3> QED BY <3>2
  <2>4. ExponentDigits(q) < to /\ ExponentPart(q, to, exp) /\ ~IsDigitAt(to)
    <3>1. ExponentDigits(q) \in Nat /\ ExponentDigits(q) # read
      BY <1>3, <2>2, ExponentInside
    <3> QED BY <1>1, <1>3, <1>4, <2>2, <3>1 DEF ExponentPart
  <2>5. Scientific(from, to, y, power)
    BY <2>2, <2>3, <2>4 DEF Scientific
  <2>6. RealNumber(from, read, y, power)
    BY <1>4, <2>5 DEF RealNumber
  <2>7. /\ number.negative = SignOf(from) /\ number.sum = y /\ number.exponent = mantissa
        /\ number.exp_sign = ExponentSign(q) /\ number.exp = exp /\ number.force_double = TRUE
    BY <2>2 DEF Locals
  <2>8. Power = power /\ (Compute \/ Strtod)
    BY <2>3, <2>7 DEF Power, Integer, Double
  <2> QED BY <1>0, <2>6, <2>7, <2>8, RealTells
<1> QED BY <1>5, <1>6

-----------------------------------------------------------------------------
(* All scanners together, and all results.                                 *)

LEMMA NumberPhases ==
  /\ WholeDigit => phase = "whole"
  /\ Point => phase \in {"whole", "point"}
  /\ FractionDigit => phase = "fraction"
  /\ Exponent => phase \in {"whole", "point", "fraction"}
  /\ ExponentDigit => phase = "exponent"
  /\ Integer \/ Compute \/ Strtod => phase \in {"whole", "point", "fraction", "exponent"}
BY DEF WholeDigit, Point, AtPoint, FractionDigit, Exponent, AtExponent, ExponentDigit,
   Integer, Compute, Strtod, AtFinish

LEMMA NumberReadPhases ==
  ASSUME NEW from
  PROVE  /\ WholeRead(from) => phase \in {"whole", "point"}
         /\ FractionRead(from) => phase = "fraction"
         /\ ExponentRead(from) => phase = "exponent"
BY DEF WholeRead, FractionRead, ExponentRead

LEMMA NumberScans ==
  ASSUME Typed, SourceSame, NEW at \in Nat, InNumber(at), NumberNext
  PROVE  (results' = results /\ InNumber(at)') \/ Tells(at)
<1>0. Inv
  BY DEF Typed
<1>1. PICK from \in Nat : Blanks(at, from) /\ NumberRead(from)
  BY DEF InNumber
<1>2. Blanks(at, from)'
  BY <1>1, BlanksLater
<1>3. ASSUME results' = results /\ NumberRead(from)' PROVE results' = results /\ InNumber(at)'
  BY <1>2, <1>3 DEF InNumber
<1>4. ASSUME WholeRead(from)' \/ FractionRead(from)' \/ ExponentRead(from)' PROVE NumberRead(from)'
  BY <1>4 DEF NumberRead
<1>5. WholeRead(from) \/ FractionRead(from) \/ ExponentRead(from)
  BY <1>1 DEF NumberRead
<1>6. CASE WholeDigit
  BY <1>0, <1>3, <1>4, <1>5, <1>6, NumberPhases, NumberReadPhases, WholeScans
<1>7. CASE Point
  BY <1>0, <1>1, <1>3, <1>4, <1>5, <1>7, NumberPhases, NumberReadPhases, PointScans
<1>8. CASE FractionDigit
  BY <1>0, <1>3, <1>4, <1>5, <1>8, NumberPhases, NumberReadPhases, FractionScans
<1>9. CASE Exponent
  BY <1>0, <1>1, <1>3, <1>4, <1>9, ExponentStarts
<1>10. CASE ExponentDigit
  BY <1>0, <1>1, <1>3, <1>4, <1>5, <1>10, NumberPhases, NumberReadPhases, ExponentScans
<1>11. CASE Integer \/ Compute \/ Strtod
  BY <1>1, <1>5, <1>11, WholeEnds, ScientificEnds
<1> QED BY <1>6, <1>7, <1>8, <1>9, <1>10, <1>11 DEF NumberNext

Scanning(at) ==
  AtBlank(at) \/ InBlock(at) \/ InLine(at) \/ InText(at) \/ InNumber(at) \/ AtLast(at)

LEMMA ScanningPhases ==
  ASSUME NEW at, Scanning(at)
  PROVE  \/ AtBlank(at) /\ phase = "space"
         \/ InBlock(at) /\ phase = "block"
         \/ InLine(at) /\ phase = "line"
         \/ InText(at) /\ phase = "string"
         \/ InNumber(at) /\ phase \in {"whole", "point", "fraction", "exponent"}
         \/ AtLast(at) /\ phase = "done"
<1>1. InNumber(at) => phase \in {"whole", "point", "fraction", "exponent"}
  BY NumberReadPhases DEF InNumber, NumberRead
<1> QED BY <1>1 DEF Scanning, AtBlank, InBlock, InLine, InText, AtLast

LEMMA ActionPhases ==
  /\ SkipSpace \/ StartComment \/ Word \/ String \/ Number \/ Mark \/ End \/ Junk => phase = "space"
  /\ BlockComment => phase = "block"
  /\ LineComment => phase = "line"
  /\ StringNext => phase = "string"
  /\ NumberNext => phase \in {"whole", "point", "fraction", "exponent"}
<1>1. SkipSpace \/ StartComment \/ Word \/ String \/ Number \/ Mark \/ End \/ Junk => phase = "space"
  BY DEF SkipSpace, AtSpace, StartComment, AtComment, Word, String, Number, Mark, End, Junk, AtToken
<1>2. NumberNext => phase \in {"whole", "point", "fraction", "exponent"}
  BY NumberPhases DEF NumberNext
<1>3. (BlockComment => phase = "block") /\ (LineComment => phase = "line")
  BY DEF BlockComment, LineComment
<1> QED BY <1>1, <1>2, <1>3, StringNextInString

LEMMA DoneStays == ASSUME [Next]_vars, phase = "done" PROVE UNCHANGED vars
BY ActionPhases DEF Next

LEMMA StepLexes ==
  ASSUME Typed, NEW at \in Nat, Scanning(at), Next
  PROVE  (results' = results /\ Scanning(at)') \/ Tells(at)
<1>0. SourceSame /\ Inv
  BY SourceKept DEF SourceSame, Typed
<1>1. ASSUME AtBlank(at)' \/ InBlock(at)' \/ InLine(at)' \/ InText(at)' \/ InNumber(at)' \/ AtLast(at)'
      PROVE  Scanning(at)'
  BY <1>1 DEF Scanning
<1>2. CASE AtBlank(at) /\ phase = "space"
  <2>1. CASE SkipSpace
    BY <1>0, <1>1, <1>2, <2>1, SpaceScans
  <2>2. CASE StartComment
    BY <1>0, <1>1, <1>2, <2>2, CommentStarts
  <2>3. CASE Word
    BY <1>0, <1>2, <2>3, WordTells
  <2>4. CASE String
    BY <1>0, <1>1, <1>2, <2>4, StringStarts
  <2>5. CASE Number
    BY <1>0, <1>1, <1>2, <2>5, NumberStarts
  <2>6. CASE Mark \/ Junk
    BY <1>0, <1>2, <2>6, MarkTells
  <2>7. CASE End
    BY <1>0, <1>1, <1>2, <2>7, EndIsLast
  <2> QED BY <1>2, <2>1, <2>2, <2>3, <2>4, <2>5, <2>6, <2>7, ActionPhases DEF Next
<1>3. CASE InBlock(at) /\ phase = "block"
  <2>1. BlockComment
    BY <1>3, ActionPhases DEF Next
  <2> QED BY <1>0, <1>1, <1>3, <2>1, BlockScans
<1>4. CASE InLine(at) /\ phase = "line"
  <2>1. LineComment
    BY <1>4, ActionPhases DEF Next
  <2> QED BY <1>0, <1>1, <1>4, <2>1, LineScans
<1>5. CASE InText(at) /\ phase = "string"
  <2>1. StringNext
    BY <1>5, ActionPhases DEF Next
  <2> QED BY <1>0, <1>1, <1>5, <2>1, TextScans
<1>6. CASE InNumber(at) /\ phase \in {"whole", "point", "fraction", "exponent"}
  <2>1. NumberNext
    BY <1>6, ActionPhases DEF Next
  <2> QED BY <1>0, <1>1, <1>6, <2>1, NumberScans
<1>7. CASE AtLast(at) /\ phase = "done"
  BY <1>7, ActionPhases DEF Next
<1> QED BY <1>2, <1>3, <1>4, <1>5, <1>6, <1>7, ScanningPhases

-----------------------------------------------------------------------------

LEMMA LexemeStays ==
  ASSUME Typed, [Next]_vars, NEW n \in 1..Len(results), NEW r, r = results[n],
         NEW from \in Nat, NEW to \in Nat, Lexeme(r, from, to)
  PROVE  Lexeme(r, from, to)'
<1>0. SourceSame
  BY SourceKept DEF SourceSame
<1>1. CASE r.type # "string"
  BY <1>0, <1>1, LexemeLater
<1>2. CASE r.type = "string"
  <2>1. /\ source[from] = Quote /\ source[to - 1] = Quote /\ r.value[1] = from + 1
        /\ Decodes(from + 1, to - 1, bytes, r.value[1], r.value[1] + r.value[2])
    BY <1>2 DEF Lexeme, StringLexeme
  <2>2. r.value[1] \in Nat /\ r.value[2] \in Nat
    BY <1>2 DEF Typed, Behind
  <2>3. PICK first, last \in Nat : first = r.value[1] /\ last = r.value[1] + r.value[2]
    BY <2>2
  <2>4. PICK b \in Nat : b = to - 1
    <3>1. \E cut : cut = from + 1 /\ cut \in (from + 1)..(to - 1)
      BY <2>1 DEF Decodes
    <3>2. to - 1 \in Nat
      BY <3>1
    <3> QED BY <3>2
  <2>5. PICK a \in Nat : a = from + 1
    OBVIOUS
  <2>6. SameOn(bytes, bytes', first, last)
    BY <1>2, <2>2, <2>3, StringsAreKept DEF StringsKept, SameOn
  <2>7. Decodes(a, b, bytes', first, last)
    BY <2>1, <2>3, <2>4, <2>5, <2>6, DecodesElsewhere
  <2>8. TextKept
    BY <1>0 DEF SourceSame, TextKept
  <2>9. StringLexeme(r, from, to)'
    BY <2>1, <2>3, <2>4, <2>5, <2>7, <2>8, StringSaid
  <2> QED BY <1>2, <2>9 DEF Lexeme
<1> QED BY <1>1, <1>2

-----------------------------------------------------------------------------
(* What has been told so far, and where the scanners are.                  *)
TextTold ==
  \E start, stop \in [0..Len(results) -> Nat] :
    /\ stop[0] = 0
    /\ \A n \in 1..Len(results) :
         /\ Blanks(stop[n - 1], start[n]) /\ Lexeme(results[n], start[n], stop[n])
         /\ results[n].type = "error" => n = Len(results) /\ phase = "done"
    /\ \/ Scanning(stop[Len(results)])
       \/ phase = "done" /\ Len(results) # 0 /\ results[Len(results)].type = "error"

LEMMA ToldIsTheText == ASSUME Typed, TextTold PROVE ResultsAreTheText
<1>1. PICK start, stop \in [0..Len(results) -> Nat] :
    /\ stop[0] = 0
    /\ \A n \in 1..Len(results) :
         /\ Blanks(stop[n - 1], start[n]) /\ Lexeme(results[n], start[n], stop[n])
         /\ results[n].type = "error" => n = Len(results) /\ phase = "done"
    /\ \/ Scanning(stop[Len(results)])
       \/ phase = "done" /\ Len(results) # 0 /\ results[Len(results)].type = "error"
  BY DEF TextTold
<1>2. ASSUME phase = "done", Scanning(stop[Len(results)]) PROVE Ended(stop[Len(results)])
  BY <1>2, ScanningPhases DEF AtLast
<1>3. phase = "done" => \/ Ended(stop[Len(results)])
                        \/ Len(results) # 0 /\ results[Len(results)].type = "error"
  BY <1>1, <1>2
<1> SUFFICES \E start2, stop2 \in [0..Len(results) -> Nat] :
    /\ stop2[0] = 0
    /\ \A n \in 1..Len(results) :
         /\ Blanks(stop2[n - 1], start2[n]) /\ Lexeme(results[n], start2[n], stop2[n])
         /\ results[n].type = "error" => n = Len(results) /\ phase = "done"
    /\ phase = "done" =>
         \/ Ended(stop2[Len(results)])
         \/ Len(results) # 0 /\ results[Len(results)].type = "error"
  BY DEF ResultsAreTheText
<1> WITNESS start \in [0..Len(results) -> Nat], stop \in [0..Len(results) -> Nat]
<1> QED BY <1>1, <1>3

(* One way of telling it.                                                  *)
Tale(rs, start, stop) ==
  /\ start \in [0..Len(rs) -> Nat] /\ stop \in [0..Len(rs) -> Nat] /\ stop[0] = 0
  /\ \A n \in 1..Len(rs) : Blanks(stop[n - 1], start[n]) /\ Lexeme(rs[n], start[n], stop[n])
Faulty(rs) == Len(rs) # 0 /\ rs[Len(rs)].type = "error"
FaultLast(rs) == \A n \in 1..Len(rs) : rs[n].type = "error" => n = Len(rs) /\ phase = "done"

LEMMA Counted == ASSUME NEW rs, Listed(rs) PROVE Len(rs) \in Nat
BY DEF Listed

LEMMA ToldBy ==
  ASSUME NEW start, NEW stop, Tale(results, start, stop), FaultLast(results),
         Scanning(stop[Len(results)]) \/ (phase = "done" /\ Faulty(results))
  PROVE  TextTold
<1> SUFFICES \E start2, stop2 \in [0..Len(results) -> Nat] :
    /\ stop2[0] = 0
    /\ \A n \in 1..Len(results) :
         /\ Blanks(stop2[n - 1], start2[n]) /\ Lexeme(results[n], start2[n], stop2[n])
         /\ results[n].type = "error" => n = Len(results) /\ phase = "done"
    /\ \/ Scanning(stop2[Len(results)])
       \/ phase = "done" /\ Len(results) # 0 /\ results[Len(results)].type = "error"
  BY DEF TextTold
<1> start \in [0..Len(results) -> Nat] /\ stop \in [0..Len(results) -> Nat]
  BY DEF Tale
<1> WITNESS start \in [0..Len(results) -> Nat], stop \in [0..Len(results) -> Nat]
<1> QED BY DEF Tale, FaultLast, Faulty

LEMMA ToldAs ==
  ASSUME TextTold
  PROVE  \E start, stop :
           /\ Tale(results, start, stop) /\ FaultLast(results)
           /\ Scanning(stop[Len(results)]) \/ (phase = "done" /\ Faulty(results))
BY DEF TextTold, Tale, FaultLast, Faulty

LEMMA InitTold == Init => TextTold
<1> SUFFICES ASSUME Init PROVE TextTold
  OBVIOUS
<1>1. results = <<>> /\ phase = "space" /\ Inv
  BY InitInv DEF Init
<1>2. Len(results) = 0
  BY <1>1
<1>3. read = 0
  BY DEF Init, parser_set_bytes
<1> DEFINE f == [k \in 0..0 |-> 0]
<1>4. f \in [0..0 -> Nat] /\ f[0] = 0
  OBVIOUS
<1> HIDE DEF f
<1>5. Blanks(0, 0)
  BY BlanksNothing
<1>6. AtBlank(0)
  BY <1>1, <1>3, <1>5 DEF AtBlank
<1>7. Scanning(f[Len(results)])
  BY <1>2, <1>4, <1>6 DEF Scanning
<1>8. Tale(results, f, f) /\ FaultLast(results)
  BY <1>2, <1>4 DEF Tale, FaultLast
<1> QED BY <1>7, <1>8, ToldBy

LEMMA ToldLater ==
  ASSUME NEW rs, rs = results', NEW start, NEW stop, Tale(rs, start, stop)', FaultLast(rs)',
         NEW at, at = stop[Len(rs)], Scanning(at)' \/ (phase' = "done" /\ Faulty(rs))
  PROVE  TextTold'
<1> SUFFICES \E start2, stop2 \in [0..Len(results') -> Nat] :
    /\ stop2[0] = 0
    /\ \A n \in 1..Len(results') :
         /\ Blanks(stop2[n - 1], start2[n])' /\ Lexeme(results[n], start2[n], stop2[n])'
         /\ results'[n].type = "error" => n = Len(results') /\ phase' = "done"
    /\ \/ Scanning(stop2[Len(results)])'
       \/ phase' = "done" /\ Len(results') # 0 /\ results'[Len(results')].type = "error"
  BY DEF TextTold
<1> start \in [0..Len(results') -> Nat] /\ stop \in [0..Len(results') -> Nat] /\ stop[0] = 0
  BY DEF Tale
<1> WITNESS start \in [0..Len(results') -> Nat], stop \in [0..Len(results') -> Nat]
<1>1. ASSUME NEW n \in 1..Len(results')
      PROVE  /\ Blanks(stop[n - 1], start[n])' /\ Lexeme(results[n], start[n], stop[n])'
             /\ results'[n].type = "error" => n = Len(results') /\ phase' = "done"
  <2>1. Blanks(stop[n - 1], start[n])' /\ Lexeme(rs[n], start[n], stop[n])'
    BY DEF Tale
  <2>2. PICK r : r = rs[n] /\ r = results'[n]
    OBVIOUS
  <2>3. Lexeme(r, start[n], stop[n])'
    BY <2>1, <2>2
  <2>4. Lexeme(results[n], start[n], stop[n])'
    BY <2>2, <2>3 DEF Lexeme
  <2>5. results'[n].type = "error" => n = Len(results') /\ phase' = "done"
    BY DEF FaultLast
  <2> QED BY <2>1, <2>4, <2>5
<1>2. Scanning(at)' => Scanning(stop[Len(results)])'
  BY DEF Scanning
<1> QED BY <1>1, <1>2 DEF Faulty

LEMMA StepTold ==
  ASSUME Typed, TextTold, Next, phase # "done"
  PROVE  TextTold'
<1>0. SourceSame /\ Listed(results) /\ [Next]_vars
  BY SourceKept DEF SourceSame, Typed
<1>1. PICK start, stop :
        /\ Tale(results, start, stop) /\ FaultLast(results)
        /\ Scanning(stop[Len(results)]) \/ (phase = "done" /\ Faulty(results))
  BY ToldAs
<1>2. PICK N : N = Len(results)
  OBVIOUS
<1> N \in Nat
  BY <1>0, <1>2, Counted
<1>3. PICK at \in Nat : at = stop[N] /\ Scanning(at)
  <2>1. stop \in [0..N -> Nat] /\ Scanning(stop[N])
    BY <1>1, <1>2 DEF Tale
  <2>2. N \in 0..N
    BY <1>2
  <2> QED BY <2>1, <2>2
<1>4. /\ start \in [0..N -> Nat] /\ stop \in [0..N -> Nat] /\ stop[0] = 0
      /\ \A n \in 1..N : /\ Blanks(stop[n - 1], start[n])
                         /\ Lexeme(results[n], start[n], stop[n])
                         /\ results[n].type # "error"
  BY <1>1, <1>2 DEF Tale, FaultLast
<1>5. ASSUME NEW n \in 1..N
      PROVE  /\ Blanks(stop[n - 1], start[n])' /\ results'[n] = results[n]
             /\ Lexeme(results[n], start[n], stop[n])'
             /\ n - 1 \in 0..N /\ n \in 0..N
  <2>1. results'[n] = results[n] /\ n - 1 \in 0..N /\ n \in 0..N
    BY <1>0, <1>2, ResultsKept
  <2>2. PICK a, b \in Nat : a = start[n] /\ b = stop[n]
    BY <1>4, <2>1
  <2>3. PICK c \in Nat : c = stop[n - 1]
    BY <1>4, <2>1
  <2>4. PICK r : r = results[n]
    OBVIOUS
  <2>5. Lexeme(r, a, b)'
    BY <1>0, <1>2, <1>4, <2>2, <2>4, LexemeStays
  <2>6. Blanks(c, a)'
    BY <1>0, <1>4, <2>2, <2>3, BlanksLater
  <2> QED BY <2>1, <2>2, <2>3, <2>4, <2>5, <2>6
<1>6. CASE results' = results /\ Scanning(at)'
  <2>1. PICK rs : rs = results' /\ rs = results
    BY <1>6
  <2>2. Tale(rs, start, stop)'
    BY <1>2, <1>4, <1>5, <2>1 DEF Tale
  <2>3. FaultLast(rs)'
    BY <1>2, <1>4, <2>1 DEF FaultLast
  <2> QED BY <1>2, <1>3, <1>6, <2>1, <2>2, <2>3, ToldLater
<1>7. CASE Tells(at)
  <2>1. PICK r : /\ results' = Append(results, r)
                 /\ \E from, to \in Nat :
                      /\ Blanks(at, from) /\ Lexeme(r, from, to)'
                      /\ IF r.type = "error" THEN phase' = "done" ELSE phase' = "space" /\ read' = to
    BY <1>7 DEF Tells
  <2>2. PICK from, to \in Nat :
          /\ Blanks(at, from) /\ Lexeme(r, from, to)'
          /\ IF r.type = "error" THEN phase' = "done" ELSE phase' = "space" /\ read' = to
    BY <2>1
  <2>3. PICK rs : rs = results' /\ rs = Append(results, r)
    BY <2>1
  <2>4. PICK M \in Nat : M = N + 1
    OBVIOUS
  <2>5. Len(rs) = M /\ rs[M] = r /\ \A n \in 1..N : rs[n] = results[n]
    BY <1>0, <1>2, <2>3, <2>4, Appended
  <2> DEFINE start2 == [k \in 0..M |-> IF k = M THEN from ELSE start[k]]
             stop2 == [k \in 0..M |-> IF k = M THEN to ELSE stop[k]]
  <2>6. start2 \in [0..M -> Nat] /\ stop2 \in [0..M -> Nat]
    BY <1>4, <2>4
  <2>7. /\ start2[M] = from /\ stop2[M] = to
        /\ \A k \in 0..N : start2[k] = start[k] /\ stop2[k] = stop[k]
    BY <2>4
  <2> HIDE DEF start2, stop2
  <2>8. Blanks(at, from)'
    BY <1>0, <2>2, BlanksLater
  <2>9. ASSUME NEW n \in 1..M
        PROVE  Blanks(stop2[n - 1], start2[n])' /\ Lexeme(rs[n], start2[n], stop2[n])'
    <3>1. CASE n = M
      <4>1. n - 1 = N /\ N \in 0..N
        BY <2>4, <3>1
      <4> QED BY <1>3, <2>2, <2>5, <2>7, <2>8, <3>1, <4>1
    <3>2. CASE n # M
      <4>1. n \in 1..N
        BY <2>4, <3>2
      <4>2. PICK q : q = results[n] /\ q = rs[n]
        BY <2>5, <4>1
      <4>3. Lexeme(q, start[n], stop[n])'
        BY <1>5, <4>1, <4>2 DEF Lexeme
      <4> QED BY <1>5, <2>7, <4>1, <4>2, <4>3
    <3> QED BY <3>1, <3>2
  <2>10. Tale(rs, start2, stop2)'
    <3>1. stop2[0] = 0
      BY <1>4, <2>7
    <3> QED BY <2>5, <2>6, <2>9, <3>1 DEF Tale
  <2>11. FaultLast(rs)'
    <3>1. ASSUME NEW n \in 1..M, rs[n].type = "error" PROVE n = M /\ phase' = "done"
      <4>1. n \in 1..N \/ n = M
        BY <2>4
      <4>2. n = M
        BY <1>4, <2>5, <3>1, <4>1
      <4> QED BY <2>2, <2>5, <3>1, <4>2
    <3> QED BY <2>5, <3>1 DEF FaultLast
  <2>12. CASE r.type = "error"
    <3>1. phase' = "done" /\ Faulty(rs)
      BY <2>2, <2>4, <2>5, <2>12 DEF Faulty
    <3> QED BY <2>3, <2>10, <2>11, <3>1, ToldLater
  <2>13. CASE r.type # "error"
    <3>1. phase' = "space" /\ read' = to
      BY <2>2, <2>13
    <3>2. Blanks(to, to)'
      BY <1>0, BlanksNothing, BlanksLater
    <3>3. AtBlank(to)'
      BY <1>0, <3>1, <3>2, BlanksLater DEF AtBlank
    <3>4. Scanning(to)' /\ to = stop2[Len(rs)]
      BY <2>5, <2>7, <3>3 DEF Scanning
    <3> QED BY <2>3, <2>10, <2>11, <3>4, ToldLater
  <2> QED BY <2>12, <2>13
<1> QED BY <1>0, <1>3, <1>6, <1>7, StepLexes

(* A step that changes nothing leaves what is being scanned as it was.     *)
LEMMA ScanningStays ==
  ASSUME UNCHANGED vars, NEW at, Scanning(at)
  PROVE  Scanning(at)'
<1>1. /\ SourceSame /\ TextKept
      /\ UNCHANGED <<count, bytes, read, write, string, mark, phase, number, results>>
  BY DEF vars, stream, SourceSame, TextKept
<1>2. CASE AtBlank(at)
  <2>1. AtBlank(at)'
    BY <1>1, <1>2, BlanksLater DEF AtBlank
  <2> QED BY <2>1 DEF Scanning
<1>3. CASE InBlock(at)
  <2>1. PICK a \in Nat : /\ Blanks(at, a) /\ OpensBlock(a) /\ a + 2 <= read
                         /\ \A i \in (a + 2)..(read - 1) : ~Closes(i)
    BY <1>3 DEF InBlock
  <2>2. /\ Blanks(at, a)' /\ OpensBlock(a)' /\ a + 2 <= read'
        /\ \A i \in (a + 2)..(read' - 1) : ~Closes(i)'
    BY <1>1, <2>1, BlanksLater
  <2>3. phase' = "block"
    BY <1>1, <1>3 DEF InBlock
  <2>4. InBlock(at)'
    BY <2>2, <2>3 DEF InBlock
  <2> QED BY <2>4 DEF Scanning
<1>4. CASE InLine(at)
  <2>1. InLine(at)'
    BY <1>1, <1>4, BlanksLater DEF InLine
  <2> QED BY <2>1 DEF Scanning
<1>5. CASE InText(at)
  <2>1. PICK from \in Nat : Blanks(at, from) /\ from + 1 = string /\ source[from] = Quote /\ Taken
    BY <1>5 DEF InText
  <2>2. UNCHANGED <<Moved, MovedTo>>
    <3>1. read' = read /\ count' = count /\ write' = write /\ mark' = mark /\ bytes' = bytes
      BY <1>1
    <3>2. MovedTo' = MovedTo
      BY <3>1 DEF MovedTo
    <3>3. Moved' = Moved
      BY <3>1 DEF Moved
    <3> QED BY <3>2, <3>3
  <2>3. Taken'
    BY <1>1, <2>1, <2>2, TakenLater DEF Taken
  <2>4. Blanks(at, from)' /\ from + 1 = string' /\ source'[from] = Quote /\ phase' = "string"
    BY <1>1, <1>5, <2>1, BlanksLater DEF SourceSame, InText
  <2>5. InText(at)'
    BY <2>3, <2>4 DEF InText
  <2> QED BY <2>5 DEF Scanning
<1>6. CASE InNumber(at)
  <2>1. PICK from \in Nat : Blanks(at, from) /\ NumberRead(from)
    BY <1>6 DEF InNumber
  <2>2. ASSUME WholeRead(from) PROVE NumberRead(from)'
    <3>1. PICK x, left \in Nat :
            /\ number = Locals(SignOf(from), x, left, SigDigits(from, read), FALSE, 1, 0)
            /\ WholePart(FirstDigit(from), read, x, left)
            /\ Sized(x, SigDigits(from, read))
            /\ phase = IF source[FirstDigit(from)] = Zero THEN "point" ELSE "whole"
      BY <2>2, WholeReads
    <3>2. PICK to : to = read
      OBVIOUS
    <3>3. PICK digits : digits = SigDigits(from, to)
      OBVIOUS
    <3>4. PICK w : w = FirstDigit(from)
      OBVIOUS
    <3>5. /\ SignOf(from)' = SignOf(from) /\ FirstDigit(from)' = w
          /\ SigDigits(from, to)' = digits /\ WholePart(w, to, x, left)'
      BY <1>1, <3>1, <3>2, <3>3, <3>4, ReadLater, PartsLater
    <3>6. Sized(x, digits)'
      BY <3>1, <3>2, <3>3 DEF Sized
    <3>7. /\ read' = to /\ number' = Locals(SignOf(from), x, left, digits, FALSE, 1, 0)
          /\ phase' = IF source'[w] = Zero THEN "point" ELSE "whole"
      BY <1>1, <3>1, <3>2, <3>3, <3>4 DEF SourceSame
    <3>8. WholeRead(from)'
      <4>1. SigDigits(from, read)' = digits
        BY <3>5, <3>7 DEF SigDigits
      <4>2. Sized(x, SigDigits(from, read))'
        BY <3>6, <4>1 DEF Sized
      <4>3. WholePart(FirstDigit(from), read, x, left)'
        BY <3>5, <3>7 DEF WholePart, Worth, Digits, IsDigitAt
      <4>4. /\ number' = Locals(SignOf(from)', x, left, SigDigits(from, read)', FALSE, 1, 0)
            /\ phase' = IF source'[FirstDigit(from)'] = Zero THEN "point" ELSE "whole"
        BY <3>5, <3>7, <4>1
      <4> QED BY <4>2, <4>3, <4>4 DEF WholeRead
    <3> QED BY <3>8 DEF NumberRead
  <2>3. ASSUME FractionRead(from) PROVE NumberRead(from)'
    <3>1. PICK p, kept, x, y, left, digits \in Nat :
            /\ number = Locals(SignOf(from), y, left - (kept - (p + 1)), digits, TRUE, 1, 0)
            /\ WholePart(FirstDigit(from), p, x, left) /\ source[p] = PointByte
            /\ Kept(p, kept, x, y, digits, read)
      BY <2>3, FractionReads
    <3>2. PICK to : to = read
      OBVIOUS
    <3>3. PICK e : e = left - (kept - (p + 1))
      OBVIOUS
    <3>4. /\ read' = to /\ phase' = "fraction"
          /\ number' = Locals(SignOf(from), y, e, digits, TRUE, 1, 0)
          /\ Kept(p, kept, x, y, digits, to)
      BY <1>1, <2>3, <3>1, <3>2, <3>3, NumberReadPhases
    <3>5. FractionRead(from)'
      BY <1>1, <3>1, <3>3, <3>4, FractionReadBy
    <3> QED BY <3>5 DEF NumberRead
  <2>4. ASSUME ExponentRead(from) PROVE NumberRead(from)'
    <3>1. PICK q, y, exp, digits \in Nat, power \in Int, plain \in BOOLEAN :
            /\ number = Locals(SignOf(from), y, power, digits, TRUE, ExponentSign(q), exp)
            /\ Mantissa(from, q, y, power, plain) /\ source[q] \in E_e
            /\ ExponentDigits(q) <= read /\ Worth(ExponentDigits(q), read, 0, exp)
            /\ exp <= ExpLimit /\ (read = ExponentDigits(q) => IsDigitAt(read))
      BY <2>4 DEF ExponentRead
    <3>2. PICK to : to = read
      OBVIOUS
    <3>3. /\ read' = to /\ phase' = "exponent"
          /\ number' = Locals(SignOf(from), y, power, digits, TRUE, ExponentSign(q), exp)
      BY <1>1, <2>4, <3>1, <3>2, NumberReadPhases
    <3>4. \E plain2 \in BOOLEAN : Mantissa(from, q, y, power, plain2)
      BY <3>1
    <3>5. ExponentRead(from)'
      BY <1>1, <3>1, <3>2, <3>3, <3>4, ExponentReadBy
    <3> QED BY <3>5 DEF NumberRead
  <2>5. NumberRead(from)'
    BY <2>1, <2>2, <2>3, <2>4 DEF NumberRead
  <2>6. InNumber(at)'
    BY <1>1, <2>1, <2>5, BlanksLater DEF InNumber
  <2> QED BY <2>6 DEF Scanning
<1>7. CASE AtLast(at)
  <2>1. AtLast(at)'
    BY <1>1, <1>7, BlanksLater DEF AtLast
  <2> QED BY <2>1 DEF Scanning
<1> QED BY <1>2, <1>3, <1>4, <1>5, <1>6, <1>7 DEF Scanning

(* Nothing is read any more behind the end or an error.                    *)
LEMMA ToldStays == ASSUME Typed, TextTold, UNCHANGED vars PROVE TextTold'
<1>0. SourceSame /\ Listed(results) /\ [Next]_vars /\ results' = results /\ phase' = phase
  BY SourceKept DEF SourceSame, Typed, vars
<1>1. PICK start, stop :
        /\ Tale(results, start, stop) /\ FaultLast(results)
        /\ Scanning(stop[Len(results)]) \/ (phase = "done" /\ Faulty(results))
  BY ToldAs
<1>2. PICK N : N = Len(results)
  OBVIOUS
<1> N \in Nat
  BY <1>0, <1>2, Counted
<1>3. PICK rs : rs = results /\ rs = results' /\ Len(rs) = N
  BY <1>0, <1>2
<1>4. /\ start \in [0..N -> Nat] /\ stop \in [0..N -> Nat] /\ stop[0] = 0
      /\ \A n \in 1..N : Blanks(stop[n - 1], start[n]) /\ Lexeme(rs[n], start[n], stop[n])
  BY <1>1, <1>3 DEF Tale
<1>5. ASSUME NEW n \in 1..N
      PROVE  Blanks(stop[n - 1], start[n])' /\ Lexeme(rs[n], start[n], stop[n])'
  <2>1. PICK a, b \in Nat : a = start[n] /\ b = stop[n]
    <3>1. n \in 0..N
      OBVIOUS
    <3> QED BY <1>4, <3>1
  <2>2. PICK r : r = rs[n]
    OBVIOUS
  <2>3. Lexeme(r, a, b)'
    BY <1>0, <1>2, <1>3, <1>4, <2>1, <2>2, LexemeStays
  <2>4. Blanks(stop[n - 1], start[n])'
    BY <1>0, <1>4, BlanksLater
  <2> QED BY <2>1, <2>2, <2>3, <2>4
<1>6. Tale(rs, start, stop)'
  BY <1>3, <1>4, <1>5 DEF Tale
<1>7. FaultLast(rs)' /\ (Faulty(results) => Faulty(rs))
  BY <1>0, <1>1, <1>3 DEF FaultLast
<1>8. PICK at : at = stop[Len(rs)]
  OBVIOUS
<1>9. Scanning(at)' \/ (phase' = "done" /\ Faulty(rs))
  BY <1>0, <1>1, <1>3, <1>7, <1>8, ScanningStays
<1> QED BY <1>3, <1>6, <1>7, <1>8, <1>9, ToldLater

LEMMA TextIsTold == Spec => []TextTold
<1>1. Typed /\ TextTold /\ [Next]_vars => TextTold'
  BY StepTold, ToldStays, DoneStays
<1> QED BY <1>1, InitTold, TypedHolds, PTL DEF Spec

(* For every text the results are what the text says, told without         *)
(* scanning it: each is a lexeme of it, behind the one before it with      *)
(* nothing but blanks between them, from the first byte on; a word, a mark,*)
(* a string that decodes into the bytes it points to, an integer or a real *)
(* number with the value of its digits, or, as the last, an error at the   *)
(* byte where nothing can be read; and without an error nothing is left    *)
(* but blanks, or a comment that is not closed (parser.c, mis_consume_*,   *)
(* parse_string, parse_number).                                            *)
THEOREM TextIsRead == Spec => []ResultsAreTheText
BY ToldIsTheText, TextIsTold, TypedHolds, PTL
=============================================================================
