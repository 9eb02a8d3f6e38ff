--------------------------- MODULE StringEscapes ----------------------------
(***************************************************************************)
(* jos_scan_escape of output.c: the bytes of a string cut into the chunks  *)
(* that it puts into the output stream one after another.                  *)
(***************************************************************************)
EXTENDS Utf8

(* The least offset from start on of a byte that is not put as it is.      *)
IsSpecial(b, validate) == b \in {34, 92} \/ b < 32 \/ (validate /\ b >= 128)
find_next_special(s, start, validate) ==
  CHOOSE i \in start..(Len(s) + 1) :
    /\ i = Len(s) + 1 \/ IsSpecial(s[i], validate)
    /\ \A j \in start..(i - 1) : ~IsSpecial(s[j], validate)

(* c_escapes: a letter for these bytes; s_escapes: two hexadecimal digits  *)
(* for the other control bytes.                                            *)
c_escapes == [c \in {8, 9, 10, 12, 13, 34, 92} |->
                CASE c = 8 -> 98 [] c = 9 -> 116 [] c = 10 -> 110 [] c = 12 -> 102 [] c = 13 -> 114
                  [] OTHER -> c]
HexDigit(n) == IF n < 10 THEN 48 + n ELSE 55 + n

(* Mutant: the digits of a control byte in the wrong order.                *)
SwappedDigits(c) == <<92, 117, 48, 48, HexDigit(c % 16), HexDigit(c \div 16)>>

UnitDigits(c) == <<92, 117, 48, 48, HexDigit(c \div 16), HexDigit(c % 16)>>
Escaped(c) == IF c \in DOMAIN c_escapes THEN <<92, c_escapes[c]>> ELSE UnitDigits(c)

BadUtf8 == <<-1>>       \* the chunk in whose place the error UTF8 is set

jos_scan_escape(s, validate) ==
  LET Chunks[at \in 1..(Len(s) + 1)] ==
        LET next == find_next_special(s, at, validate)
            run == SubSeq(s, at, next - 1)
            length == utf8_validate_sequence(s, next, Len(s) + 1 - next)
        IN IF next = Len(s) + 1 THEN <<run>>
           ELSE IF validate /\ s[next] >= 128
           THEN IF length = -1 THEN <<run, BadUtf8>>
                ELSE <<run, SubSeq(s, next, next + length - 1)>> \o Chunks[next + length]
           ELSE <<run, Escaped(s[next])>> \o Chunks[next + 1]
  IN Chunks[1]
=============================================================================
