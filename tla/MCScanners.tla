----------------------------- MODULE MCScanners -----------------------------
(***************************************************************************)
(* The texts that TLC scans.  Numbers are in base two, so that the twenty  *)
(* digits of a 64 bit number fit TLC's integers; bytes are real ones.      *)
(***************************************************************************)
EXTENDS Scanners, StringEscapes

Printed == INSTANCE Itoa

MinusThirty == -30
MinusThree == -3

NoPiece == [kind |-> "blank", raw |-> <<>>, value |-> <<>>, faults |-> <<>>, written |-> FALSE]
PieceOf(kind, raw) == [NoPiece EXCEPT !.kind = kind, !.raw = raw]
Faulty(kind, raw, code, offset) == [PieceOf(kind, raw) EXCEPT !.faults = <<<<code, offset>>>>]

(* The parts of a string: raw bytes, what they stand for, and faults.      *)
Part(raw, cooked) == [raw |-> raw, cooked |-> cooked, faults |-> <<>>]
BadPart(raw, code, offset) == [raw |-> raw, cooked |-> raw, faults |-> <<<<code, offset>>>>]

uXXXX(a, b, c, d) == <<92, 117, a, b, c, d>>

GoodParts == {
  Part(<<97>>, <<97>>),                                   \* a
  Part(<<92, 110>>, <<10>>),                              \* \n
  Part(<<92, 34>>, <<34>>),                               \* \"
  Part(uXXXX(48, 48, 48, 48), <<0>>),                     \* \u0000
  Part(uXXXX(48, 48, 101, 57), <<195, 169>>),             \* \u00e9
  Part(uXXXX(50, 48, 65, 67), <<226, 130, 172>>),         \* \u20AC
  Part(uXXXX(100, 56, 51, 100) \o uXXXX(68, 69, 48, 48), <<240, 159, 152, 128>>),
  Part(<<195, 169>>, <<195, 169>>),
  Part(<<240, 159, 152, 128>>, <<240, 159, 152, 128>>) }

BadParts == {
  BadPart(<<92, 120>>, "ESCAPE", 1),                      \* \x
  BadPart(<<92, 117, 49, 103>>, "ESCAPE", 3),             \* \u1g
  BadPart(uXXXX(100, 67, 48, 48), "SURROGATE", 6),        \* a low one first
  BadPart(uXXXX(100, 56, 48, 48) \o <<32>>, "SURROGATE", 6),
  BadPart(uXXXX(100, 56, 48, 48) \o <<92, 110>>, "SURROGATE", 7),
  BadPart(uXXXX(100, 56, 48, 48) \o uXXXX(48, 120, 48, 48), "ESCAPE", 9),
  BadPart(uXXXX(100, 56, 48, 48) \o uXXXX(100, 56, 48, 48), "SURROGATE", 12),
  BadPart(<<10>>, "INVALID", 0),
  BadPart(<<0>>, "INVALID", 0),
  BadPart(<<226, 130>>, "UTF8", 0),                       \* cut short
  BadPart(<<193, 129>>, "UTF8", 0),                       \* longer than needed
  BadPart(<<237, 160, 128>>, "UTF8", 0) }                 \* a surrogate

Parts == GoodParts \cup BadParts

(* A string piece of the parts; its faults are counted from its quote.     *)
StringOf(parts) ==
  LET Add(p, part) ==
        [p EXCEPT !.raw = @ \o part.raw, !.value = @ \o part.cooked,
                  !.faults = @ \o [i \in 1..Len(part.faults) |->
                     <<part.faults[i][1], Len(p.raw) + part.faults[i][2]>>]]
      all == FoldLeft(Add, PieceOf("string", <<34>>), parts)
  IN [all EXCEPT !.raw = @ \o <<34>>]

Strings == {StringOf(ps) : ps \in SeqOf(Parts, 2)}
           \cup {StringOf(<<p, q, r>>) : p \in GoodParts, q \in GoodParts, r \in GoodParts}

(* What the generator writes of the cooked parts, or of control bytes.     *)
Written(s) == [PieceOf("string", <<34>> \o FlattenSeq(jos_scan_escape(s, TRUE)) \o <<34>>)
                 EXCEPT !.value = s, !.written = TRUE]
WrittenStrings ==
  {Written(p.cooked \o q.cooked) : p \in GoodParts, q \in GoodParts}
  \cup {Written(<<c, 127>>) : c \in 1..31 \cup {92}}

-----------------------------------------------------------------------------
(* Numbers: base two digits, a point, an exponent.                         *)
DigitBytes(ds) == [i \in 1..Len(ds) |-> 48 + ds[i]]
Ones(n) == [i \in 1..n |-> 1]
Zeros(n) == [i \in 1..n |-> 0]

(* The whole digits, none or some behind the point, none or an exponent of *)
(* a sign byte, if any, and digits.                                        *)
Exponents == {[raw |-> <<>>, exponent |-> 0],
              [raw |-> <<101, 49, 48>>, exponent |-> 2],            \* e10
              [raw |-> <<69, 43, 48, 49>>, exponent |-> 1],         \* E+01
              [raw |-> <<101, 45, 49, 48, 49>>, exponent |-> -5]}   \* e-101
NumberOf(negative, whole, fraction, e) ==
  [PieceOf("number", (IF negative THEN <<45>> ELSE <<>>) \o DigitBytes(whole)
                       \o (IF fraction = <<>> THEN <<>> ELSE <<46>> \o DigitBytes(fraction))
                       \o e.raw)
     EXCEPT !.value = [negative |-> negative, digits |-> whole \o fraction,
                       scale |-> Len(fraction), exponent |-> e.exponent,
                       plain |-> fraction = <<>> /\ e.raw = <<>>, long |-> 0]]

Wholes == {<<0>>, <<1>>, <<1, 0>>, <<1, 0, 1>>} \cup {Ones(n) : n \in 18..20}
          \cup {<<1>> \o Zeros(n) : n \in 18..20}
Fractions == {<<>>, <<0>>, <<1>>, <<0, 0, 1>>, <<1>> \o Zeros(2), Ones(18) \o <<0, 1>>}

(* The digits of the long that is as large as can be, and their neighbours.*)
Edges == {Printed!u64toa(LongMax + d) : d \in {-1, 0, 1, 2}}
EdgeDigits == {[i \in 1..Len(bs) |-> bs[i] - 48] : bs \in Edges}

Numbers == {NumberOf(n, w, f, e) : n \in BOOLEAN, w \in Wholes \cup EdgeDigits,
                                   f \in Fractions, e \in Exponents}
BadNumbers == {
  Faulty("number", <<45, 44>>, "NUMBER", 2),              \* -,
  Faulty("number", <<49, 46, 101>>, "NUMBER", 2),         \* 1.e
  Faulty("number", <<49, 101, 43, 45>>, "NUMBER", 3),     \* 1e+-
  Faulty("number", <<49, 101, 49, 49, 48>>, "NUMBER", 5)} \* 1e110

WrittenInteger(v) ==
  LET raw == Printed!i64toa(v)
      digits == IF v < 0 THEN Tail(raw) ELSE raw
  IN [PieceOf("number", raw)
        EXCEPT !.written = TRUE,
               !.value = [negative |-> v < 0, digits |-> [i \in 1..Len(digits) |-> digits[i] - 48],
                          scale |-> 0, exponent |-> 0, plain |-> TRUE, long |-> v]]
Magnitudes == {2 ^ k + d : k \in 1..18, d \in {-1, 0, 1}} \cup {LongMax, LongMax - 1}
WrittenIntegers == {WrittenInteger(v) : v \in Magnitudes \cup {-m : m \in Magnitudes}
                                               \cup {0, -LongMax - 1}}

-----------------------------------------------------------------------------
Space == PieceOf("blank", <<32, 9>>)
Comments == {
  PieceOf("comment", <<47, 42, 42, 47>>),                 \* /**/
  PieceOf("comment", <<47, 42, 47, 42, 42, 47>>),         \* /*/**/
  PieceOf("comment", <<47, 42, 42, 32, 47, 42, 42, 42, 47>>),
  PieceOf("comment", <<47, 47, 42, 47, 10>>)}             \* // and a new line
Blanks == {Space} \cup Comments
AWord(raw) == [PieceOf("word", raw) EXCEPT !.value = raw]
AllWords == {AWord(w) : w \in Words} \cup {Faulty("word", <<110, 117, 108, 44>>, "UNEXPECTED", 3)}
Comma == PieceOf("mark", <<44>>)
(* Bytes that begin no token.  A byte order mark is not among them: in     *)
(* front of a text it should be skipped and is not (parser.c:463), and     *)
(* nothing is claimed about it.                                            *)
Others == {Faulty("junk", <<0>>, "UNEXPECTED", 0), Faulty("junk", <<46>>, "UNEXPECTED", 0)}

Short == {StringOf(<<p>>) : p \in GoodParts}
Tokenish == AllWords \cup Others \cup Short
              \cup {NumberOf(FALSE, <<1>>, <<>>, [raw |-> <<>>, exponent |-> 0])}

CutTexts == {<<s>> : s \in {StringOf(<<p, q>>) : p \in GoodParts, q \in GoodParts}}
            \cup {<<NumberOf(TRUE, <<1>>, <<0, 1>>, e)>> : e \in Exponents}
            \cup {<<a, b, t>> : a \in Blanks, b \in Blanks, t \in AllWords}
AllTexts ==
  CutTexts
  \cup {<<s>> : s \in Strings \cup WrittenStrings}
  \cup {<<n, Comma>> : n \in Numbers \cup WrittenIntegers \cup BadNumbers}
  \cup {<<a, s, Space, t>> : a \in Blanks, s \in Short, t \in Tokenish}
  \cup {<<s, c, t, Comma>> : s \in Tokenish, c \in Comments, t \in Short}

(* The powers that these may be multiplied by are too large or too small.  *)
Powers == {<<NumberOf(FALSE, <<1>>, f, e)>> : f \in {<<>>, <<1>>}, e \in Exponents}
=============================================================================
