------------------------------ MODULE Scanners ------------------------------
(***************************************************************************)
(* The tokens of a text as parser.c reads them: white space and comments   *)
(* skipped, then a word, a string, a number or a mark, one after another   *)
(* until the end or the first error.  Which token may follow which is      *)
(* checked by the parse loops (SaxParser, PullParser), and not here.       *)
(*                                                                         *)
(* A text is put together from pieces whose meaning is known without       *)
(* reading them.  A piece has a kind ("blank", "comment", "word",          *)
(* "string", "number", "mark", "junk"), its raw bytes, the value it stands *)
(* for, and the faults in it, <<code, offset>> pairs from left to right;   *)
(* written says that this library's generator wrote the raw bytes.         *)
(***************************************************************************)
EXTENDS StringScanner, NumberScanner, SequencesExt

CONSTANTS Texts,    \* sequences of pieces, see below
          Cuts      \* those that are also scanned cut short, at any byte

Raw(pieces) == FoldLeft(LAMBDA bs, p : bs \o p.raw, <<>>, pieces)

ASSUME TextsAssumption == \A t \in Texts : Raw(t) \in Seq(Byte)

VARIABLES text,     \* the pieces, with what they are meant to say
          allow_comments

vars == <<stream, phase, results, validate_utf8, number, text, allow_comments>>
flags == <<validate_utf8, text, allow_comments>>

Init ==
  /\ text \in Texts
  /\ \E n \in (IF text \in Cuts THEN 0..Len(Raw(text)) ELSE {Len(Raw(text))}) :
       parser_set_bytes(SubSeq(Raw(text), 1, n))
  /\ phase = "space" /\ results = <<>>
  /\ number = NoNumber
  /\ validate_utf8 \in BOOLEAN /\ allow_comments \in BOOLEAN

(* No token of a text is looked at beyond the bytes around it.             *)
Continues(to, at) ==
  /\ phase' = to /\ read' = at
  /\ UNCHANGED <<source, count, bytes, pointers, results, number, flags>>

Throwing(code, at) ==
  throw_parse_error(code, at) /\ UNCHANGED <<source, count, bytes, pointers, number, flags>>

(* mis_consume_whitespace                                                  *)
Spaces == {32, 10, 13, 9}
Slash == 47
Star == 42
Newline == 10
AtSpace == phase = "space" /\ Here \in Spaces
AtComment == phase = "space" /\ allow_comments /\ Here = Slash
AtToken == phase = "space" /\ Here \notin Spaces /\ ~(allow_comments /\ Here = Slash)

SkipSpace == AtSpace /\ Continues("space", read + 1)

(* Mutants: the star that opens a comment may also close it; the byte      *)
(* behind a star is skipped without a look; the search goes on from the    *)
(* star that was found.                                                    *)
OnTheStar == read + 1
SkipsBoth(at) == at + 2
StaysOnStar(at) == IF bytes[at + 1] = Slash THEN at + 2 ELSE at

CommentBody == read + 2
AfterStar(at) == IF bytes[at + 1] = Slash THEN at + 2 ELSE at + 1

StartComment ==
  /\ AtComment
  /\ \/ bytes[read + 1] = Star /\ Continues("block", CommentBody)
     \/ bytes[read + 1] = Slash /\ Continues("line", read + 1)
     \/ bytes[read + 1] \notin {Star, Slash} /\ Throwing("UNEXPECTED", read + 1)

(* One turn of the loop over a block comment: from one star to the next.   *)
(* A comment that is not closed ends the text.                             *)
BlockComment ==
  /\ phase = "block"
  /\ \/ FindsNone(Star) /\ Continues("done", TextEnd)
     \/ \E at \in read..count :
          /\ Finds(Star, at)
          /\ Continues(CASE bytes[at + 1] = Slash -> "space"
                         [] bytes[at + 1] # Slash /\ AfterStar(at) = count -> "done"
                         [] OTHER -> "block",
                       AfterStar(at))

LineComment ==
  /\ phase = "line"
  /\ \/ FindsNone(Newline) /\ Continues("done", TextEnd)
     \/ \E at \in read..count : Finds(Newline, at) /\ Continues("space", at)

(* parse_true, parse_false, parse_null                                     *)
Words == {<<116, 114, 117, 101>>, <<102, 97, 108, 115, 101>>, <<110, 117, 108, 108>>}

(* The NUL that ends the text matches no letter.                           *)
Matches(word, n) == \A i \in 1..n : read + i - 1 <= count /\ bytes[read + i - 1] = word[i]

Word ==
  /\ AtToken
  /\ \E word \in Words :
       /\ Matches(word, 1)
       /\ \/ /\ Matches(word, Len(word))
             /\ read' = read + Len(word) /\ Return("word", word)
          \/ \E bad \in 2..Len(word) :
               /\ Matches(word, bad - 1)
               /\ bytes[read + bad - 1] # word[bad]
               /\ throw_parse_error("UNEXPECTED", read + bad - 1)
  /\ UNCHANGED <<source, count, bytes, pointers, number, flags>>

String ==
  /\ AtToken /\ Here = Quote
  /\ read' = read + 1 /\ StringStart(read + 1)
  /\ phase' = "string"
  /\ UNCHANGED <<source, count, bytes, results, number, flags>>

Number ==
  /\ AtToken /\ (Here = Minus \/ (48 <= Here /\ Here < 48 + Ten))
  /\ parse_number
  /\ UNCHANGED flags

Marks == {44, 58, 91, 93, 123, 125}       \* , : [ ] { }
Mark ==
  /\ AtToken /\ Here \in Marks
  /\ read' = read + 1 /\ Return("mark", <<Here>>)
  /\ UNCHANGED <<source, count, bytes, pointers, number, flags>>

End == AtToken /\ read = count /\ Continues("done", read)

Firsts == {word[1] : word \in Words} \cup {Quote, Minus} \cup (48..(47 + Ten)) \cup Marks
Junk == AtToken /\ read # count /\ Here \notin Firsts /\ Throwing("UNEXPECTED", read)

Next == \/ SkipSpace \/ StartComment \/ BlockComment \/ LineComment
        \/ Word \/ String \/ Number \/ Mark \/ End \/ Junk
        \/ StringNext /\ UNCHANGED <<number, text, allow_comments>>
        \/ NumberNext /\ UNCHANGED flags

Spec == Init /\ [][Next]_vars /\ WF_vars(Next)
-----------------------------------------------------------------------------
(* What the pieces of the text say.                                        *)
Skipped(p) == p.kind = "blank" \/ (p.kind = "comment" /\ allow_comments)

(* The indices of the pieces that are tokens, from left to right.          *)
Tokens == SelectSeq([i \in 1..Len(text) |-> i], LAMBDA i : ~Skipped(text[i]))
Start(i) == Len(Raw(SubSeq(text, 1, i - 1)))
Stop(i) == Len(Raw(SubSeq(text, 1, i)))
Whole(i) == Stop(i) <= count

Faults(p) ==
  IF p.kind = "comment" THEN <<<<"UNEXPECTED", 0>>>>
  ELSE SelectSeq(p.faults, LAMBDA f : f[1] = "UTF8" => validate_utf8)

(* Whether n tokens of the text have been read, and the last of them ends  *)
(* within the text.                                                        *)
Read(n) == n \in 1..Len(results) /\ n <= Len(Tokens) /\ Whole(Tokens[n])
Piece(n) == text[Tokens[n]]

TypeOK ==
  /\ bytes \in [0..count -> Byte]
  /\ read \in 0..(count + 1)
  /\ {string, write, mark} \subseteq 0..count
  /\ phase \in {"space", "block", "line", "string", "whole", "point", "fraction", "exponent", "done"}
  /\ number.sum \in 0..(2 * LongMax + 1)
  /\ \A n \in 1..Len(results) :
       results[n].type \in {"word", "string", "integer", "real", "mark", "error"}

(* A string is rewritten over itself: what has been written never reaches  *)
(* what has not been read yet, and everything from the read position on is *)
(* still the text as it was passed in.  parse_string_in_stream copies and  *)
(* encodes into the very bytes it reads from.                              *)
UnreadIntact ==
  /\ phase = "string" => string <= write /\ write <= mark /\ mark <= read
  /\ \A i \in read..count : bytes[i] = source[i]

(* No scanner reads on behind the NUL that ends the text; only the number  *)
(* scanner, which takes a byte before it looks at it, can take the NUL     *)
(* itself, and then it fails and nothing is read any more.                 *)
ReadInside == read <= count \/ (read = count + 1 /\ phase = "done")

(* The bytes that a string result points to.                               *)
Spells(r, s) == /\ r.value[2] = Len(s)
                /\ \A k \in 1..Len(s) : bytes[r.value[1] + k - 1] = s[k]

(* Every string is returned as the bytes its escapes stand for, and stays  *)
(* so in the buffer while the rest of the text is read: the strings given  *)
(* to the callbacks, or in the results of jsnpg_parse_next, point there.   *)
StringsDecoded ==
  \A n \in 1..Len(results) :
    results[n].type = "string" =>
      Read(n) /\ Piece(n).kind = "string" /\ Spells(results[n], Piece(n).value)

(* Blanks and comments end where they end, however many follow one another *)
(* and whatever slashes and stars are in them: the next token is looked    *)
(* for at its first byte.                                                  *)
TokensFound ==
  AtToken =>
    LET n == Len(results) + 1
    IN read = IF n <= Len(Tokens) THEN Min2(Start(Tokens[n]), count) ELSE count

(* An error is reported for a faulty token only, with the code and the     *)
(* position of its first fault, and a token that is cut short is never     *)
(* taken for a whole one, unless it is a number, of which a beginning may  *)
(* be a number.  Any real may turn out to be infinite.                     *)
FaultsPlaced ==
  /\ \A n \in 1..Len(results) :
       IF Read(n)
       THEN LET faults == Faults(Piece(n))
            IN IF results[n].type # "error" THEN faults = <<>>
               ELSE \/ /\ faults # <<>>
                       /\ results[n].value = <<faults[1][1], Start(Tokens[n]) + faults[1][2]>>
                    \/ /\ faults = <<>> /\ Piece(n).kind = "number"
                       /\ results[n].value = <<"NUMBER", Stop(Tokens[n])>>
       ELSE results[n].type = "error" \/ Piece(n).kind = "number"
  /\ phase = "done" /\ (\A i \in 1..Len(text) : Whole(i)) =>
       \/ Len(results) = Len(Tokens)
       \/ results # <<>> /\ Last(results).type = "error"

(* What a number piece is worth: an integer of a sign and digits, the      *)
(* number of them behind the point, and the exponent.  plain: neither a    *)
(* point nor an exponent is written.                                       *)
Magnitude(digits) == FoldLeft(LAMBDA m, d : m * Ten + d, 0, digits)
Significant(v) == Len(v.digits)
                    - Cardinality({i \in 1..Len(v.digits) : \A j \in 1..i : v.digits[j] = 0})
Dropped(v) == IF Significant(v) > MaxSigDigits THEN Significant(v) - MaxSigDigits ELSE 0
IsLong(v) == /\ v.plain
             /\ Magnitude(v.digits) <= IF v.negative THEN LongMax + 1 ELSE LongMax

(* A number is an integer exactly when it is written as one and fits a     *)
(* long, and then it is that long; any other is handed to compute_float_64 *)
(* as its most significant digits with the power of ten that makes up for  *)
(* those left out, however its digits lie about the point.                 *)
NumbersExact ==
  \A n \in 1..Len(results) :
    Read(n) /\ Piece(n).kind = "number" /\ results[n].type # "error" =>
      LET v == Piece(n).value
          r == results[n]
      IN IF IsLong(v)
         THEN r = Value("integer", <<IF v.negative THEN -Magnitude(v.digits) ELSE Magnitude(v.digits)>>)
         ELSE /\ r.type = "real"
              /\ r.value # <<>> =>
                   r.value = <<v.negative,
                               Magnitude(SubSeq(v.digits, 1, Len(v.digits) - Dropped(v))),
                               v.exponent - v.scale + Dropped(v)>>

(* What the generator writes, the parser reads as the same value: strings  *)
(* escaped by jos_scan_escape, and integers printed by i64toa.             *)
WrittenIsRead ==
  \A n \in 1..Len(results) :
    Read(n) /\ Piece(n).written =>
      IF Piece(n).kind = "string"
      THEN results[n].type = "string" /\ Spells(results[n], Piece(n).value)
      ELSE results[n].type = "integer" /\ results[n].value = <<Piece(n).value.long>>

(* Every scan ends: none of the loops goes round without taking a byte.    *)
Progress == <>(phase = "done")

(* compute_float_64 is called with powers of its table only, as the        *)
(* comment above it asks its caller to check.                              *)
PowerInTable == AtFinish /\ Double /\ Computes => Power \in SmallestPower..LargestPower
=============================================================================
