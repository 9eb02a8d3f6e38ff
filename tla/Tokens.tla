------------------------------- MODULE Tokens -------------------------------
(***************************************************************************)
(* The input as the parse loops see it: what consume_whitespace leads to.  *)
(* The content of a string, a number or a word is left out; whether its    *)
(* scanner (parse_string, parse_number, parse_true, ...) returns or throws *)
(* is kept.                                                                *)
(***************************************************************************)
EXTENDS Nesting

(* JSNPG_ALLOW_... flags that change which texts are accepted.             *)
Flags == {"comments", "trailing_commas", "trailing_chars", "multiple_values"}

Opener == [object |-> "lbrace", array |-> "lbracket"]
Closer == [object |-> "rbrace", array |-> "rbracket"]

StartEvent == [object |-> "start_object", array |-> "start_array"]
EndEvent == [object |-> "end_object", array |-> "end_array"]

Scalars == {"string", "scalar"}            \* "scalar": a number, true, false, null
BadScalars == {"badstring", "badscalar"}   \* begin like one; their scanner throws

(* "junk" is any other byte, and "badcomment" a "/" that begins no comment *)
(* where comments are allowed: consume_whitespace itself throws on it.     *)
Tokens == {"lbrace", "rbrace", "lbracket", "rbracket", "colon", "comma"}
          \cup {"junk", "badcomment", "end"} \cup Scalars \cup BadScalars

(* What may come next under the given flags.                               *)
Lookaheads(allow) ==
  IF "comments" \in allow THEN Tokens ELSE Tokens \ {"badcomment"}
=============================================================================
