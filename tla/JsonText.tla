------------------------------ MODULE JsonText ------------------------------
(***************************************************************************)
(* Which texts are JSON, token by token, and which events they stand for:  *)
(* the reference for both parsers.  The flags a caller may set each relax  *)
(* one rule.  Extra names further relaxations that no flag asks for; for   *)
(* the documented language it is empty.                                    *)
(***************************************************************************)
EXTENDS Tokens

CONSTANTS Size,        \* deepest nesting
          Extra        \* some of "top_comma", "lone_comma", "missing_comma"

VARIABLES allow,       \* the caller's flags
          look,        \* the next token
          open,        \* open containers
          need,        \* what may come next, see Needs
          event,       \* the last event
          result       \* "none" while parsing, then "eof" or "error"

vars == <<allow, look, open, need, event, result>>

(* "value": a value; "first": the first item of a container, or its end;   *)
(* "next": an item after a comma; "colon": after a key; "sep": what may    *)
(* follow a complete value; "lone": the end after a comma on its own.      *)
Needs == {"value", "first", "next", "colon", "sep", "lone", "nothing"}

Top == Peek(open)
Trailing == "trailing_commas" \in allow

Fresh ==
  /\ allow' \in SUBSET Flags
  /\ look' \in Lookaheads(allow')
  /\ open' = <<>> /\ need' = "value" /\ result' = "none"

Init ==
  /\ allow \in SUBSET Flags
  /\ look \in Lookaheads(allow)
  /\ open = <<>> /\ need = "value" /\ result = "none"
  /\ event = "none"

(* After an event the text goes on, or the receiver of the event stops it. *)
Emit(e, next) ==
  /\ event' = e
  /\ \/ need' = next /\ result' = "none"
     \/ need' = "nothing" /\ result' = "error"

Silent(next) == need' = next /\ UNCHANGED <<event, result>>

Take == look' \in Lookaheads(allow) /\ UNCHANGED allow

ValueDue == need = "value" \/ (need \in {"first", "next"} /\ Top # "object")
KeyDue == need \in {"first", "next"} /\ Top = "object"
EndDue == \/ need \in {"first", "sep", "lone"}
          \/ need = "next" /\ Trailing

(* Where a text may end: after a value that is in no container.            *)
Complete ==
  /\ Top = "none"
  /\ look # "badcomment"
  /\ \/ need = "sep" /\ ~(look = "comma" /\ "top_comma" \in Extra)
     \/ need = "next" /\ Trailing /\ look \in {"rbrace", "rbracket"}

CanOpen(type) == ValueDue /\ look = Opener[type] /\ Len(open) < Size
CanClose(type) == EndDue /\ look = Closer[type] /\ Top = type
CanScalar == ValueDue /\ look \in Scalars
CanKey == KeyDue /\ look = "string"
CanColon == need = "colon" /\ look = "colon"
CanComma == need = "sep" /\ look = "comma" /\ (Top # "none" \/ "top_comma" \in Extra)
CanLoneComma == need = "first" /\ look = "comma" /\ Trailing /\ "lone_comma" \in Extra
CanSkipComma == /\ need = "sep" /\ Top = "object" /\ look \notin {"comma", "rbrace", "badcomment"}
                /\ "missing_comma" \in Extra
CanAnother == Complete /\ look # "end" /\ "multiple_values" \in allow
CanAccept == Complete /\ (look = "end" \/ allow \cap {"trailing_chars", "multiple_values"}
                                             = {"trailing_chars"})

Start(type) ==
  /\ CanOpen(type) /\ Take
  /\ open' = Opened(open, type)
  /\ Emit(StartEvent[type], "first")

End(type) ==
  /\ CanClose(type) /\ Take
  /\ open' = Closed(open)
  /\ Emit(EndEvent[type], "sep")

Scalar == CanScalar /\ Take /\ UNCHANGED open /\ Emit("value", "sep")

Key == CanKey /\ Take /\ UNCHANGED open /\ Silent("colon")
Colon == CanColon /\ Take /\ UNCHANGED open /\ Emit("key", "value")
Comma == CanComma /\ Take /\ UNCHANGED open /\ Silent("next")
LoneComma == CanLoneComma /\ Take /\ UNCHANGED open /\ Silent("lone")
SkipComma == CanSkipComma /\ UNCHANGED <<allow, look, open>> /\ Silent("next")
Another == CanAnother /\ UNCHANGED <<allow, look, open>> /\ Silent("value")

Finish(r) == result' = r /\ need' = "nothing" /\ UNCHANGED <<allow, open, event>>

Accept == CanAccept /\ Finish("eof") /\ UNCHANGED look

(* A text is rejected exactly when nothing else is possible.               *)
Legal == \/ \E type \in Containers : CanOpen(type) \/ CanClose(type)
         \/ CanScalar \/ CanKey \/ CanColon \/ CanComma \/ CanLoneComma
         \/ CanSkipComma \/ CanAnother \/ CanAccept

Reject == ~Legal /\ Finish("error") /\ look' \in Lookaheads(allow)

Parsing ==
  /\ result = "none"
  /\ \/ \E type \in Containers : Start(type) \/ End(type)
     \/ Scalar \/ Key \/ Colon \/ Comma \/ LoneComma \/ SkipComma
     \/ Another \/ Accept \/ Reject

(* Asking for more after the end is an error.                              *)
PastEnd == result = "eof" /\ Finish("error") /\ look' \in Lookaheads(allow)

Again == result # "none" /\ Fresh /\ event' \in {event, "none"}

Next == Parsing \/ PastEnd \/ Again

Spec == Init /\ [][Next]_vars
=============================================================================
