----------------------------- MODULE PullParser -----------------------------
(***************************************************************************)
(* The pull parser of parsenext.c.  A caller asks for one item at a time;  *)
(* between calls the parser keeps its state and its stack, within a call   *)
(* parse_next works on a copy of the state that also knows about commas.   *)
(***************************************************************************)
EXTENDS Tokens

CONSTANT MaxNesting    \* opts.max_nesting

ASSUME PullAssumption == MaxNesting \in Nat

VARIABLES allow,       \* p->flags
          look,        \* the byte b: the token at the read position
          pstate,      \* p->state
          state,       \* the local copy of a running call
          pc,          \* "idle", "running", "colon", "aborted"
          stack,       \* p->stack
          event,       \* the last JSON item returned
          result,      \* "none", or "eof" or "error" when the last call
                       \* returned one of these
          taken,       \* flips whenever a token is taken
          retried      \* the caller has asked again after an error

vars == <<allow, look, pstate, state, pc, stack, event, result, taken, retried>>

Trailing == "trailing_commas" \in allow

Take == look' \in Lookaheads(allow) /\ taken' = ~taken
NotTaken == UNCHANGED <<look, taken>>

Init ==
  /\ allow \in SUBSET Flags
  /\ look \in Lookaheads(allow)
  /\ pstate = "START" /\ state = "START" /\ pc = "idle" /\ stack = <<>>
  /\ event = "none" /\ result = "none" /\ taken = FALSE /\ retried = FALSE

(* throw_parse_error: the state stays what it was before the call.         *)
Throw ==
  /\ pc' = "idle" /\ result' = "error"
  /\ UNCHANGED <<allow, pstate, state, stack, event>>

Go(s) == state' = s /\ UNCHANGED <<allow, pstate, pc, stack, event, result>>

(* accept_...: the call returns an item and the parser enters state s.     *)
Return(e, s) ==
  /\ event' = e /\ pstate' = s
  /\ pc' = "idle" /\ result' = "none"
  /\ UNCHANGED <<allow, state>>

(* The caller asks for the next item, also when there was an error.        *)
jsnpg_parse_next ==
  /\ pc = "idle"
  /\ retried' = (retried \/ result = "error")
  /\ pc' = "running" /\ state' = pstate
  /\ UNCHANGED <<allow, look, pstate, stack, event, result, taken>>

-----------------------------------------------------------------------------
(* One call.                                                               *)
Calling == pc \in {"running", "colon"}

In(s) == pc = "running" /\ state = s /\ look # "badcomment"

(* Mutants of what follows: trailing commas without the flag, and the      *)
(* stack looked at before it is popped.                                    *)
AfterCommaTrailing(type) == IF type = "object" THEN "OBJECT" ELSE "ARRAY"
state_change_end_unpopped(s) ==
  CASE Peek(stack) = "object" -> "KEY_VALUE"
    [] Peek(stack) = "array"  -> "ARRAY_VALUE"
    [] OTHER                  -> "DONE"

AfterComma(type) ==
  CASE type = "object" -> IF Trailing THEN "OBJECT" ELSE "OBJECT_COMMA"
    [] type = "array"  -> IF Trailing THEN "ARRAY" ELSE "ARRAY_COMMA"

(* state_change_end, once the stack is popped.                             *)
state_change_end(s) ==
  CASE Peek(s) = "object" -> "KEY_VALUE"
    [] Peek(s) = "array"  -> "ARRAY_VALUE"
    [] OTHER              -> "DONE"

EndObject ==
  /\ In("KEY_VALUE") \/ In("OBJECT")
  /\ look = "rbrace"
  /\ Take
  /\ stack' = Closed(stack)
  /\ Return("end_object", state_change_end(stack'))

EndArray ==
  /\ In("ARRAY_VALUE") \/ In("ARRAY")
  /\ look = "rbracket"
  /\ Take
  /\ stack' = Closed(stack)
  /\ Return("end_array", state_change_end(stack'))

Comma ==
  /\ look = "comma"
  /\ \/ In("KEY_VALUE") /\ Go(AfterComma("object"))
     \/ In("ARRAY_VALUE") /\ Go(AfterComma("array"))
  /\ Take

(* Mutant: the state is not changed, and the loop goes round again.        *)
MissingCommaSpins ==
  In("KEY_VALUE") /\ look \notin {"rbrace", "comma"} /\ UNCHANGED vars

(* After a member of an object anything but "}" and "," is read as if a    *)
(* comma had been there.                                                   *)
MissingComma ==
  /\ In("KEY_VALUE") /\ look \notin {"rbrace", "comma"}
  /\ Go(AfterComma("object")) /\ NotTaken

AtKey == In("OBJECT_COMMA") \/ (In("OBJECT") /\ look # "rbrace")

Key ==
  /\ AtKey /\ look = "string"
  /\ Take
  /\ pc' = "colon"
  /\ UNCHANGED <<allow, pstate, state, stack, event, result>>

Colon ==
  /\ pc = "colon" /\ look = "colon"
  /\ Take
  /\ Return("key", "KEY") /\ UNCHANGED stack

(* After the last value of the text.                                       *)
Another ==
  /\ In("DONE") /\ look # "end" /\ "multiple_values" \in allow
  /\ Go("START") /\ NotTaken

EndOfText ==
  /\ In("DONE")
  /\ look = "end" \/ allow \cap {"trailing_chars", "multiple_values"} = {"trailing_chars"}
  /\ pstate' = "EOF" /\ pc' = "idle" /\ result' = "eof"
  /\ UNCHANGED <<allow, state, stack, event>> /\ NotTaken

AtValue == \/ In("START") \/ In("KEY") \/ In("ARRAY_COMMA")
           \/ In("ARRAY") /\ look # "rbracket"

(* Mutant: the value of a key leaves the state as it is.                   *)
state_change_value_key(s) ==
  IF s = "START" THEN "DONE" ELSE IF s = "KEY" THEN "KEY" ELSE "ARRAY_VALUE"

(* Mutant: an array that has a value already is not thought of.            *)
state_change_value_first(s) ==
  CASE s = "START" -> "DONE"
    [] s = "KEY"   -> "KEY_VALUE"
    [] s = "ARRAY" -> "ARRAY_VALUE"
    [] OTHER       -> "invalid"

(* state_change_value is given p->state, not the copy that Another changed *)
(* to START: for p->state = DONE its assertion ends the program.           *)
state_change_value(s) ==
  CASE s = "START" -> "DONE"
    [] s = "KEY"   -> "KEY_VALUE"
    [] s \in {"ARRAY", "ARRAY_VALUE"} -> "ARRAY_VALUE"
    [] OTHER       -> "invalid"

Scalar ==
  /\ AtValue /\ look \in Scalars
  /\ \/ /\ state_change_value(pstate) # "invalid"
        /\ Take
        /\ Return("value", state_change_value(pstate))
     \/ /\ state_change_value(pstate) = "invalid"
        /\ pc' = "aborted"
        /\ UNCHANGED <<allow, pstate, state, event, result>> /\ NotTaken
  /\ UNCHANGED stack

(* Mutant: the bound on the nesting is off by one.                         *)
TooLate == Len(stack) > MaxNesting

Full == Len(stack) >= MaxNesting

Open(type) ==
  /\ AtValue /\ look = Opener[type]
  /\ ~Full
  /\ Take
  /\ stack' = Opened(stack, type)
  /\ Return(StartEvent[type], IF type = "object" THEN "OBJECT" ELSE "ARRAY")

(* The token does not fit and is left where it is.                         *)
Error ==
  /\ \/ pc = "running" /\ state = "EOF" /\ look # "badcomment"
     \/ pc = "colon" /\ look \notin {"colon", "badcomment"}
     \/ AtKey /\ look \notin {"string", "badstring"}
     \/ In("ARRAY_VALUE") /\ look \notin {"rbracket", "comma"}
     \/ In("DONE") /\ look # "end"
                   /\ allow \cap {"multiple_values", "trailing_chars"} = {}
     \/ AtValue /\ look \notin Scalars \cup BadScalars \cup {Opener[t] : t \in Containers}
  /\ Throw /\ NotTaken

(* The token has been read, in part at least, when the error is found; a   *)
(* caller that asks again goes on behind it.                               *)
ErrorBehind ==
  /\ \/ Calling /\ look = "badcomment"
     \/ AtKey /\ look = "badstring"
     \/ AtValue /\ look \in BadScalars
     \/ /\ AtValue /\ \E type \in Containers : look = Opener[type]
        /\ Full
  /\ Throw /\ Take

parse_next ==
  /\ \/ EndObject \/ EndArray \/ Comma \/ MissingComma \/ Key \/ Colon
     \/ Another \/ EndOfText \/ Scalar \/ Error \/ ErrorBehind
     \/ \E type \in Containers : Open(type)
  /\ UNCHANGED retried

Next == jsnpg_parse_next \/ parse_next

Spec == Init /\ [][Next]_vars /\ WF_vars(parse_next)

-----------------------------------------------------------------------------
PStates == {"START", "OBJECT", "KEY", "KEY_VALUE", "ARRAY", "ARRAY_VALUE", "DONE", "EOF"}

TypeOK ==
  /\ allow \subseteq Flags /\ look \in Lookaheads(allow)
  /\ pstate \in PStates
  /\ state \in PStates \cup {"OBJECT_COMMA", "ARRAY_COMMA"}
  /\ pc \in {"idle", "running", "colon", "aborted"}
  /\ stack \in Seq(Containers) /\ Len(stack) <= MaxNesting
  /\ event \in {"none", "value", "key", "start_object", "start_array",
                "end_object", "end_array"}
  /\ result \in {"none", "eof", "error"}
  /\ taken \in BOOLEAN /\ retried \in BOOLEAN

(* What is kept between two calls fits together, also after an error: the  *)
(* state is one of the innermost open container, and a running call works  *)
(* on that state or on one that a comma or another value leads to.  The    *)
(* assertions of parse_end_object and parse_end_array rest on this.        *)
LocalStates(s) ==
  {s} \cup CASE s = "KEY_VALUE"   -> {"OBJECT", "OBJECT_COMMA"}
             [] s = "ARRAY_VALUE" -> {"ARRAY", "ARRAY_COMMA"}
             [] s = "DONE"        -> {"START"}
             [] OTHER             -> {}

StateFitsStack ==
  /\ pstate \in {"OBJECT", "KEY", "KEY_VALUE"} <=> Peek(stack) = "object"
  /\ pstate \in {"ARRAY", "ARRAY_VALUE"} <=> Peek(stack) = "array"
  /\ pc = "running" => state \in LocalStates(pstate)
  /\ pc = "colon" => pstate \in {"OBJECT", "KEY_VALUE"}

(* The items a caller is given are well formed events, also when it asks   *)
(* again after errors: keys and values alternate in objects, and ends      *)
(* match their starts.                                                     *)
Stream == INSTANCE JsonEvents WITH
            Size <- MaxNesting, open <- stack,
            named <- pstate = "KEY", refused <- FALSE

ReturnsJsonEvents == Stream!Spec

(* A call that is made returns, however the text goes on: it takes the     *)
(* next token, or it ends.                                                 *)
Progress == \A t \in BOOLEAN : (Calling /\ taken = t) ~> (~Calling \/ taken # t)

(* Up to the first error the items are those of the token grammar, and     *)
(* that error is returned exactly when the text leaves it: but for the     *)
(* comma between two members of an object.  What a caller is given that    *)
(* asks again is no longer about this text.                                *)
NeedIn(s) ==
  CASE s \in {"START", "KEY"} -> "value"
    [] s \in {"KEY_VALUE", "ARRAY_VALUE", "DONE", "EOF"} -> "sep"
    [] s \in {"OBJECT", "ARRAY"} -> IF s = pstate THEN "first" ELSE "next"
    [] s \in {"OBJECT_COMMA", "ARRAY_COMMA"} -> "next"

Need ==
  CASE retried -> "value"
    [] ~retried /\ result # "none" -> "nothing"
    [] ~retried /\ result = "none" /\ pc = "colon" -> "colon"
    [] OTHER -> NeedIn(IF pc = "idle" THEN pstate ELSE state)

ReadLook == IF retried THEN "end" ELSE look
ReadOpen == IF retried THEN <<>> ELSE stack
ReadEvent == IF retried THEN "none" ELSE event
ReadResult == IF retried THEN "none" ELSE result

Text == INSTANCE JsonText WITH
          Size <- MaxNesting, Extra <- {"missing_comma"}, need <- Need,
          look <- ReadLook, open <- ReadOpen, event <- ReadEvent, result <- ReadResult

ImplementsText == Text!Spec

(* The accept functions go by p->state, not by the local copy that decided *)
(* that a value may come.  For the items of arrays and the members of      *)
(* objects that is as good, with and without commas and after errors: the  *)
(* assertion of state_change_value fails for nothing but a scalar behind a *)
(* complete value, with JSNPG_ALLOW_MULTIPLE_VALUES.                       *)
OnlySecondScalarsAbort ==
  pc = "aborted" => pstate = "DONE" /\ "multiple_values" \in allow
=============================================================================
