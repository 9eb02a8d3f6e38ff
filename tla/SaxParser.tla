----------------------------- MODULE SaxParser ------------------------------
(***************************************************************************)
(* The SAX parser of parse.c: one call of jsnpg_parse_opt after another,   *)
(* each reading a text token by token and driving a generator.  An event   *)
(* is the generator's own action, with its assertions and its callback, so *)
(* this module composes the parser with the Generator module.              *)
(***************************************************************************)
EXTENDS Tokens

CONSTANTS MaxNesting,       \* opts.max_nesting of the parser
          GenSize,          \* max_nesting of the generator; 0: opts.callbacks
          ReuseOpen         \* whether a caller parses into a generator in which
                            \* a parse that failed has left something open

ASSUME SaxAssumption ==
  MaxNesting \in Nat /\ GenSize \in Nat /\ ReuseOpen \in BOOLEAN

VARIABLES
  \* the parser
  allow,        \* p->flags
  look,         \* the byte b: the token at the read position
  pc,           \* where parse_generate is
  stack_type,   \* its local copy of the innermost container
  stack,        \* p->stack
  result,       \* result.type of the last parse: "none" while it runs
  code,         \* result.error.code
  taken,        \* flips whenever a token is taken
  \* the generator
  gstack, key_next, error, event, status, returned, failed

gvars == <<gstack, key_next, error, event, status, returned, failed>>
pvars == <<allow, look, pc, stack_type, stack, result, code, taken>>
vars == <<pvars, gvars>>

Gen == INSTANCE Generator WITH stack <- gstack

Trailing == "trailing_commas" \in allow

Take == look' \in Lookaheads(allow) /\ taken' = ~taken

(* In the first call of jsnpg_parse_opt: it has reset a generator that is  *)
(* the caller's own.                                                       *)
Init ==
  /\ allow \in SUBSET Flags
  /\ look \in Lookaheads(allow)
  /\ pc = "enter" /\ stack_type = "none" /\ stack = <<>>
  /\ result = "none" /\ code = "none" /\ taken = FALSE
  /\ Gen!Init /\ (GenSize > 0 => error = "none")

(* throw_parse_error ends the parse; with make_pg_error_return a generator *)
(* that stopped it may have the last word on the code.                     *)
ThrowCode(c) ==
  /\ pc' = "idle" /\ result' = "error" /\ code' = c
  /\ UNCHANGED <<allow, look, stack_type, taken>>

Throw(c) == ThrowCode(c) /\ UNCHANGED <<stack, gvars>>

(* Mutant: a stop by the generator is reported like any other error.       *)
TerminatedUnexpected == ThrowCode("UNEXPECTED")

Terminated == ThrowCode(IF error' # "none" THEN error' ELSE "TERMINATED")

(* Hand an event to the generator, then go on at next: unless the          *)
(* generator stopped, or its assertion ended the program.                  *)
Deliver(jsnpg_event, continue) ==
  /\ jsnpg_event
  /\ \/ status' = "ready" /\ returned' /\ continue
     \/ status' = "ready" /\ ~returned' /\ Terminated
     \/ status' = "aborted" /\ pc' = "aborted"
        /\ UNCHANGED <<allow, look, stack_type, result, code, taken>>

Continue(next) == pc' = next /\ UNCHANGED <<allow, result, code>>

jsnpg_start(type) == IF type = "object" THEN Gen!jsnpg_start_object ELSE Gen!jsnpg_start_array
jsnpg_end(type) == IF type = "object" THEN Gen!jsnpg_end_object ELSE Gen!jsnpg_end_array

(* What the caller does between parses: a generator made for the callbacks *)
(* of this parse, or one of its own, which is reset: a new one, or that of *)
(* the parse before, also if that parse failed.                            *)
NewGenerator ==
  /\ gstack' = <<>> /\ key_next' = FALSE
  /\ status' = "ready" /\ returned' = TRUE /\ failed' = "none"
  /\ UNCHANGED event

jsnpg_parse_opt ==
  /\ pc = "idle" /\ status = "ready"
  /\ allow' \in SUBSET Flags
  /\ look' \in Lookaheads(allow')
  /\ pc' = "enter" /\ stack_type' = "none" /\ stack' = <<>>
  /\ result' = "none" /\ code' = "none"
  /\ UNCHANGED taken
  /\ IF GenSize = 0 THEN NewGenerator /\ error' \in {"none", "garbage"}
     ELSE \/ NewGenerator /\ error' = "none"
          \/ (gstack = <<>> \/ ReuseOpen) /\ Gen!generator_reset

-----------------------------------------------------------------------------
(* parse_generate.                                                         *)

IsCloser == look \in {"rbrace", "rbracket"}

(* After an opener: a comma on its own, and the end of an empty container, *)
(* are dealt with before the loop is entered again.                        *)
LoneComma == pc = "opened" /\ Trailing /\ look = "comma"
EmptyEnd == pc \in {"opened", "lone"} /\ look = Closer[stack_type]

(* After a comma: back to the loop, unless the comma was a trailing one.   *)
AtTop == \/ pc = "enter"
         \/ pc = "opened" /\ ~LoneComma /\ ~EmptyEnd
         \/ pc = "comma" /\ ~(Trailing /\ IsCloser)

(* Mutants of what follows: a value is looked for without asking whether a *)
(* key is due, and the flag for trailing commas is not asked for.          *)
AtAnyValue == pc = "value" \/ AtTop
AtSeparatorUnflagged == pc = "after" \/ (pc = "comma" /\ IsCloser)

AtKey == AtTop /\ stack_type = "object"
AtValue == pc = "value" \/ (AtTop /\ stack_type # "object")
AtSeparator == pc = "after" \/ (pc = "comma" /\ Trailing /\ IsCloser)

Key ==
  /\ AtKey /\ look = "string"
  /\ Take /\ Continue("colon")
  /\ UNCHANGED <<stack_type, stack, gvars>>

Colon ==
  /\ pc = "colon" /\ look = "colon"
  /\ Deliver(Gen!jsnpg_key, Take /\ Continue("value") /\ UNCHANGED stack_type)
  /\ UNCHANGED stack

ExpectedKey ==
  /\ \/ AtKey /\ look \notin {"string", "badstring", "badcomment"}
     \/ pc = "colon" /\ look \notin {"colon", "badcomment"}
  /\ Throw("EXPECTED_KEY")

Scalar ==
  /\ AtValue /\ look \in Scalars
  /\ Deliver(Gen!jsnpg_value, Take /\ Continue("after") /\ UNCHANGED stack_type)
  /\ UNCHANGED stack

(* Mutant: the bound on the nesting is off by one.                         *)
TooLate == Len(stack) > MaxNesting

Full == Len(stack) >= MaxNesting

(* parse_start_array and parse_start_object push before the event.         *)
Open(type) ==
  /\ AtValue /\ look = Opener[type]
  /\ ~Full
  /\ stack' = Opened(stack, type)
  /\ Deliver(jsnpg_start(type), Take /\ Continue("opened") /\ stack_type' = type)

TooDeep ==
  /\ AtValue /\ \E type \in Containers : look = Opener[type]
  /\ Full
  /\ Throw("STACK_OVERFLOW")

LoneCommaTaken ==
  /\ LoneComma
  /\ Take /\ Continue("lone")
  /\ UNCHANGED <<stack_type, stack, gvars>>

Comma ==
  /\ pc = "after" /\ look = "comma"
  /\ Take /\ Continue("comma")
  /\ UNCHANGED <<stack_type, stack, gvars>>

(* Mutant: the type that parse_end_array returns is not kept.              *)
TypeNotKept == stack_type

TypeAfterPop == Peek(stack')

(* parse_end_array and parse_end_object pop before the event.              *)
Close(type) ==
  /\ stack_type = type /\ look = Closer[type]
  /\ EmptyEnd \/ AtSeparator
  /\ stack' = Closed(stack)
  /\ Deliver(jsnpg_end(type), Take /\ Continue("after") /\ stack_type' = TypeAfterPop)

(* At the end of a value that is in no container parse decides whether to  *)
(* stop.                                                                   *)
(* Mutants: open containers are forgotten, and the loop is not left.       *)
AtEndAnywhere == AtSeparator /\ ~(pc = "after" /\ look = "comma") /\ look # "badcomment"
EndOfTextSpins == AtEndAnywhere /\ stack_type = "none" /\ UNCHANGED vars

AtEnd == /\ AtSeparator /\ stack_type = "none"
         /\ ~(pc = "after" /\ look = "comma") /\ look # "badcomment"

EndOfText ==
  /\ AtEnd
  /\ look = "end" \/ "multiple_values" \in allow \/ "trailing_chars" \in allow
  /\ IF look # "end" /\ "multiple_values" \in allow
     THEN pc' = "enter" /\ UNCHANGED <<result, code>>
     ELSE pc' = "idle" /\ result' = "eof" /\ UNCHANGED code
  /\ UNCHANGED <<allow, look, stack_type, stack, taken, gvars>>

Unexpected ==
  /\ \/ AtValue /\ look \notin Scalars \cup {Opener[t] : t \in Containers} \cup BadScalars
     \/ pc = "lone" /\ look # Closer[stack_type]
     \/ AtSeparator /\ ~(pc = "after" /\ look = "comma") /\ stack_type # "none"
                    /\ look # Closer[stack_type]
     \/ AtEnd /\ look # "end" /\ allow \cap {"multiple_values", "trailing_chars"} = {}
     \/ look = "badcomment"
  /\ Throw("UNEXPECTED")

(* The scanners of strings, numbers and words report their own errors.     *)
BadToken ==
  /\ (AtKey /\ look = "badstring") \/ (AtValue /\ look \in BadScalars)
  /\ Throw("BAD_TOKEN")

Step == \/ Key \/ Colon \/ ExpectedKey \/ Scalar \/ TooDeep \/ LoneCommaTaken
        \/ Comma \/ EndOfText \/ Unexpected \/ BadToken
        \/ \E type \in Containers : Open(type) \/ Close(type)

parse == pc \notin {"idle", "aborted"} /\ Step

Next == jsnpg_parse_opt \/ parse

Spec == Init /\ [][Next]_vars /\ WF_vars(parse)

-----------------------------------------------------------------------------
TypeOK ==
  /\ allow \subseteq Flags /\ look \in Lookaheads(allow)
  /\ pc \in {"idle", "enter", "opened", "lone", "colon", "value", "after", "comma", "aborted"}
  /\ stack_type \in Containers \cup {"none"}
  /\ stack \in Seq(Containers) /\ Len(stack) <= MaxNesting
  /\ result \in {"none", "eof", "error"}
  /\ code \in {"none", "EXPECTED_KEY", "UNEXPECTED", "STACK_OVERFLOW", "BAD_TOKEN",
               "TERMINATED", "utf8", "garbage"}
  /\ taken \in BOOLEAN
  /\ Gen!TypeOK

Running == pc \notin {"idle", "aborted"}

(* The local stack_type, from which every decision is taken, always names  *)
(* the container on top of the parser's stack, and the loop is only left   *)
(* for another value or the end when the stack is empty.                   *)
StackTypeAgrees == /\ Running => stack_type = Peek(stack)
                   /\ pc = "enter" => stack = <<>>

(* While a parse runs, the generator tracks what the parser tracks: the    *)
(* same containers, and a key exactly where the parser is to read one.     *)
GeneratorInStep ==
  Running /\ GenSize > 0 =>
    /\ gstack = stack
    /\ key_next <=> (stack_type = "object" /\ pc # "value")

(* The events of a parse are well formed: the assertions of the generator  *)
(* hold whenever a parser drives it, in the debug build too.               *)
NeverAborts == status # "aborted"

(* A parse that ends well has closed what it opened, in the generator too: *)
(* a caller may parse into the same generator again.                       *)
WholeTexts == pc = "idle" /\ result = "eof" =>
                /\ stack = <<>> /\ gstack = <<>> /\ ~key_next
                /\ failed = "none" /\ code = "none"

(* The codes that the parser throws on its own.                            *)
ParserCodes == {"EXPECTED_KEY", "UNEXPECTED", "STACK_OVERFLOW", "BAD_TOKEN"}

(* The code of a failed parse tells who ended it, and belongs to it: one   *)
(* of the parser if no callback has failed during this parse, the code     *)
(* that the callback left if it left one, and else TERMINATED.  An error   *)
(* from a parse before must not show through in a generator that is used   *)
(* again (error.c:107).  The generator made for opts.callbacks is the one  *)
(* exception: for a callback that left no code, it may answer with what    *)
(* its memory held (see CodesListed).                                      *)
Explained ==
  /\ failed = "none" => code \in ParserCodes
  /\ failed = "silent" => code = "TERMINATED" \/ (GenSize = 0 /\ code = "garbage")
  /\ failed = "utf8" => code = "utf8"

FailureExplained == pc = "idle" /\ result = "error" => Explained

(* What the README promises of every failed parse: its code is one of the  *)
(* jsnpg_error_code values.  make_pg_error_return hands on the error of    *)
(* the generator, which generator_new has not set.                         *)
CodesListed ==
  pc = "idle" /\ result = "error" => code \in ParserCodes \cup {"TERMINATED", "utf8"}

(* Every text is read in order, nothing is accepted that is no JSON, and   *)
(* nothing is rejected that is: parse.c implements the token grammar, but  *)
(* for a comma after a complete value (which no flag asks for) and for a   *)
(* comma on its own where trailing commas are allowed.                     *)
Need == CASE pc = "enter"  -> "value"
          [] pc = "opened" -> "first"
          [] pc = "after"  -> "sep"
          [] pc = "comma"  -> "next"
          [] pc \in {"idle", "aborted"} -> "nothing"
          [] OTHER -> pc

Text == INSTANCE JsonText WITH
          Size <- MaxNesting, Extra <- {"top_comma", "lone_comma"},
          open <- stack, need <- Need

ImplementsText == Text!Spec

(* A parse never loops without reading on: it takes the next token or it   *)
(* ends.                                                                   *)
Progress == \A t \in BOOLEAN : (Running /\ taken = t) ~> (~Running \/ taken # t)
=============================================================================
