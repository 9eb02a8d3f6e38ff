----------------------------- MODULE JsonOutput -----------------------------
(***************************************************************************)
(* The JSON generator of output.c: the print_... callbacks behind the      *)
(* generator, with the state from which they decide on commas, lines and   *)
(* indents.  Every byte is put into a buffer that may fail to grow, so a   *)
(* call may stop anywhere in its text; a caller is told that it need not   *)
(* look at the result of each call.                                        *)
(***************************************************************************)
EXTENDS JsonReader

CONSTANTS GenSize,     \* max_nesting of the generator
          Indents,     \* opts.indent of the generators, capped at 8
          LevelRange   \* 2^32: values of the unsigned level

ASSUME JsonOutputAssumption ==
  GenSize \in Nat /\ Indents \subseteq 0..8 /\ LevelRange \in Nat \ {0}

VARIABLES
  jos,          \* json_output_stream: indent, comma, key, level, nl
  text,         \* a reader of what has been put into the buffer
  cut,          \* a call has failed: the text has a hole
  \* the generator
  stack, key_next, error, event, status, returned, failed

gvars == <<stack, key_next, error, event, status, returned, failed>>
vars == <<jos, text, cut, gvars>>

Gen == INSTANCE Generator

Init ==
  /\ \E indent \in Indents :
       /\ jos = [indent |-> indent, comma |-> FALSE, key |-> FALSE, level |-> 0, nl |-> FALSE]
       /\ text = NewReader(indent)
  /\ cut = FALSE
  /\ Gen!Init

-----------------------------------------------------------------------------
(* Mutants: jos_prefix leaves key set, and jos_prefix_end does not change  *)
(* the level.                                                              *)
PrefixedKeepingKey(j) == [j EXCEPT !.comma = TRUE, !.nl = @ \/ (j.indent > 0 /\ ~j.key)]
EndingLate(j) == [j EXCEPT !.comma = FALSE]

(* jos_prefix: a reader of what comes before a value or a key, and jos     *)
(* afterwards.                                                             *)
Prefix(j, r) ==
  LET listed == IF j.comma THEN Read(r, "comma") ELSE r
  IN IF j.key THEN r
     ELSE IF j.indent > 0 THEN ReadSpace(listed, j.nl, j.indent * j.level)
     ELSE listed

Prefixed(j) == [j EXCEPT !.comma = TRUE, !.key = FALSE, !.nl = @ \/ (j.indent > 0 /\ ~j.key)]

(* What jos_prefix may leave when the buffer fails to grow: for a comma or *)
(* a new line, or for the spaces of an indent.                             *)
PrefixFailures(j) ==
  IF j.key THEN {}
  ELSE (IF j.comma \/ (j.indent > 0 /\ j.nl) THEN {j} ELSE {})
       \cup (IF j.indent > 0 /\ j.level > 0 THEN {[j EXCEPT !.nl = TRUE]} ELSE {})

(* jos_prefix_start, once jos_prefix has succeeded.                        *)
Started(j) == [j EXCEPT !.comma = FALSE, !.level = (@ + 1) % LevelRange]

(* jos_prefix_end: before its prefix, which it writes only if something    *)
(* was written since the start, and after it.                              *)
Ending(j) == [j EXCEPT !.comma = FALSE, !.level = (@ - 1) % LevelRange]
Ended(j) == [j EXCEPT !.comma = j.level > 0]

(* A callback puts its prefix and then a body, and then written is what    *)
(* has been read of the text; jos is one of failures if the prefix cannot  *)
(* be written, between if the body cannot, and after when all is done.     *)
(* Only the scan of a string can fail for another reason than memory, and  *)
(* only then is the generator told.                                        *)
Written(failures, between, written, after) ==
  \/ /\ returned'
     /\ jos' = after
     /\ text' = IF cut THEN text ELSE written
     /\ UNCHANGED cut
  \/ /\ ~returned'
     /\ \/ jos' \in failures /\ error' = error
        \/ jos' = between /\ (event' \in {"value", "key"} \/ error' = error)
     /\ cut' = TRUE
     /\ UNCHANGED text

print_value ==
  Written(PrefixFailures(jos), Prefixed(jos), Read(Prefix(jos, text), "value"), Prefixed(jos))

print_key ==
  LET named == Read(Read(Prefix(jos, text), "name"), "colon")
  IN Written(PrefixFailures(jos), Prefixed(jos),
             ReadSpace(named, FALSE, IF jos.indent > 0 THEN 1 ELSE 0),
             [Prefixed(jos) EXCEPT !.key = TRUE])

print_start(bracket) ==
  LET started == Started(Prefixed(jos))
  IN Written(PrefixFailures(jos), started, Read(Prefix(jos, text), bracket), started)

print_end(bracket) ==
  LET ending == Ending(jos)
      ended == Ended(IF jos.comma THEN Prefixed(ending) ELSE ending)
  IN Written(IF jos.comma THEN PrefixFailures(ending) ELSE {}, ended,
             Read(IF jos.comma THEN Prefix(ending, text) ELSE text, bracket), ended)

(* An event passes the checks of the generator and is printed.             *)
Event(jsnpg_event, print) ==
  /\ jsnpg_event
  /\ IF status' = "aborted" THEN UNCHANGED <<jos, text, cut>> ELSE print

Events == \/ Event(Gen!jsnpg_value, print_value)
          \/ Event(Gen!jsnpg_key, print_key)
          \/ Event(Gen!jsnpg_start_object, print_start("lbrace"))
          \/ Event(Gen!jsnpg_start_array, print_start("lbracket"))
          \/ Event(Gen!jsnpg_end_object, print_end("rbrace"))
          \/ Event(Gen!jsnpg_end_array, print_end("rbracket"))

(* A new parse into the same generator goes on with the same text.         *)
generator_reset == Gen!generator_reset /\ UNCHANGED <<jos, text, cut>>

Next == Events \/ generator_reset

Spec == Init /\ [][Next]_vars

-----------------------------------------------------------------------------
TypeOK ==
  /\ jos \in [indent : Indents, comma : BOOLEAN, key : BOOLEAN,
              level : 0..(LevelRange - 1), nl : BOOLEAN]
  /\ text.open \in Seq(Containers)
  /\ cut \in BOOLEAN
  /\ Gen!TypeOK

(* As long as every call succeeded the text is JSON, and what is open in   *)
(* it is what the caller has opened: no comma is missing or one too many,  *)
(* whatever came before.                                                   *)
OutputIsJson == ~cut => text.json /\ text.open = stack

(* And it is laid out as the indent asks for; without one there is no      *)
(* white space in it.                                                      *)
OutputIsLaidOut == ~cut => text.layout
=============================================================================
