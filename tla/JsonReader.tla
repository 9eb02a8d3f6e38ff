----------------------------- MODULE JsonReader -----------------------------
(***************************************************************************)
(* A reader of the text the JSON generator writes.  It follows the text    *)
(* token by token and remembers whether it has been JSON so far, and       *)
(* whether its white space was where pretty printing wants it.             *)
(***************************************************************************)
EXTENDS Nesting

(* indent is the number of spaces per level, 0 for no white space at all;  *)
(* need is what the token grammar expects: see JsonText.  Since the last   *)
(* token there was a new line, if line, and then so many spaces.           *)
NewReader(indent) ==
  [indent |-> indent, open |-> <<>>, need |-> "value", line |-> FALSE, spaces |-> 0,
   json |-> TRUE, layout |-> TRUE, started |-> FALSE]

IsOpener(kind) == kind \in {"lbrace", "lbracket"}
IsCloser(kind) == kind \in {"rbrace", "rbracket"}
TypeOf(kind) == IF kind \in {"lbrace", "rbrace"} THEN "object" ELSE "array"

(* A text may hold several values.  Between them a comma is optional,      *)
(* which is what parse.c reads.                                            *)
ValueHere(r) == \/ r.need = "value"
                \/ r.need \in {"first", "next"} /\ Peek(r.open) # "object"
                \/ r.need = "sep" /\ r.open = <<>>

TokenFits(r, kind) ==
  CASE kind = "value" \/ IsOpener(kind) -> ValueHere(r)
    [] IsCloser(kind)   -> Peek(r.open) = TypeOf(kind) /\ r.need \in {"first", "sep"}
    [] kind = "name"    -> Peek(r.open) = "object" /\ r.need \in {"first", "next"}
    [] kind = "colon"   -> r.need = "colon"
    [] kind = "comma"   -> r.need = "sep"
    [] OTHER            -> FALSE

(* A value or a key starts a line, indented by its depth, unless it is the *)
(* first of the text or follows its key; an end starts one unless its      *)
(* container is empty.                                                     *)
FollowsKey(r) == r.need = "value" /\ r.open # <<>>

StartsLine(r, kind) ==
  /\ r.indent > 0 /\ kind \notin {"comma", "colon"}
  /\ IF IsCloser(kind) THEN r.need # "first" ELSE r.started /\ ~FollowsKey(r)

Depth(r, kind) == IF IsCloser(kind) THEN Len(r.open) - 1 ELSE Len(r.open)

LaidOut(r, kind) ==
  /\ r.line <=> StartsLine(r, kind)
  /\ r.spaces = IF StartsLine(r, kind) THEN r.indent * Depth(r, kind)
                ELSE IF FollowsKey(r) /\ r.indent > 0 THEN 1 ELSE 0

(* A new line, if newline, and then n spaces.  Nothing that is not a token *)
(* may stand before a new line.                                            *)
ReadSpace(r, newline, n) ==
  [r EXCEPT !.layout = @ /\ ~(newline /\ (r.line \/ r.spaces > 0)),
            !.line = @ \/ newline,
            !.spaces = @ + n]

Read(r, kind) ==
  IF ~TokenFits(r, kind) THEN [r EXCEPT !.json = FALSE]
  ELSE [r EXCEPT
          !.layout = @ /\ LaidOut(r, kind),
          !.line = FALSE,
          !.spaces = 0,
          !.started = TRUE,
          !.open = CASE IsOpener(kind) -> Opened(@, TypeOf(kind))
                     [] IsCloser(kind) -> Closed(@)
                     [] OTHER          -> @,
          !.need = CASE IsOpener(kind)  -> "first"
                     [] kind = "name"   -> "colon"
                     [] kind = "colon"  -> "value"
                     [] kind = "comma"  -> "next"
                     [] OTHER           -> "sep"]
=============================================================================
