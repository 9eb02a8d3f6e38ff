----------------------------- MODULE JsonEvents -----------------------------
(***************************************************************************)
(* What a stream of JSON events must look like: keys and values alternate  *)
(* in an object, and an end event closes the innermost open container.     *)
(* An event that does not fit is refused, and nothing follows a refusal.   *)
(* The generator accepts this language, and the parsers produce it.        *)
(***************************************************************************)
EXTENDS Nesting

CONSTANT Size          \* the deepest nesting that is supported

VARIABLES open,        \* the open containers
          named,       \* a key has been given and waits for its value
          event,       \* the last event offered
          refused      \* it did not fit

vars == <<open, named, event, refused>>

Starts == [start_object |-> "object", start_array |-> "array"]
Ends == [end_object |-> "object", end_array |-> "array"]
Events == {"value", "key"} \cup DOMAIN Starts \cup DOMAIN Ends

InObject == Peek(open) = "object"

(* Where a value may stand: anywhere but at the place of a key.            *)
ValueFits == InObject => named

Fits(e) ==
  CASE e = "value"         -> ValueFits
    [] e = "key"           -> InObject /\ ~named
    [] e \in DOMAIN Starts -> ValueFits /\ Len(open) < Size
    [] e \in DOMAIN Ends   -> Peek(open) = Ends[e] /\ ~named

Init == open = <<>> /\ named = FALSE /\ event = "none" /\ refused = FALSE

Accept(e) ==
  /\ Fits(e)
  /\ named' = (e = "key")
  /\ open' = CASE e \in DOMAIN Starts -> Opened(open, Starts[e])
               [] e \in DOMAIN Ends   -> Closed(open)
               [] OTHER               -> open
  /\ UNCHANGED refused

Refuse(e) ==
  /\ ~Fits(e)
  /\ refused' = TRUE
  /\ UNCHANGED <<open, named>>

Next == /\ ~refused
        /\ \E e \in Events : event' = e /\ (Accept(e) \/ Refuse(e))

Spec == Init /\ [][Next]_vars
=============================================================================
