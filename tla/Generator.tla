----------------------------- MODULE Generator ------------------------------
(***************************************************************************)
(* The generator of generate.c, in the build that keeps its assertions:    *)
(* every event is first checked against the nesting the generator tracks,  *)
(* and then handed to a callback that may fail.                            *)
(***************************************************************************)
EXTENDS Nesting

CONSTANT GenSize       \* stack.size; 0 turns all tracking off

ASSUME GenSizeAssumption == GenSize \in Nat

VARIABLES stack,       \* open containers, a bit stack in the code
          key_next,    \* in an object that is ready for a key, or its end
          error,       \* error.code
          event,       \* the last event offered
          status,      \* "ready", or "aborted" by a failed assertion
          returned,    \* what the last event function returned
          failed       \* how one of them has failed since the last reset: "none" has,
               \* "silent"ly, or with the code "utf8" left in error

vars == <<stack, key_next, error, event, status, returned, failed>>

Tracking == GenSize > 0
Top == Peek(stack)

(* generator_new leaves error as it finds it.                              *)
Init ==
  /\ stack = <<>> /\ key_next = FALSE
  /\ error \in {"none", "garbage"}
  /\ event = "none" /\ status = "ready" /\ returned = TRUE /\ failed = "none"

(* Mutants of the checks and effects below: no bound on the nesting, no    *)
(* value asked for between a key and the end of its object, a key_next     *)
(* that is not restored when a container ends, and one that is not set     *)
(* when a container starts.                                                *)
MayPushUnbounded == ~(Tracking /\ Top = "object" /\ key_next)
MayPopAfterKey(type) == Tracking => Top = type
can_pop_keeping_key(type) ==
  IF Tracking THEN stack' = Closed(stack) /\ UNCHANGED key_next
              ELSE UNCHANGED <<stack, key_next>>
can_push_keeping_key(type) ==
  IF Tracking THEN stack' = Opened(stack, type) /\ UNCHANGED key_next
              ELSE UNCHANGED <<stack, key_next>>

(* The checks.  Each holds when the C function returns true, and then has  *)
(* its effect on the stack and on key_next.                                *)
MayValue == ~(Tracking /\ Top = "object" /\ key_next)
MayKey == Tracking => key_next
MayPush == MayValue /\ (Tracking => Len(stack) < GenSize)
MayPop(type) == Tracking => /\ Top = type
                            /\ type = "object" => key_next

can_value ==
  /\ MayValue
  /\ key_next' = (key_next \/ (Tracking /\ Top = "object"))
  /\ UNCHANGED stack

can_key ==
  /\ MayKey
  /\ key_next' = FALSE
  /\ UNCHANGED stack

can_push(type) ==
  /\ MayPush
  /\ IF Tracking THEN /\ stack' = Opened(stack, type)
                      /\ key_next' = (type = "object")
                 ELSE UNCHANGED <<stack, key_next>>

can_pop(type) ==
  /\ MayPop(type)
  /\ IF Tracking THEN /\ stack' = Closed(stack)
                      /\ key_next' = (Peek(stack') = "object")
                 ELSE UNCHANGED <<stack, key_next>>

(* The callback, if there is one.  It may fail, and may say why.           *)
Callback ==
  /\ UNCHANGED status
  /\ \/ returned' = TRUE /\ UNCHANGED <<error, failed>>
     \/ returned' = FALSE /\ failed' = "silent" /\ UNCHANGED error
     \/ returned' = FALSE /\ failed' = "utf8" /\ error' = "utf8"

(* ASSERT ends the program.                                                *)
Abort == status' = "aborted" /\ UNCHANGED <<stack, key_next, error, returned, failed>>

Offer(e, may, effect) ==
  /\ status = "ready"
  /\ event' = e
  /\ IF may THEN effect /\ Callback ELSE Abort

(* null, boolean, integer, real and string differ only in their payload.   *)
jsnpg_value == Offer("value", MayValue, can_value)
jsnpg_key == Offer("key", MayKey, can_key)
jsnpg_start_array == Offer("start_array", MayPush, can_push("array"))
jsnpg_end_array == Offer("end_array", MayPop("array"), can_pop("array"))
jsnpg_start_object == Offer("start_object", MayPush, can_push("object"))
jsnpg_end_object == Offer("end_object", MayPop("object"), can_pop("object"))

(* Mutant: the error is kept as well.                                      *)
ResetKeepingError ==
  /\ status = "ready"
  /\ failed' = "none"
  /\ UNCHANGED <<stack, key_next, error, event, status, returned>>

(* A generator is reset at the start of every parse that writes to it: its *)
(* error is cleared, its stack and key_next are not.                       *)
generator_reset ==
  /\ status = "ready"
  /\ error' = "none" /\ failed' = "none"
  /\ UNCHANGED <<stack, key_next, event, status, returned>>

Offered == \/ jsnpg_value \/ jsnpg_key
           \/ jsnpg_start_array \/ jsnpg_end_array
           \/ jsnpg_start_object \/ jsnpg_end_object

Next == Offered \/ generator_reset

Spec == Init /\ [][Next]_vars

-----------------------------------------------------------------------------
TypeOK ==
  /\ stack \in Seq(Containers) /\ Len(stack) <= GenSize
  /\ key_next \in BOOLEAN
  /\ error \in {"none", "utf8", "garbage"}
  /\ event \in {"none", "value", "key", "start_array", "end_array",
                "start_object", "end_object"}
  /\ status \in {"ready", "aborted"}
  /\ returned \in BOOLEAN /\ failed \in {"none", "silent", "utf8"}

(* A key is only ever expected while the innermost container is an object. *)
(* can_key looks at key_next alone, and is right to only because of this.  *)
KeyNextInObject == Tracking /\ key_next => Top = "object"

(* The assertions of generate.c stop exactly the streams that are not      *)
(* valid JSON ("[2}" will be rejected): whatever callbacks return, the     *)
(* generator accepts an event if and only if it fits what came before.     *)
Stream == INSTANCE JsonEvents WITH
            Size <- GenSize,
            open <- stack,
            named <- Top = "object" /\ ~key_next,
            refused <- status = "aborted"

ImplementsJsonEvents == Stream!Spec
=============================================================================
