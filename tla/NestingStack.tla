---------------------------- MODULE NestingStack ----------------------------
(***************************************************************************)
(* What a stack of container types promises its users: a push of a type    *)
(* onto a stack that is not full, and the answers peek and pop give about  *)
(* what was pushed.  BitStack implements it.                               *)
(***************************************************************************)
EXTENDS Nesting

CONSTANT Size          \* the largest number of containers it must hold

VARIABLES nest,        \* the open containers
          asked,       \* the last operation; of a push the type given
          ret          \* what the last operation answered

vars == <<nest, asked, ret>>

Init == nest = <<>> /\ asked = "none" /\ ret = "ok"

Push(type) ==
  /\ asked' = type
  /\ \/ /\ Len(nest) < Size
        /\ nest' = Opened(nest, type)
        /\ ret' = "ok"
     \/ /\ Len(nest) >= Size
        /\ ret' = "fail"
        /\ UNCHANGED nest

Pop ==
  /\ asked' = "pop"
  /\ \/ /\ nest # <<>>
        /\ nest' = Closed(nest)
        /\ ret' = Peek(nest')
     \/ /\ nest = <<>>
        /\ ret' = "fail"
        /\ UNCHANGED nest

Top ==
  /\ asked' = "peek"
  /\ ret' = IF nest = <<>> THEN "fail" ELSE Peek(nest)
  /\ UNCHANGED nest

Next == Top \/ Pop \/ \E type \in Containers : Push(type)

Spec == Init /\ [][Next]_vars
=============================================================================
