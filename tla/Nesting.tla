------------------------------ MODULE Nesting ------------------------------
(***************************************************************************)
(* The nesting of open JSON containers, as a sequence of container types   *)
(* with the innermost last: what the bit stack of stack.c stands for, and  *)
(* the form in which the parsers and the generator use it.                 *)
(***************************************************************************)
EXTENDS Integers, Sequences, SequencesExt

Containers == {"object", "array"}   \* STACK_OBJECT, STACK_ARRAY

(* The innermost open container; "none" (-1 from stack_peek, STACK_NONE    *)
(* from stack_pop) when there is none.                                     *)
Peek(nest) == IF nest = <<>> THEN "none" ELSE Last(nest)

Opened(nest, type) == Append(nest, type)
Closed(nest) == Front(nest)

(* Every nesting of at most n containers.                                  *)
NestingsUpTo(n) == UNION {[1..k -> Containers] : k \in 0..n}
=============================================================================
