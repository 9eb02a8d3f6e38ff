------------------------------ MODULE BitStack ------------------------------
(***************************************************************************)
(* The bit stack of stack.c: one bit per open container, packed into bytes *)
(* that lie directly behind the struct of their owner (a parser or a       *)
(* generator).  The bytes come from malloc and are not cleared.            *)
(***************************************************************************)
EXTENDS Nesting

CONSTANTS BitsPerByte,   \* 8: levels held by one byte
          OffsetRange,   \* 256: values of the byte in which push keeps the offset
          Size,          \* stack.size: levels the owner asked for
          Owner          \* whose allocation the bytes are in

ASSUME BitStackAssumption ==
  /\ BitsPerByte \in Nat \ {0}
  /\ OffsetRange \in Nat \ {0}
  /\ Size \in Nat
  /\ Owner \in {"parser", "generator"}

VARIABLES ptr,           \* stack.ptr: levels in use
          ones,          \* the <<byte, bit>> places that hold a 1
          asked,         \* the last operation; of a push the type it was given
         ret            \* what it returned

vars == <<ptr, ones, asked, ret>>

(* Mutant of BytesAllocated: the parser shifts as well.                    *)
BytesShifted == Size \div BitsPerByte

(* Bytes the owner allocates for the stack: parser_new rounds up,          *)
(* generator_new shifts.                                                   *)
BytesAllocated == IF Owner = "parser" THEN (Size + BitsPerByte - 1) \div BitsPerByte
                                      ELSE Size \div BitsPerByte

(* Where the readers look for level sp: stack[sp >> 3], bit sp & 7.        *)
Place(sp) == <<sp \div BitsPerByte, sp % BitsPerByte>>

(* Where push writes level sp: the offset is first cut down to a byte.     *)
WritePlace(sp) == <<(sp \div BitsPerByte) % OffsetRange, sp % BitsPerByte>>

LastByte == Size \div BitsPerByte
Places == (0..LastByte) \X (0..(BitsPerByte - 1))

TypeAt(sp) == IF Place(sp) \in ones THEN "array" ELSE "object"

Init == ptr = 0 /\ ones \in SUBSET Places /\ asked = "none" /\ ret = "ok"

stack_peek ==
  /\ asked' = "peek"
  /\ ret' = IF ptr = 0 THEN "fail" ELSE TypeAt(ptr - 1)
  /\ UNCHANGED <<ptr, ones>>

stack_pop ==
  /\ asked' = "pop"
  /\ \/ /\ ptr = 0
        /\ ret' = "fail"
        /\ UNCHANGED <<ptr, ones>>
     \/ /\ ptr > 0
        /\ ptr' = ptr - 1
        /\ ret' = IF ptr = 1 THEN "none" ELSE TypeAt(ptr - 2)
        /\ UNCHANGED ones

(* Mutants of the two definitions below: a bound that is off by one, and a *)
(* push that relies on the bit being clear.                                *)
FullLate == ptr > Size
WrittenNotCleared(type) == IF type = "array" THEN ones \cup {WritePlace(ptr)} ELSE ones

Full == ptr >= Size
Written(type) == IF type = "array" THEN ones \cup {WritePlace(ptr)}
                                   ELSE ones \ {WritePlace(ptr)}

stack_push(type) ==
  /\ asked' = type
  /\ \/ /\ Full
        /\ ret' = "fail"
        /\ UNCHANGED <<ptr, ones>>
     \/ /\ ~Full
        /\ ones' = Written(type)
        /\ ptr' = ptr + 1
        /\ ret' = "ok"

Next == stack_peek \/ stack_pop \/ \E type \in Containers : stack_push(type)

Spec == Init /\ [][Next]_vars

-----------------------------------------------------------------------------
TypeOK ==
  /\ ptr \in 0..Size
  /\ ones \in SUBSET Places
  /\ asked \in {"none", "peek", "pop", "object", "array"}
  /\ ret \in {"ok", "fail", "object", "array", "none"}

(* Every level in use is kept inside the bytes its owner allocated: the    *)
(* size a user asks for with max_nesting is the size that fits.            *)
LevelsInAllocation == \A sp \in 0..(ptr - 1) : Place(sp)[1] < BytesAllocated

(* The bits hold the container types in the order they were pushed, and    *)
(* each answer is about the level pushed last: the bit stack implements    *)
(* the abstract stack.                                                     *)
Abstract == INSTANCE NestingStack WITH nest <- [i \in 1..ptr |-> TypeAt(i - 1)]

ImplementsNestingStack == Abstract!Spec
=============================================================================
