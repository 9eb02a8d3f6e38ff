--------------------------- MODULE BitStackProofs ---------------------------
(***************************************************************************)
(* Proofs about the bit stack, for every size and every width of a byte    *)
(* and of the offset.                                                      *)
(***************************************************************************)
EXTENDS BitStack, SequenceTheorems, TLAPS

(* The offset that push computes reaches every byte the readers use.       *)
OffsetsReach == Size <= BitsPerByte * OffsetRange

-----------------------------------------------------------------------------
(* Quotient and remainder determine the number, and bound it.              *)
LEMMA DivisionFacts ==
  ASSUME NEW n \in Nat, NEW d \in Nat \ {0}
  PROVE  /\ n \div d \in Nat
         /\ n % d \in 0..(d - 1)
         /\ n = d * (n \div d) + (n % d)
  OBVIOUS

(* Dividing is monotonic.                                                  *)
LEMMA DivisionMonotonic ==
  ASSUME NEW m \in Nat, NEW n \in Nat, NEW d \in Nat \ {0}, m <= n
  PROVE  m \div d <= n \div d
<1> DEFINE a == m \div d
           b == n \div d
<1>1. /\ a \in Nat /\ b \in Nat
      /\ d * a <= m
      /\ n < d * (b + 1)
  <2>1. m = d * a + (m % d) /\ a \in Nat /\ m % d \in 0..(d-1)  BY DivisionFacts
  <2>2. n = d * b + (n % d) /\ b \in Nat /\ n % d \in 0..(d-1)  BY DivisionFacts
  <2> QED BY <2>1, <2>2
<1> HIDE DEF a, b
<1>2. d * a < d * (b + 1)  BY <1>1
<1>3. SUFFICES ASSUME a >= b + 1 PROVE FALSE  BY <1>1 DEF a, b
<1>4. d * a >= d * (b + 1)  BY <1>1, <1>3
<1> QED BY <1>1, <1>2, <1>4

(* A quotient stays below a bound when the number stays below its multiple. *)
LEMMA DivisionBound ==
  ASSUME NEW n \in Nat, NEW d \in Nat \ {0}, NEW q \in Nat, n < d * q
  PROVE  n \div d < q
<1> DEFINE a == n \div d
<1>1. n = d * a + (n % d) /\ a \in Nat /\ n % d \in 0..(d-1)  BY DivisionFacts
<1> HIDE DEF a
<1>2. SUFFICES ASSUME a >= q PROVE FALSE  BY <1>1 DEF a
<1>3. d * a >= d * q  BY <1>1, <1>2
<1> QED BY <1>1, <1>3

-----------------------------------------------------------------------------
(* The stack never holds more than Size levels and only ever changes bytes *)
(* that belong to its Size levels, however narrow the offset is.           *)
THEOREM TypeCorrect == Spec => []TypeOK
<1> USE BitStackAssumption
<1>1. Init => TypeOK
  BY DEF Init, TypeOK
<1>2. TypeOK /\ [Next]_vars => TypeOK'
  <2> SUFFICES ASSUME TypeOK, [Next]_vars PROVE TypeOK'
    OBVIOUS
  <2>1. CASE stack_peek
    BY <2>1 DEF TypeOK, stack_peek, TypeAt
  <2>2. CASE stack_pop
    BY <2>2 DEF TypeOK, stack_pop, TypeAt
  <2>3. ASSUME NEW type \in Containers, stack_push(type) PROVE TypeOK'
    <3>1. CASE ptr >= Size
      BY <2>3, <3>1 DEF TypeOK, stack_push, Full, Written, Containers
    <3>2. CASE ptr < Size
      <4> DEFINE byte == ptr \div BitsPerByte
      <4>0. ptr \in Nat /\ ptr <= Size
        BY <3>2 DEF TypeOK
      <4>1. byte \in Nat /\ ptr % BitsPerByte \in 0..(BitsPerByte - 1)
        BY <4>0, DivisionFacts
      <4>2. byte <= LastByte /\ LastByte \in Nat
        <5>1. Size \div BitsPerByte \in Nat
          BY DivisionFacts
        <5>2. ptr \div BitsPerByte <= Size \div BitsPerByte
          BY <4>0, DivisionMonotonic
        <5> QED BY <5>1, <5>2 DEF LastByte
      <4> HIDE DEF byte
      <4>3. byte % OffsetRange \in Nat /\ byte % OffsetRange <= byte
        <5>0. byte \in Nat /\ OffsetRange \in Nat \ {0}
          BY <4>1
        <5>1. /\ byte = OffsetRange * (byte \div OffsetRange) + (byte % OffsetRange)
              /\ byte \div OffsetRange \in Nat
              /\ byte % OffsetRange \in 0..(OffsetRange - 1)
          BY ONLY <5>0, DivisionFacts
        <5>2. OffsetRange * (byte \div OffsetRange) >= 0
          BY <5>1
        <5> QED BY <5>1, <5>2, <4>1
      <4>4. WritePlace(ptr) \in Places
        BY <4>1, <4>2, <4>3 DEF WritePlace, Places, byte
      <4> QED BY <2>3, <3>2, <4>4 DEF TypeOK, stack_push, Full, Written, Containers
    <3> QED BY <3>1, <3>2 DEF TypeOK
  <2>4. CASE UNCHANGED vars
    BY <2>4 DEF TypeOK, vars
  <2> QED BY <2>1, <2>2, <2>3, <2>4 DEF Next
<1> QED BY <1>1, <1>2, PTL DEF Spec

(* A parser allocates enough bytes for every level it was asked to hold,   *)
(* and a generator does when the levels fill its bytes.                    *)
THEOREM LevelsFit ==
  ASSUME Owner = "parser" \/ Size % BitsPerByte = 0
  PROVE  Spec => []LevelsInAllocation
<1> USE BitStackAssumption
<1>1. BytesAllocated \in Nat /\ Size <= BitsPerByte * BytesAllocated
  <2>1. CASE Owner = "parser"
    <3> DEFINE n == Size + BitsPerByte - 1
               q == n \div BitsPerByte
    <3>1. n \in Nat
      OBVIOUS
    <3>2. BytesAllocated = q
      BY <2>1 DEF BytesAllocated
    <3>3. /\ q \in Nat /\ n = BitsPerByte * q + (n % BitsPerByte)
          /\ n % BitsPerByte \in 0..(BitsPerByte - 1)
      BY <3>1, DivisionFacts
    <3>4. Size <= BitsPerByte * q
      BY <3>1, <3>3
    <3> QED BY <3>2, <3>3, <3>4
  <2>2. CASE Owner = "generator" /\ Size % BitsPerByte = 0
    <3>1. BytesAllocated = Size \div BitsPerByte
      BY <2>2 DEF BytesAllocated
    <3> QED BY <2>2, <3>1, DivisionFacts
  <2> QED BY <2>1, <2>2
<1>2. TypeOK => LevelsInAllocation
  <2> SUFFICES ASSUME TypeOK, NEW sp \in 0..(ptr - 1)
               PROVE  sp \div BitsPerByte < BytesAllocated
    BY DEF LevelsInAllocation, Place
  <2>1. sp \in Nat /\ sp < Size
    BY DEF TypeOK
  <2>2. sp < BitsPerByte * BytesAllocated
    BY <1>1, <2>1
  <2> QED BY <1>1, <2>1, <2>2, DivisionBound
<1> QED BY <1>2, TypeCorrect, PTL

-----------------------------------------------------------------------------
(* Two levels share a bit only when they are the same level.               *)
LEMMA PlacesDistinct ==
  ASSUME NEW m \in Nat, NEW n \in Nat, Place(m) = Place(n)
  PROVE  m = n
<1>1. m \div BitsPerByte = n \div BitsPerByte /\ m % BitsPerByte = n % BitsPerByte
  BY DEF Place
<1>2. m = BitsPerByte * (m \div BitsPerByte) + (m % BitsPerByte)
  BY DivisionFacts, BitStackAssumption
<1>3. n = BitsPerByte * (n \div BitsPerByte) + (n % BitsPerByte)
  BY DivisionFacts, BitStackAssumption
<1> QED BY <1>1, <1>2, <1>3

(* When the offset reaches every byte, push writes where the readers look. *)
LEMMA WritesWhereRead ==
  ASSUME OffsetsReach, NEW sp \in Nat, sp < Size
  PROVE  WritePlace(sp) = Place(sp)
<1> USE BitStackAssumption
<1> DEFINE byte == sp \div BitsPerByte
<1>1. sp < BitsPerByte * OffsetRange
  BY BitStackAssumption DEF OffsetsReach
<1>2. byte \in Nat /\ byte < OffsetRange
  BY <1>1, DivisionFacts, DivisionBound
<1> HIDE DEF byte
<1>3. byte % OffsetRange = byte
  BY <1>2
<1> QED BY <1>3 DEF byte, Place, WritePlace

-----------------------------------------------------------------------------
(* The sequence of types the bits stand for.                               *)
Nest == [i \in 1..ptr |-> TypeAt(i - 1)]

LEMMA NestShape ==
  ASSUME TypeOK
  PROVE  /\ Nest \in Seq(Containers)
         /\ Len(Nest) = ptr
         /\ (Nest = <<>>) <=> (ptr = 0)
         /\ \A i \in 1..ptr : Nest[i] = TypeAt(i - 1)
<1>1. ptr \in Nat
  BY BitStackAssumption DEF TypeOK
<1>2. \A i \in 1..ptr : TypeAt(i - 1) \in Containers
  BY DEF TypeAt, Containers
<1>3. Nest \in [1..ptr -> Containers]
  BY <1>2 DEF Nest
<1>4. Nest \in Seq(Containers) /\ Len(Nest) = ptr
  BY <1>1, <1>3
<1> QED BY <1>1, <1>4 DEF Nest

(* Pushing writes the new level and leaves every level below it alone.     *)
LEMMA PushExtends ==
  ASSUME OffsetsReach, TypeOK, ptr < Size,
         NEW type \in Containers, stack_push(type)
  PROVE  Nest' = Append(Nest, type)
<1> USE BitStackAssumption
<1>1. ptr \in Nat /\ ptr' = ptr + 1
  BY DEF TypeOK, stack_push, Full, Written
<1>2. WritePlace(ptr) = Place(ptr)
  BY <1>1, WritesWhereRead
<1>3. ones' = IF type = "array" THEN ones \cup {Place(ptr)} ELSE ones \ {Place(ptr)}
  BY <1>2 DEF stack_push, Full, Written, TypeOK
<1>4. ASSUME NEW sp \in Nat PROVE TypeAt(sp)' = IF sp = ptr THEN type ELSE TypeAt(sp)
  <2>1. CASE sp = ptr
    BY <1>3, <2>1 DEF TypeAt, Containers
  <2>2. CASE sp # ptr
    <3>1. Place(sp) # Place(ptr)
      BY <1>1, <2>2, PlacesDistinct
    <3> QED BY <1>3, <2>2, <3>1 DEF TypeAt
  <2> QED BY <2>1, <2>2
<1>5. /\ Nest' \in Seq(Containers) /\ Len(Nest') = ptr + 1
      /\ \A i \in 1..(ptr + 1) : Nest'[i] = TypeAt(i - 1)'
  <2>1. Nest' = [i \in 1..(ptr + 1) |-> TypeAt(i - 1)']
    BY <1>1 DEF Nest
  <2>2. \A i \in 1..(ptr + 1) : TypeAt(i - 1)' \in Containers
    BY DEF TypeAt, Containers
  <2> QED BY <1>1, <2>1, <2>2
<1>6. /\ Append(Nest, type) \in Seq(Containers) /\ Len(Append(Nest, type)) = ptr + 1
      /\ \A i \in 1..(ptr + 1) : Append(Nest, type)[i] = IF i = ptr + 1 THEN type ELSE TypeAt(i - 1)
  BY <1>1, NestShape
<1>7. ASSUME NEW i \in 1..(ptr + 1) PROVE Nest'[i] = Append(Nest, type)[i]
  <2>1. i - 1 \in Nat /\ (i - 1 = ptr <=> i = ptr + 1)
    BY <1>1
  <2> QED BY <1>4, <1>5, <1>6, <2>1
<1> QED BY <1>5, <1>6, <1>7, SeqEqual

(* Popping drops the last level and leaves the rest.                       *)
LEMMA PopDrops ==
  ASSUME TypeOK, ptr > 0, stack_pop
  PROVE  /\ Nest' = Front(Nest)
         /\ Nest' = <<>> <=> ptr = 1
         /\ ret' = IF ptr = 1 THEN "none" ELSE Last(Nest')
<1> USE BitStackAssumption
<1>1. /\ ptr \in Nat /\ ptr' = ptr - 1 /\ ones' = ones
      /\ ret' = IF ptr = 1 THEN "none" ELSE TypeAt(ptr - 2)
  BY DEF TypeOK, stack_pop
<1>2. \A sp \in Nat : TypeAt(sp)' = TypeAt(sp)
  BY <1>1 DEF TypeAt
<1>3. /\ Nest' \in Seq(Containers) /\ Len(Nest') = ptr - 1
      /\ \A i \in 1..(ptr - 1) : Nest'[i] = TypeAt(i - 1)
  <2>1. Nest' = [i \in 1..(ptr - 1) |-> TypeAt(i - 1)']
    BY <1>1 DEF Nest
  <2>2. \A i \in 1..(ptr - 1) : i - 1 \in Nat
    BY <1>1
  <2>3. Nest' = [i \in 1..(ptr - 1) |-> TypeAt(i - 1)]
    BY <1>2, <2>1, <2>2
  <2>4. \A i \in 1..(ptr - 1) : TypeAt(i - 1) \in Containers
    BY DEF TypeAt, Containers
  <2> QED BY <1>1, <2>3, <2>4
<1>4. /\ Front(Nest) \in Seq(Containers) /\ Len(Front(Nest)) = ptr - 1
      /\ \A i \in 1..(ptr - 1) : Front(Nest)[i] = TypeAt(i - 1)
  BY <1>1, NestShape DEF Front
<1>5. Nest' = Front(Nest)
  BY <1>3, <1>4, SeqEqual
<1>6. ptr # 1 => Last(Nest') = TypeAt(ptr - 2)
  BY <1>1, <1>3 DEF Last
<1>7. Nest' = <<>> <=> ptr = 1
  BY <1>1, <1>3
<1> QED BY <1>1, <1>5, <1>6, <1>7

-----------------------------------------------------------------------------
(* When the offset reaches every byte of the stack, the bit stack behaves  *)
(* as the abstract stack of Size levels: every answer of peek, pop and     *)
(* push is the answer for the containers that are open.                    *)
THEOREM ImplementsStack == OffsetsReach => (Spec => ImplementsNestingStack)
<1> SUFFICES ASSUME OffsetsReach PROVE Spec => ImplementsNestingStack
  OBVIOUS
<1> USE BitStackAssumption
<1>1. Init => Abstract!Init
  BY DEF Init, Abstract!Init
<1>2. TypeOK /\ TypeOK' /\ [Next]_vars => [Abstract!Next]_Abstract!vars
  <2> SUFFICES ASSUME TypeOK, TypeOK', [Next]_vars
               PROVE  Abstract!Next \/ UNCHANGED Abstract!vars
    OBVIOUS
  <2>0. /\ Nest = [i \in 1..ptr |-> TypeAt(i - 1)]
        /\ Nest' = [i \in 1..ptr |-> TypeAt(i - 1)]'
    BY DEF Nest
  <2>1. CASE stack_peek
    <3>1. Nest' = Nest
      BY <2>1 DEF stack_peek, Nest, TypeAt
    <3>2. asked' = "peek" /\ ret' = IF Nest = <<>> THEN "fail" ELSE Last(Nest)
      BY <2>1, NestShape DEF stack_peek, Last, TypeOK
    <3>3. Abstract!Top
      BY <2>0, <3>1, <3>2 DEF Abstract!Top, Abstract!Peek, Abstract!Last, Last
    <3> QED BY <3>3 DEF Abstract!Next
  <2>2. CASE stack_pop /\ ptr = 0
    <3>1. Nest' = Nest /\ Nest = <<>> /\ asked' = "pop" /\ ret' = "fail"
      BY <2>2, NestShape DEF stack_pop, Nest, TypeAt
    <3>2. Abstract!Pop
      BY <2>0, <3>1 DEF Abstract!Pop
    <3> QED BY <3>2 DEF Abstract!Next
  <2>3. CASE stack_pop /\ ptr > 0
    <3>1. /\ Nest' = Front(Nest) /\ Nest # <<>>
          /\ Nest' = <<>> <=> ptr = 1
          /\ ret' = IF ptr = 1 THEN "none" ELSE Last(Nest')
      BY <2>3, PopDrops, NestShape
    <3>2. asked' = "pop"
      BY <2>3 DEF stack_pop
    <3>3. Abstract!Pop
      BY <2>0, <3>1, <3>2 DEF Abstract!Pop, Abstract!Closed, Abstract!Peek,
                              Abstract!Last, Abstract!Front, Last, Front
    <3> QED BY <3>3 DEF Abstract!Next
  <2>4. ASSUME NEW type \in Containers, stack_push(type)
        PROVE  Abstract!Next
    <3>1. CASE ptr >= Size
      <4>1. asked' = type /\ Nest' = Nest /\ ret' = "fail" /\ Len(Nest) >= Size
        BY <2>4, <3>1, NestShape DEF stack_push, Full, Written, Nest, TypeAt, TypeOK
      <4>2. Abstract!Push(type)
        BY <2>0, <4>1 DEF Abstract!Push
      <4> QED BY <4>2 DEF Abstract!Next, Abstract!Containers, Containers
    <3>2. CASE ptr < Size
      <4>1. asked' = type /\ Nest' = Append(Nest, type) /\ ret' = "ok" /\ Len(Nest) < Size
        BY <2>4, <3>2, PushExtends, NestShape DEF stack_push, Full, Written
      <4>2. Abstract!Push(type)
        BY <2>0, <4>1 DEF Abstract!Push, Abstract!Opened
      <4> QED BY <4>2 DEF Abstract!Next, Abstract!Containers, Containers
    <3> QED BY <3>1, <3>2 DEF TypeOK
  <2>5. CASE UNCHANGED vars
    BY <2>5 DEF vars, Abstract!vars, TypeAt
  <2>6. ptr = 0 \/ ptr > 0
    BY DEF TypeOK
  <2> QED BY <2>1, <2>2, <2>3, <2>4, <2>5, <2>6 DEF Next
<1> QED BY <1>1, <1>2, TypeCorrect, PTL DEF Spec, ImplementsNestingStack, Abstract!Spec
=============================================================================
