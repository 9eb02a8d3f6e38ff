-------------------------- MODULE GeneratorProofs ---------------------------
(***************************************************************************)
(* Proofs about the generator, for every nesting it may be created with.   *)
(***************************************************************************)
EXTENDS Generator, SequenceTheorems, TLAPS

(* A container that is opened is the innermost one.                        *)
LEMMA OpenedFacts ==
  ASSUME NEW s \in Seq(Containers), NEW type \in Containers
  PROVE  /\ Opened(s, type) \in Seq(Containers)
         /\ Len(Opened(s, type)) = Len(s) + 1
         /\ Peek(Opened(s, type)) = type
<1>1. /\ Append(s, type) \in Seq(Containers)
      /\ Len(Append(s, type)) = Len(s) + 1
      /\ Append(s, type)[Len(s) + 1] = type
  OBVIOUS
<1>2. Append(s, type) # <<>>
  BY <1>1
<1> QED BY <1>1, <1>2 DEF Opened, Peek, Last

(* Closing needs something that is open, and leaves one level less.        *)
LEMMA ClosedFacts ==
  ASSUME NEW s \in Seq(Containers), s # <<>>
  PROVE  /\ Closed(s) \in Seq(Containers)
         /\ Len(Closed(s)) = Len(s) - 1
<1>1. PICK n \in Nat \ {0} : n = Len(s) /\ \A i \in 1..(n - 1) : s[i] \in Containers
  BY EmptySeq, LenProperties
<1>2. /\ SubSeq(s, 1, n - 1) \in Seq(Containers)
      /\ Len(SubSeq(s, 1, n - 1)) = n - 1
  BY <1>1, SubSeqProperties
<1> QED BY <1>1, <1>2 DEF Closed, Front

(* The innermost container is an answer only when there is one.            *)
LEMMA PeekFacts ==
  ASSUME NEW s \in Seq(Containers)
  PROVE  /\ Peek(s) \in Containers \cup {"none"}
         /\ Peek(s) \in Containers => s # <<>>
<1>1. CASE s = <<>>
  BY <1>1 DEF Peek, Containers
<1>2. CASE s # <<>>
  BY <1>2 DEF Peek, Last
<1> QED BY <1>1, <1>2

-----------------------------------------------------------------------------

(* Whatever is asked of the generator, its stack holds container types and *)
(* never more of them than it was created for.                             *)
THEOREM TypeCorrect == Spec => []TypeOK
<1> USE GenSizeAssumption
<1>1. Init => TypeOK
  <2>1. Init => stack \in Seq(Containers) /\ Len(stack) <= GenSize
    BY EmptySeq DEF Init
  <2>2. TRUE \in BOOLEAN /\ FALSE \in BOOLEAN
    OBVIOUS
  <2> QED BY <2>1, <2>2 DEF Init, TypeOK
<1>2. TypeOK /\ [Next]_vars => TypeOK'
  <2> SUFFICES ASSUME TypeOK, [Next]_vars PROVE TypeOK'
    OBVIOUS
  <2>0. stack \in Seq(Containers) /\ Len(stack) \in Nat
    BY DEF TypeOK
  <2>1. ASSUME can_value \/ can_key
        PROVE  stack' = stack /\ key_next' \in BOOLEAN
    BY <2>1 DEF can_value, can_key, TypeOK
  <2>2. ASSUME NEW type \in Containers, can_push(type)
        PROVE  stack' \in Seq(Containers) /\ Len(stack') <= GenSize /\ key_next' \in BOOLEAN
    <3>1. CASE Tracking
      BY <2>0, <2>2, <3>1, OpenedFacts DEF can_push, MayPush, TypeOK
    <3>2. CASE ~Tracking
      BY <2>2, <3>2 DEF can_push, TypeOK
    <3> QED BY <3>1, <3>2
  <2>3. ASSUME NEW type \in Containers, can_pop(type)
        PROVE  stack' \in Seq(Containers) /\ Len(stack') <= GenSize /\ key_next' \in BOOLEAN
    <3>1. CASE Tracking
      <4>1. stack # <<>>
        BY <2>0, <2>3, <3>1, PeekFacts DEF can_pop, MayPop, Top
      <4> QED BY <2>0, <2>3, <3>1, <4>1, ClosedFacts DEF can_pop, TypeOK
    <3>2. CASE ~Tracking
      BY <2>3, <3>2 DEF can_pop, TypeOK
    <3> QED BY <3>1, <3>2
  <2>4. Callback \/ Abort => /\ error' \in {"none", "utf8", "garbage"}
                             /\ status' \in {"ready", "aborted"}
                             /\ returned' \in BOOLEAN /\ failed' \in {"none", "silent", "utf8"}
    BY DEF Callback, Abort, TypeOK
  <2>5. CASE jsnpg_value
    BY <2>1, <2>4, <2>5 DEF jsnpg_value, Offer, TypeOK, Abort
  <2>6. CASE jsnpg_key
    BY <2>1, <2>4, <2>6 DEF jsnpg_key, Offer, TypeOK, Abort
  <2>7. CASE jsnpg_start_array
    BY <2>2, <2>4, <2>7 DEF jsnpg_start_array, Offer, TypeOK, Abort, Containers
  <2>8. CASE jsnpg_end_array
    BY <2>3, <2>4, <2>8 DEF jsnpg_end_array, Offer, TypeOK, Abort, Containers
  <2>9. CASE jsnpg_start_object
    BY <2>2, <2>4, <2>9 DEF jsnpg_start_object, Offer, TypeOK, Abort, Containers
  <2>10. CASE jsnpg_end_object
    BY <2>3, <2>4, <2>10 DEF jsnpg_end_object, Offer, TypeOK, Abort, Containers
  <2>11. CASE generator_reset
    BY <2>11 DEF generator_reset, TypeOK
  <2>12. CASE UNCHANGED vars
    BY <2>12 DEF vars, TypeOK
  <2> QED BY <2>5, <2>6, <2>7, <2>8, <2>9, <2>10, <2>11, <2>12 DEF Next, Offered
<1> QED BY <1>1, <1>2, PTL DEF Spec

-----------------------------------------------------------------------------
(* The generator expects a key only while it is in an object; can_key      *)
(* does not look at the stack, and this is why it need not.                *)
THEOREM KeysOnlyInObjects == Spec => []KeyNextInObject
<1> USE GenSizeAssumption
<1>1. Init => KeyNextInObject
  BY DEF Init, KeyNextInObject
<1>2. TypeOK /\ KeyNextInObject /\ [Next]_vars => KeyNextInObject'
  <2> SUFFICES ASSUME TypeOK, KeyNextInObject, [Next]_vars, Tracking, key_next'
               PROVE  Peek(stack') = "object"
    BY DEF KeyNextInObject, Top, Tracking
  <2>0. key_next => Peek(stack) = "object"
    BY DEF KeyNextInObject, Top
  <2>1. ASSUME can_value PROVE Peek(stack') = "object"
    BY <2>0, <2>1 DEF can_value, Top, TypeOK
  <2>2. ASSUME can_key PROVE FALSE
    BY <2>2 DEF can_key
  <2>3. ASSUME NEW type \in Containers, can_push(type) PROVE Peek(stack') = "object"
    BY <2>3, OpenedFacts DEF can_push, TypeOK
  <2>4. ASSUME NEW type \in Containers, can_pop(type) PROVE Peek(stack') = "object"
    BY <2>4 DEF can_pop
  <2>5. ASSUME UNCHANGED <<stack, key_next>> PROVE Peek(stack') = "object"
    BY <2>0, <2>5
  <2>6. CASE jsnpg_value
    BY <2>1, <2>5, <2>6 DEF jsnpg_value, Offer, Abort
  <2>7. CASE jsnpg_key
    BY <2>2, <2>5, <2>7 DEF jsnpg_key, Offer, Abort
  <2>8. CASE jsnpg_start_array
    BY <2>3, <2>5, <2>8 DEF jsnpg_start_array, Offer, Abort, Containers
  <2>9. CASE jsnpg_end_array
    BY <2>4, <2>5, <2>9 DEF jsnpg_end_array, Offer, Abort, Containers
  <2>10. CASE jsnpg_start_object
    BY <2>3, <2>5, <2>10 DEF jsnpg_start_object, Offer, Abort, Containers
  <2>11. CASE jsnpg_end_object
    BY <2>4, <2>5, <2>11 DEF jsnpg_end_object, Offer, Abort, Containers
  <2>12. CASE generator_reset
    BY <2>5, <2>12 DEF generator_reset
  <2>13. CASE UNCHANGED vars
    BY <2>5, <2>13 DEF vars
  <2> QED BY <2>6, <2>7, <2>8, <2>9, <2>10, <2>11, <2>12, <2>13 DEF Next, Offered
<1> QED BY <1>1, <1>2, TypeCorrect, PTL DEF Spec

-----------------------------------------------------------------------------
(* The event kinds of the stream.                                          *)
LEMMA EventKinds ==
  /\ DOMAIN Stream!Starts = {"start_object", "start_array"}
  /\ DOMAIN Stream!Ends = {"end_object", "end_array"}
  /\ Stream!Starts["start_object"] = "object" /\ Stream!Starts["start_array"] = "array"
  /\ Stream!Ends["end_object"] = "object" /\ Stream!Ends["end_array"] = "array"
  /\ Stream!Events = {"value", "key", "start_object", "start_array",
                      "end_object", "end_array"}
  BY DEF Stream!Starts, Stream!Ends, Stream!Events

(* The checks of the generator say what fits.                              *)
LEMMA ChecksAreFits ==
  ASSUME Tracking, TypeOK, KeyNextInObject
  PROVE  /\ Stream!Fits("value") <=> MayValue
         /\ Stream!Fits("key") <=> MayKey
         /\ Stream!Fits("start_array") <=> MayPush
         /\ Stream!Fits("start_object") <=> MayPush
         /\ Stream!Fits("end_array") <=> MayPop("array")
         /\ Stream!Fits("end_object") <=> MayPop("object")
<1>1. /\ Stream!Peek(stack) = Peek(stack)
      /\ Top # "object" => ~key_next
      /\ key_next \in BOOLEAN
  BY DEF Top, Peek, Stream!Peek, Last, Stream!Last, TypeOK, KeyNextInObject
<1>2. Stream!ValueFits <=> MayValue
  BY <1>1 DEF Stream!ValueFits, Stream!InObject, MayValue, Top
<1>3. Stream!Fits("value") <=> MayValue
  BY <1>2, EventKinds DEF Stream!Fits
<1>4. Stream!Fits("key") <=> MayKey
  BY <1>1, EventKinds DEF Stream!Fits, Stream!InObject, MayKey, Top
<1>5. /\ Stream!Fits("start_array") <=> MayPush
      /\ Stream!Fits("start_object") <=> MayPush
  BY <1>2, EventKinds DEF Stream!Fits, MayPush
<1>6. /\ Stream!Fits("end_array") <=> MayPop("array")
      /\ Stream!Fits("end_object") <=> MayPop("object")
  BY <1>1, EventKinds DEF Stream!Fits, MayPop, Top
<1> QED BY <1>3, <1>4, <1>5, <1>6

(* An event that fits is accepted, one that does not is refused.           *)
LEMMA OfferIsStreamStep ==
  ASSUME Tracking, NEW e \in Stream!Events, NEW may \in BOOLEAN, NEW effect,
         Offer(e, may, effect),
         may <=> Stream!Fits(e),
         may => /\ (Top = "object" /\ ~key_next)' = (e = "key")
                /\ stack' = CASE e \in DOMAIN Stream!Starts -> Append(stack, Stream!Starts[e])
                              [] e \in DOMAIN Stream!Ends   -> Front(stack)
                              [] OTHER                      -> stack
  PROVE  Stream!Next
<1>1. event' = e /\ status = "ready"
  BY DEF Offer
<1>2. CASE may
  <2>1. status' = status
    BY <1>2 DEF Offer, Callback
  <2>2. Stream!Accept(e)
    BY <1>2, <2>1 DEF Stream!Accept, Stream!Opened, Stream!Closed, Front, Stream!Front
  <2> QED BY <1>1, <2>2 DEF Stream!Next
<1>3. CASE ~may
  <2>1. status' = "aborted" /\ UNCHANGED <<stack, key_next>>
    BY <1>3 DEF Offer, Abort
  <2>2. Stream!Refuse(e)
    BY <1>1, <1>3, <2>1 DEF Stream!Refuse, Top
  <2> QED BY <1>1, <2>2 DEF Stream!Next
<1> QED BY <1>2, <1>3

(* A generator that tracks nesting accepts an event exactly when the event *)
(* fits what came before, whatever the callbacks return and however often  *)
(* the generator is reset.                                                 *)
THEOREM AcceptsJsonEvents == Tracking => (Spec => ImplementsJsonEvents)
<1> SUFFICES ASSUME Tracking PROVE Spec => ImplementsJsonEvents
  BY DEF Tracking
<1> USE GenSizeAssumption
<1>1. Init => Stream!Init
  BY DEF Init, Stream!Init, Top, Peek
<1>2. TypeOK /\ KeyNextInObject /\ KeyNextInObject' /\ [Next]_vars
      => [Stream!Next]_Stream!vars
  <2> SUFFICES ASSUME TypeOK, KeyNextInObject, KeyNextInObject', [Next]_vars
               PROVE  Stream!Next \/ UNCHANGED Stream!vars
    OBVIOUS
  <2>1. /\ Top = Peek(stack) /\ Top' = Peek(stack')
        /\ Top # "object" => ~key_next
        /\ stack \in Seq(Containers) /\ key_next \in BOOLEAN
    BY DEF Top, TypeOK, KeyNextInObject, Tracking
  <2>2. CASE jsnpg_value
    <3>1. MayValue /\ can_value => stack' = stack /\ ~(Top = "object" /\ ~key_next)'
      BY <2>1 DEF can_value, Tracking
    <3> QED BY <2>2, <3>1, EventKinds, ChecksAreFits, OfferIsStreamStep DEF jsnpg_value, Offer
  <2>3. CASE jsnpg_key
    <3>1. MayKey /\ can_key => stack' = stack /\ (Top = "object" /\ ~key_next)'
      BY <2>1 DEF can_key, MayKey
    <3> QED BY <2>3, <3>1, EventKinds, ChecksAreFits, OfferIsStreamStep DEF jsnpg_key, Offer
  <2>4. ASSUME NEW type \in Containers, can_push(type)
        PROVE  stack' = Append(stack, type) /\ ~(Top = "object" /\ ~key_next)'
    BY <2>1, <2>4, OpenedFacts DEF can_push, Opened
  <2>5. ASSUME NEW type \in Containers, can_pop(type)
        PROVE  stack' = Front(stack) /\ ~(Top = "object" /\ ~key_next)'
    BY <2>1, <2>5 DEF can_pop, Closed
  <2>6. CASE jsnpg_start_array
    <3>1. MayPush /\ can_push("array")
          => stack' = Append(stack, "array") /\ ~(Top = "object" /\ ~key_next)'
      BY <2>4 DEF Containers
    <3> QED BY <2>6, <3>1, EventKinds, ChecksAreFits, OfferIsStreamStep
            DEF jsnpg_start_array, Offer
  <2>7. CASE jsnpg_start_object
    <3>1. MayPush /\ can_push("object")
          => stack' = Append(stack, "object") /\ ~(Top = "object" /\ ~key_next)'
      BY <2>4 DEF Containers
    <3> QED BY <2>7, <3>1, EventKinds, ChecksAreFits, OfferIsStreamStep
            DEF jsnpg_start_object, Offer
  <2>8. CASE jsnpg_end_array
    <3>1. MayPop("array") /\ can_pop("array")
          => stack' = Front(stack) /\ ~(Top = "object" /\ ~key_next)'
      BY <2>5 DEF Containers
    <3> QED BY <2>8, <3>1, EventKinds, ChecksAreFits, OfferIsStreamStep
            DEF jsnpg_end_array, Offer
  <2>9. CASE jsnpg_end_object
    <3>1. MayPop("object") /\ can_pop("object")
          => stack' = Front(stack) /\ ~(Top = "object" /\ ~key_next)'
      BY <2>5 DEF Containers
    <3> QED BY <2>9, <3>1, EventKinds, ChecksAreFits, OfferIsStreamStep
            DEF jsnpg_end_object, Offer
  <2>10. CASE generator_reset
    BY <2>10 DEF generator_reset, Stream!vars, Top
  <2>11. CASE UNCHANGED vars
    BY <2>11 DEF vars, Stream!vars, Top
  <2> QED BY <2>2, <2>3, <2>6, <2>7, <2>8, <2>9, <2>10, <2>11 DEF Next, Offered
<1> QED BY <1>1, <1>2, TypeCorrect, KeysOnlyInObjects, PTL
        DEF Spec, ImplementsJsonEvents, Stream!Spec
=============================================================================
