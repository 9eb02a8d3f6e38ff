-------------------------- MODULE PullParserProofs --------------------------
(***************************************************************************)
(* Proofs about the pull parser, for every nesting it may be created with  *)
(* and for callers that ask again after any error.                         *)
(***************************************************************************)
EXTENDS PullParser, SequenceTheorems, TLAPS

(* A container that is opened is the innermost one.                        *)
LEMMA OpenedFacts ==
  ASSUME NEW s \in Seq(Containers), NEW type \in Containers
  PROVE  /\ Opened(s, type) \in Seq(Containers)
         /\ Len(Opened(s, type)) = Len(s) + 1
         /\ Peek(Opened(s, type)) = type
<1>1. /\ Append(s, type) \in Seq(Containers)
      /\ Len(Append(s, type)) = Len(s) + 1
      /\ Append(s, type)[Len(s) + 1] = type
  OBVIOUS
<1>2. Append(s, type) # <<>>
  BY <1>1
<1> QED BY <1>1, <1>2 DEF Opened, Peek, Last

(* Closing needs something that is open, and leaves one level less.        *)
LEMMA ClosedFacts ==
  ASSUME NEW s \in Seq(Containers), s # <<>>
  PROVE  /\ Closed(s) \in Seq(Containers)
         /\ Len(Closed(s)) = Len(s) - 1
<1>1. PICK n \in Nat \ {0} : n = Len(s) /\ \A i \in 1..(n - 1) : s[i] \in Containers
  BY EmptySeq, LenProperties
<1>2. /\ SubSeq(s, 1, n - 1) \in Seq(Containers)
      /\ Len(SubSeq(s, 1, n - 1)) = n - 1
  BY <1>1, SubSeqProperties
<1> QED BY <1>1, <1>2 DEF Closed, Front

(* The innermost container is an answer only when there is one.            *)
LEMMA PeekFacts ==
  ASSUME NEW s \in Seq(Containers)
  PROVE  /\ Peek(s) \in Containers \cup {"none"}
         /\ Peek(s) \in Containers => s # <<>>
<1>1. CASE s = <<>>
  BY <1>1 DEF Peek, Containers
<1>2. CASE s # <<>>
  BY <1>2 DEF Peek, Last
<1> QED BY <1>1, <1>2

-----------------------------------------------------------------------------

(* The two invariants support each other: the stack is only popped when    *)
(* the state says that something is open.                                  *)
Inv == TypeOK /\ StateFitsStack

-----------------------------------------------------------------------------
(* Taking a token leaves one that the flags admit.                         *)
LEMMA TakeFacts ==
  ASSUME TypeOK, UNCHANGED allow, Take \/ NotTaken
  PROVE  /\ allow' \subseteq Flags
         /\ look' \in Lookaheads(allow')
         /\ taken' \in BOOLEAN
<1>1. CASE Take
  BY <1>1 DEF TypeOK, Take
<1>2. CASE NotTaken
  BY <1>2 DEF TypeOK, NotTaken
<1> QED BY <1>1, <1>2

(* In a running call the local state tells what is innermost.              *)
LEMMA LocalStateFacts ==
  ASSUME Inv, pc = "running"
  PROVE  /\ state \in {"KEY_VALUE", "OBJECT", "OBJECT_COMMA"}
              => pstate \in {"KEY_VALUE", "OBJECT"} /\ Peek(stack) = "object"
         /\ state = "KEY_VALUE" => pstate = "KEY_VALUE"
         /\ state \in {"ARRAY_VALUE", "ARRAY", "ARRAY_COMMA"}
              => pstate \in {"ARRAY_VALUE", "ARRAY"} /\ Peek(stack) = "array"
         /\ state = "ARRAY_VALUE" => pstate = "ARRAY_VALUE"
         /\ state = "KEY" => pstate = "KEY" /\ Peek(stack) = "object"
         /\ state = "START" => pstate \in {"START", "DONE"}
         /\ state = "DONE" => pstate = "DONE"
BY DEF Inv, TypeOK, StateFitsStack, LocalStates, PStates

(* Where a value may stand, and what follows it.                           *)
LEMMA AtValueFacts ==
  ASSUME Inv, AtValue
  PROVE  /\ pc = "running"
         /\ pstate \in {"START", "DONE", "KEY", "ARRAY", "ARRAY_VALUE"}
         /\ Peek(stack) = "object" => pstate = "KEY"
BY LocalStateFacts, PeekFacts DEF AtValue, In, Inv, TypeOK, StateFitsStack

-----------------------------------------------------------------------------
(* A step that leaves state and stack as they were between two calls.      *)
LEMMA KeepsPlace ==
  ASSUME Inv, UNCHANGED <<allow, pstate, stack, event>>, Take \/ NotTaken,
         state' \in PStates \cup {"OBJECT_COMMA", "ARRAY_COMMA"},
         pc' \in {"idle", "running", "colon", "aborted"},
         pc' = "running" => state' \in LocalStates(pstate),
         pc' = "colon" => pstate \in {"OBJECT", "KEY_VALUE"},
         result' \in {"none", "eof", "error"}, retried' \in BOOLEAN
  PROVE  Inv'
<1>1. UNCHANGED allow
  OBVIOUS
<1>2. TypeOK'
  BY <1>1, TakeFacts DEF Inv, TypeOK
<1>3. StateFitsStack'
  BY DEF Inv, StateFitsStack, LocalStates
<1> QED BY <1>2, <1>3 DEF Inv

(* A call that returns an item in the state s fits when s fits.            *)
LEMMA Returns ==
  ASSUME Inv, NEW e, NEW s, Return(e, s), Take,
         e \in {"value", "key", "start_object", "start_array",
                "end_object", "end_array"},
         s \in PStates,
         stack' \in Seq(Containers), Len(stack') <= MaxNesting,
         s \in {"OBJECT", "KEY", "KEY_VALUE"} <=> Peek(stack') = "object",
         s \in {"ARRAY", "ARRAY_VALUE"} <=> Peek(stack') = "array",
         UNCHANGED retried
  PROVE  Inv'
<1>1. UNCHANGED allow
  BY DEF Return
<1>2. TypeOK'
  BY <1>1, TakeFacts DEF Inv, TypeOK, Return
<1>3. StateFitsStack'
  BY DEF Return, StateFitsStack
<1> QED BY <1>2, <1>3 DEF Inv

(* Where an end event leads.                                               *)
LEMMA EndFacts ==
  ASSUME Inv, stack # <<>>, stack' = Closed(stack)
  PROVE  /\ stack' \in Seq(Containers) /\ Len(stack') <= MaxNesting
         /\ state_change_end(stack') \in PStates
         /\ state_change_end(stack') \in {"OBJECT", "KEY", "KEY_VALUE"}
              <=> Peek(stack') = "object"
         /\ state_change_end(stack') \in {"ARRAY", "ARRAY_VALUE"}
              <=> Peek(stack') = "array"
<1>1. stack \in Seq(Containers) /\ Len(stack) \in Nat /\ Len(stack) <= MaxNesting
  BY DEF Inv, TypeOK
<1>2. stack' \in Seq(Containers) /\ Len(stack') = Len(stack) - 1
  BY <1>1, ClosedFacts
<1>3. Len(stack') <= MaxNesting
  BY <1>1, <1>2, PullAssumption
<1>4. Peek(stack') \in Containers \cup {"none"}
  BY <1>2, PeekFacts
<1> QED BY <1>2, <1>3, <1>4 DEF state_change_end, PStates, Containers

-----------------------------------------------------------------------------
(* No step of a caller or of a call breaks the invariant.                  *)
LEMMA InvStep ==
  ASSUME Inv, [Next]_vars
  PROVE  Inv'
<1> DEFINE Keep == UNCHANGED retried
<1>1. CASE jsnpg_parse_next
  <2>1. pstate \in PStates /\ retried' \in BOOLEAN /\ result \in {"none", "eof", "error"}
    BY <1>1 DEF Inv, TypeOK, jsnpg_parse_next
  <2>2. NotTaken /\ UNCHANGED <<allow, pstate, stack, event>>
    BY <1>1 DEF jsnpg_parse_next, NotTaken
  <2> QED BY <1>1, <2>1, <2>2, KeepsPlace DEF jsnpg_parse_next, LocalStates
<1>2. CASE EndObject /\ Keep
  <2>1. Peek(stack) = "object" /\ stack \in Seq(Containers)
    BY <1>2, LocalStateFacts DEF EndObject, In, Inv, TypeOK
  <2>2. stack # <<>>
    BY <2>1, PeekFacts DEF Containers
  <2> QED BY <1>2, <2>2, EndFacts, Returns DEF EndObject
<1>3. CASE EndArray /\ Keep
  <2>1. Peek(stack) = "array" /\ stack \in Seq(Containers)
    BY <1>3, LocalStateFacts DEF EndArray, In, Inv, TypeOK
  <2>2. stack # <<>>
    BY <2>1, PeekFacts DEF Containers
  <2> QED BY <1>3, <2>2, EndFacts, Returns DEF EndArray
<1>4. CASE (Comma \/ MissingComma) /\ Keep
  <2>1. /\ pc = "running" /\ pc' = "running"
        /\ Take \/ NotTaken
        /\ UNCHANGED <<allow, pstate, stack, event, result, retried>>
    BY <1>4 DEF Comma, MissingComma, In, Go
  <2>2. state' \in LocalStates(pstate) /\ state' \in PStates \cup {"OBJECT_COMMA", "ARRAY_COMMA"}
    <3>1. CASE In("KEY_VALUE") /\ Go(AfterComma("object"))
      BY <3>1, LocalStateFacts DEF In, Go, AfterComma, LocalStates, PStates
    <3>2. CASE In("ARRAY_VALUE") /\ Go(AfterComma("array"))
      BY <3>2, LocalStateFacts DEF In, Go, AfterComma, LocalStates, PStates
    <3> QED BY <1>4, <3>1, <3>2 DEF Comma, MissingComma
  <2>3. result \in {"none", "eof", "error"} /\ retried \in BOOLEAN
    BY DEF Inv, TypeOK
  <2> QED BY <2>1, <2>2, <2>3, KeepsPlace
<1>5. CASE Key /\ Keep
  <2>1. pc = "running" /\ pstate \in {"OBJECT", "KEY_VALUE"}
    BY <1>5, LocalStateFacts DEF Key, AtKey, In
  <2>2. /\ state \in PStates \cup {"OBJECT_COMMA", "ARRAY_COMMA"}
        /\ result \in {"none", "eof", "error"} /\ retried \in BOOLEAN
    BY DEF Inv, TypeOK
  <2> QED BY <1>5, <2>1, <2>2, KeepsPlace DEF Key
<1>6. CASE Colon /\ Keep
  <2>1. Peek(stack) = "object" /\ stack \in Seq(Containers) /\ Len(stack) <= MaxNesting
    BY <1>6 DEF Colon, Inv, TypeOK, StateFitsStack
  <2>2. UNCHANGED stack
    BY <1>6 DEF Colon
  <2> QED BY <1>6, <2>1, <2>2, Returns DEF Colon, PStates
<1>7. CASE Another /\ Keep
  <2>1. pc = "running" /\ pstate = "DONE"
    BY <1>7, LocalStateFacts DEF Another, In
  <2>2. result \in {"none", "eof", "error"} /\ retried \in BOOLEAN
    BY DEF Inv, TypeOK
  <2> QED BY <1>7, <2>1, <2>2, KeepsPlace DEF Another, In, Go, LocalStates, PStates
<1>8. CASE EndOfText /\ Keep
  <2>1. pc = "running" /\ pstate = "DONE"
    BY <1>8, LocalStateFacts DEF EndOfText, In
  <2>2. UNCHANGED allow
    BY <1>8 DEF EndOfText
  <2>3. TypeOK'
    BY <1>8, <2>2, TakeFacts DEF EndOfText, Inv, TypeOK, PStates
  <2>4. StateFitsStack'
    BY <1>8, <2>1 DEF EndOfText, Inv, StateFitsStack
  <2> QED BY <2>3, <2>4 DEF Inv
<1>9. CASE Scalar /\ Keep
  <2> DEFINE s == state_change_value(pstate)
  <2>1. pc = "running" /\ UNCHANGED stack /\ stack \in Seq(Containers) /\ Len(stack) <= MaxNesting
    BY <1>9, AtValueFacts DEF Scalar, Inv, TypeOK
  <2>2. CASE s # "invalid" /\ Take /\ Return("value", s)
    <3>1. pstate \in {"START", "KEY", "ARRAY", "ARRAY_VALUE"}
      BY <1>9, <2>2, AtValueFacts DEF Scalar, state_change_value
    <3>2. /\ s \in PStates
          /\ s \in {"OBJECT", "KEY", "KEY_VALUE"} <=> Peek(stack) = "object"
          /\ s \in {"ARRAY", "ARRAY_VALUE"} <=> Peek(stack) = "array"
      BY <3>1 DEF state_change_value, PStates, Inv, StateFitsStack
    <3> QED BY <1>9, <2>1, <2>2, <3>2, Returns
  <2>3. CASE pc' = "aborted" /\ UNCHANGED <<allow, pstate, state, event, result>> /\ NotTaken
    <3>1. /\ state \in PStates \cup {"OBJECT_COMMA", "ARRAY_COMMA"}
          /\ result \in {"none", "eof", "error"} /\ retried \in BOOLEAN
      BY DEF Inv, TypeOK
    <3> QED BY <1>9, <2>1, <2>3, <3>1, KeepsPlace
  <2> QED BY <1>9, <2>2, <2>3 DEF Scalar
<1>10. ASSUME NEW type \in Containers, Open(type), Keep
       PROVE  Inv'
  <2> DEFINE s == IF type = "object" THEN "OBJECT" ELSE "ARRAY"
  <2>1. stack \in Seq(Containers) /\ Len(stack) \in Nat /\ Len(stack) < MaxNesting
    BY <1>10, PullAssumption DEF Open, Full, Inv, TypeOK
  <2>2. /\ stack' \in Seq(Containers) /\ Len(stack') = Len(stack) + 1
        /\ Peek(stack') = type
    BY <1>10, <2>1, OpenedFacts DEF Open
  <2>3. Len(stack') <= MaxNesting
    BY <2>1, <2>2, PullAssumption
  <2>4. StartEvent[type] \in {"start_object", "start_array"} /\ s \in PStates
    BY <1>10 DEF StartEvent, Containers, PStates
  <2> QED BY <1>10, <2>2, <2>3, <2>4, Returns DEF Open, Containers
<1>11. CASE (Error \/ ErrorBehind) /\ Keep
  <2>1. Throw /\ (Take \/ NotTaken)
    BY <1>11 DEF Error, ErrorBehind
  <2>2. state \in PStates \cup {"OBJECT_COMMA", "ARRAY_COMMA"} /\ retried \in BOOLEAN
    BY DEF Inv, TypeOK
  <2> QED BY <1>11, <2>1, <2>2, KeepsPlace DEF Throw
<1>12. CASE UNCHANGED vars
  BY <1>12 DEF vars, Inv, TypeOK, StateFitsStack, LocalStates
<1> QED
  BY <1>1, <1>2, <1>3, <1>4, <1>5, <1>6, <1>7, <1>8, <1>9, <1>10, <1>11, <1>12
  DEF Next, parse_next

LEMMA InitInv == Init => Inv
<1> SUFFICES ASSUME Init PROVE Inv
  OBVIOUS
<1>1. stack = <<>> /\ stack \in Seq(Containers) /\ Len(stack) <= MaxNesting
  BY PullAssumption DEF Init
<1>2. TypeOK
  BY <1>1 DEF Init, TypeOK, PStates
<1>3. StateFitsStack
  BY <1>1 DEF Init, StateFitsStack, Peek
<1> QED BY <1>2, <1>3 DEF Inv

LEMMA InvAlways == Spec => []Inv
<1>1. Inv /\ [Next]_vars => Inv'
  BY InvStep
<1> QED BY <1>1, InitInv, PTL DEF Spec

(* The stack of a pull parser never exceeds the nesting it was created     *)
(* with (parse_start_object, parse_start_array), and every variable keeps  *)
(* its type.                                                               *)
THEOREM TypeCorrect == Spec => []TypeOK
<1>1. Inv => TypeOK
  BY DEF Inv
<1> QED BY <1>1, InvAlways, PTL

(* p->state is always one of the innermost open container, whatever the    *)
(* text, the flags and the errors that a caller ignored: the assertions of *)
(* parse_end_object and parse_end_array hold.                              *)
THEOREM StateAlwaysFits == Spec => []StateFitsStack
<1>1. Inv => StateFitsStack
  BY DEF Inv
<1> QED BY <1>1, InvAlways, PTL

-----------------------------------------------------------------------------
(* The only local state that p->state has not kept up with where a value   *)
(* may come is that of another value of the text.                          *)
SecondScalars ==
  /\ OnlySecondScalarsAbort
  /\ pc = "running" /\ state = "START" /\ pstate = "DONE" => "multiple_values" \in allow

LEMMA SecondScalarsStep ==
  ASSUME Inv, SecondScalars, [Next]_vars
  PROVE  SecondScalars'
<1>1. CASE jsnpg_parse_next
  BY <1>1 DEF jsnpg_parse_next, SecondScalars, OnlySecondScalarsAbort
<1>2. CASE Another
  BY <1>2 DEF Another, In, Go, SecondScalars, OnlySecondScalarsAbort
<1>3. CASE Scalar /\ pc' = "aborted"
  <2>1. AtValue /\ UNCHANGED <<allow, pstate>> /\ pc = "running"
    BY <1>3, AtValueFacts DEF Scalar, Return
  <2>2. state_change_value(pstate) = "invalid"
    BY <1>3 DEF Scalar, Return
  <2>3. pstate = "DONE"
    BY <2>1, <2>2, AtValueFacts DEF state_change_value
  <2>4. state = "START"
    BY <2>1, <2>3, LocalStateFacts DEF AtValue, In
  <2> QED BY <1>3, <2>1, <2>3, <2>4 DEF SecondScalars, OnlySecondScalarsAbort
<1>4. CASE Comma \/ MissingComma
  <2>1. pc' = pc /\ pc = "running" /\ state' # "START"
    BY <1>4 DEF Comma, MissingComma, In, Go, AfterComma
  <2> QED BY <2>1 DEF SecondScalars, OnlySecondScalarsAbort
<1>5. CASE pc' \in {"idle", "colon"}
  BY <1>5 DEF SecondScalars, OnlySecondScalarsAbort
<1>6. CASE UNCHANGED vars
  BY <1>6 DEF vars, SecondScalars, OnlySecondScalarsAbort
<1>7. ASSUME \/ EndObject \/ EndArray \/ Key \/ Colon \/ EndOfText \/ Error \/ ErrorBehind
             \/ Scalar /\ pc' # "aborted"
             \/ \E type \in Containers : Open(type)
      PROVE  pc' \in {"idle", "colon"}
  BY <1>7 DEF EndObject, EndArray, Key, Colon, EndOfText, Error, ErrorBehind, Scalar, Open, Return, Throw
<1> QED BY <1>1, <1>2, <1>3, <1>4, <1>5, <1>6, <1>7 DEF Next, parse_next

(* The assertion of state_change_value holds for every text and flag and   *)
(* however often a caller asks again after errors, but for a scalar behind *)
(* a complete value, with JSNPG_ALLOW_MULTIPLE_VALUES.                     *)
THEOREM AbortsForSecondScalars == Spec => []OnlySecondScalarsAbort
<1>1. Init => SecondScalars
  BY DEF Init, SecondScalars, OnlySecondScalarsAbort
<1>2. Inv /\ SecondScalars /\ [Next]_vars => SecondScalars'
  BY SecondScalarsStep
<1>3. SecondScalars => OnlySecondScalarsAbort
  BY DEF SecondScalars
<1> QED BY <1>1, <1>2, <1>3, InvAlways, PTL DEF Spec

-----------------------------------------------------------------------------
(* What the caller has received, step by step.  The nesting is that of the *)
(* event stream.                                                           *)
LEMMA SameNesting ==
  ASSUME NEW s, NEW type
  PROVE  /\ Stream!Peek(s) = Peek(s)
         /\ Stream!Opened(s, type) = Opened(s, type)
         /\ Stream!Closed(s) = Closed(s)
BY DEF Peek, Stream!Peek, Last, Stream!Last, Opened, Stream!Opened,
       Closed, Stream!Closed, Front, Stream!Front

LEMMA SilentStep ==
  ASSUME UNCHANGED <<stack, event>>, (pstate = "KEY") <=> (pstate' = "KEY")
  PROVE  UNCHANGED Stream!vars
BY DEF Stream!vars

LEMMA AcceptStep ==
  ASSUME NEW e \in Stream!Events, event' = e, Stream!Accept(e)
  PROVE  Stream!Next
BY DEF Stream!Next

(* The event kinds of the stream, and where each of them fits.             *)
LEMMA EventKinds ==
  /\ DOMAIN Stream!Starts = {"start_object", "start_array"}
  /\ DOMAIN Stream!Ends = {"end_object", "end_array"}
  /\ Stream!Events = {"value", "key", "start_object", "start_array",
                      "end_object", "end_array"}
BY DEF Stream!Starts, Stream!Ends, Stream!Events

LEMMA FitFacts ==
  /\ Stream!Fits("value") <=> (Peek(stack) = "object" => pstate = "KEY")
  /\ Stream!Fits("key") <=> Peek(stack) = "object" /\ pstate # "KEY"
  /\ \A e \in {"start_object", "start_array"} :
       Stream!Fits(e) <=> /\ Peek(stack) = "object" => pstate = "KEY"
                          /\ Len(stack) < MaxNesting
<1>1. Stream!ValueFits <=> (Peek(stack) = "object" => pstate = "KEY")
  BY SameNesting DEF Stream!ValueFits, Stream!InObject
<1>2. Stream!Fits("value") <=> Stream!ValueFits
  BY EventKinds DEF Stream!Fits
<1>3. Stream!Fits("key") <=> Stream!InObject /\ pstate # "KEY"
  BY EventKinds DEF Stream!Fits
<1>4. \A e \in {"start_object", "start_array"} :
         Stream!Fits(e) <=> Stream!ValueFits /\ Len(stack) < MaxNesting
  BY EventKinds DEF Stream!Fits
<1> QED BY <1>1, <1>2, <1>3, <1>4, SameNesting DEF Stream!InObject

LEMMA StreamStep ==
  ASSUME Inv, [Next]_vars
  PROVE  [Stream!Next]_(Stream!vars)
<1>1. CASE pstate' = pstate /\ UNCHANGED <<stack, event>>
  BY <1>1, SilentStep
<1>2. CASE EndObject
  <2>1. Peek(stack) = "object" /\ pstate # "KEY"
    BY <1>2, LocalStateFacts DEF EndObject, In
  <2>2. stack' = Closed(stack) /\ event' = "end_object" /\ pstate' # "KEY"
    BY <1>2 DEF EndObject, Return, state_change_end
  <2>3. Stream!Fits("end_object")
    BY <2>1, SameNesting DEF Stream!Fits, Stream!Ends, Stream!Starts
  <2>4. Stream!Accept("end_object")
    BY <2>2, <2>3, SameNesting DEF Stream!Accept, Stream!Starts, Stream!Ends
  <2> QED BY <2>2, <2>4, AcceptStep DEF Stream!Events, Stream!Ends
<1>3. CASE EndArray
  <2>1. Peek(stack) = "array" /\ pstate # "KEY"
    BY <1>3, LocalStateFacts DEF EndArray, In
  <2>2. stack' = Closed(stack) /\ event' = "end_array" /\ pstate' # "KEY"
    BY <1>3 DEF EndArray, Return, state_change_end
  <2>3. Stream!Fits("end_array")
    BY <2>1, SameNesting DEF Stream!Fits, Stream!Ends, Stream!Starts
  <2>4. Stream!Accept("end_array")
    BY <2>2, <2>3, SameNesting DEF Stream!Accept, Stream!Starts, Stream!Ends
  <2> QED BY <2>2, <2>4, AcceptStep DEF Stream!Events, Stream!Ends
<1>4. CASE Colon
  <2>1. Peek(stack) = "object" /\ pstate # "KEY"
    BY <1>4 DEF Colon, Inv, StateFitsStack
  <2>2. UNCHANGED stack /\ event' = "key" /\ pstate' = "KEY"
    BY <1>4 DEF Colon, Return
  <2>3. Stream!Fits("key")
    BY <2>1, FitFacts
  <2>4. Stream!Accept("key")
    BY <2>2, <2>3, SameNesting DEF Stream!Accept, Stream!Starts, Stream!Ends
  <2> QED BY <2>2, <2>4, AcceptStep DEF Stream!Events
<1>5. CASE Scalar /\ pc' # "aborted"
  <2>1. UNCHANGED stack /\ event' = "value" /\ pstate' = state_change_value(pstate)
    BY <1>5 DEF Scalar, Return
  <2>2. pstate' # "KEY"
    BY <2>1 DEF state_change_value
  <2>3. Stream!Fits("value")
    BY <1>5, AtValueFacts, FitFacts DEF Scalar
  <2>4. Stream!Accept("value")
    BY <2>1, <2>2, <2>3, SameNesting DEF Stream!Accept, Stream!Starts, Stream!Ends
  <2> QED BY <2>1, <2>4, AcceptStep DEF Stream!Events
<1>6. ASSUME NEW type \in Containers, Open(type)
      PROVE  Stream!Next
  <2> DEFINE e == StartEvent[type]
  <2>1. stack' = Opened(stack, type) /\ event' = e /\ pstate' # "KEY"
    BY <1>6 DEF Open, Return
  <2>2. /\ e \in {"start_object", "start_array"}
        /\ Stream!Starts[e] = type
    BY <1>6 DEF StartEvent, Containers, Stream!Starts
  <2>3. Len(stack) < MaxNesting
    BY <1>6, PullAssumption DEF Open, Full, Inv, TypeOK
  <2>4. Stream!Fits(e)
    BY <1>6, <2>2, <2>3, AtValueFacts, FitFacts DEF Open
  <2>5. Stream!Accept(e)
    BY <2>1, <2>2, <2>4, SameNesting DEF Stream!Accept, Stream!Starts, Stream!Ends
  <2> QED BY <2>1, <2>2, <2>5, AcceptStep DEF Stream!Events, Stream!Starts
<1>7. CASE \/ jsnpg_parse_next \/ Comma \/ MissingComma \/ Key \/ Another
           \/ (Scalar /\ pc' = "aborted") \/ Error \/ ErrorBehind \/ UNCHANGED vars
  <2>1. pstate' = pstate /\ UNCHANGED <<stack, event>>
    BY <1>7 DEF jsnpg_parse_next, Comma, MissingComma, Key, Another, Go,
                Scalar, Return, Error, ErrorBehind, Throw, vars
  <2> QED BY <1>1, <2>1
<1>8. CASE EndOfText
  <2>1. pstate = "DONE" /\ pstate' = "EOF" /\ UNCHANGED <<stack, event>>
    BY <1>8, LocalStateFacts DEF EndOfText, In
  <2> QED BY <2>1, SilentStep
<1> QED
  BY <1>2, <1>3, <1>4, <1>5, <1>6, <1>7, <1>8 DEF Next, parse_next

(* The items that parser_parse_next returns are well-formed JSON events,   *)
(* for every nesting, text and flag, also to a caller that asks again      *)
(* after errors.                                                           *)
THEOREM ReturnsEvents == Spec => ReturnsJsonEvents
<1>1. Init => Stream!Init
  BY DEF Init, Stream!Init
<1>2. Inv /\ [Next]_vars => [Stream!Next]_(Stream!vars)
  BY StreamStep
<1> QED BY <1>1, <1>2, InvAlways, PTL DEF Spec, ReturnsJsonEvents, Stream!Spec

-----------------------------------------------------------------------------
(* The token grammar, up to the first error.                               *)

(* What has been returned so far and where a call is: only an end is       *)
(* followed by a call that has nothing to read, and the state is one with  *)
(* a comma behind it when no trailing comma is allowed.                    *)
Before ==
  /\ Calling => result # "error"
  /\ result = "eof" <=> pstate = "EOF" /\ result # "error"
  /\ pc = "running" =>
       /\ state \in {"OBJECT_COMMA", "ARRAY_COMMA"} => ~Trailing
       /\ state \in {"OBJECT", "ARRAY"} /\ state # pstate => Trailing

(* The flags of a parser never change, and a retry is not forgotten.       *)
LEMMA AllowKept ==
  ASSUME [Next]_vars
  PROVE  allow' = allow /\ (retried => retried')
<1>1. CASE UNCHANGED vars
  BY <1>1 DEF vars
<1>2. CASE jsnpg_parse_next
  <2>1. allow' = allow /\ retried' = (retried \/ result = "error")
    BY <1>2 DEF jsnpg_parse_next
  <2> QED BY <2>1
<1>3. CASE parse_next
  <2>1. Comma \/ MissingComma \/ Another => allow' = allow
    BY DEF Comma, MissingComma, Another, Go
  <2>2. EndObject \/ EndArray \/ Colon \/ Scalar \/ (\E type \in Containers : Open(type)) => allow' = allow
    BY DEF EndObject, EndArray, Colon, Scalar, Open, Return
  <2>3. Key \/ EndOfText \/ Error \/ ErrorBehind => allow' = allow
    BY DEF Key, EndOfText, Error, ErrorBehind, Throw
  <2> QED BY <1>3, <2>1, <2>2, <2>3 DEF parse_next
<1> QED BY <1>1, <1>2, <1>3 DEF Next

LEMMA BeforeStep ==
  ASSUME Inv, ~retried => Before, [Next]_vars
  PROVE  ~retried' => Before'
<1> SUFFICES ASSUME ~retried' PROVE Before'
  OBVIOUS
<1>1. Before /\ ~retried /\ (Trailing' <=> Trailing)
  <2>1. allow' = allow /\ (retried => retried')
    BY AllowKept
  <2> QED BY <2>1 DEF Trailing
<1>2. result \in {"none", "eof", "error"} /\ pstate \in PStates
  BY DEF Inv, TypeOK
<1>3. CASE jsnpg_parse_next
  <2>1. /\ result # "error" /\ pc' = "running" /\ state' = pstate /\ UNCHANGED <<pstate, result>>
    BY <1>3 DEF jsnpg_parse_next
  <2>2. state' \notin {"OBJECT_COMMA", "ARRAY_COMMA"}
    BY <1>2, <2>1 DEF PStates
  <2> QED BY <1>1, <2>1, <2>2 DEF Before, Calling
<1>4. CASE Comma \/ MissingComma
  <2>1. /\ UNCHANGED <<allow, pstate, pc, result>> /\ pc = "running"
        /\ state' = AfterComma("object") \/ state' = AfterComma("array")
    BY <1>4 DEF Comma, MissingComma, In, Go
  <2>2. state' \in IF Trailing THEN {"OBJECT", "ARRAY"} ELSE {"OBJECT_COMMA", "ARRAY_COMMA"}
    BY <2>1 DEF AfterComma
  <2> QED BY <1>1, <2>1, <2>2 DEF Before, Calling
<1>5. CASE \E e, s : Return(e, s) /\ s # "EOF"
  BY <1>5 DEF Return, Before, Calling
<1>6. CASE Error \/ ErrorBehind
  BY <1>6 DEF Error, ErrorBehind, Throw, Before, Calling
<1>7. CASE Key \/ (Scalar /\ pc' = "aborted")
  BY <1>1, <1>7 DEF Key, Scalar, AtKey, AtValue, In, Return, Before, Calling
<1>8. CASE Another
  BY <1>1, <1>8 DEF Another, In, Go, Before, Calling
<1>9. CASE EndOfText
  BY <1>9 DEF EndOfText, Before, Calling
<1>10. CASE UNCHANGED vars
  BY <1>1, <1>10 DEF vars, Before, Calling
<1>11. ASSUME EndObject \/ EndArray \/ Colon \/ (Scalar /\ pc' # "aborted") \/ \E type \in Containers : Open(type)
       PROVE  \E e, s : Return(e, s) /\ s # "EOF"
  BY <1>11 DEF EndObject, EndArray, Colon, Scalar, Open, state_change_end, state_change_value
<1> QED BY <1>3, <1>4, <1>5, <1>6, <1>7, <1>8, <1>9, <1>10, <1>11 DEF Next, parse_next

LEMMA BeforeAlways == Spec => [](~retried => Before)
<1>1. Init => (~retried => Before)
  BY DEF Init, Before, Calling
<1>2. Inv /\ (~retried => Before) /\ [Next]_vars => (~retried => Before)'
  BY BeforeStep
<1> QED BY <1>1, <1>2, InvAlways, PTL DEF Spec

LEMMA SameText ==
  /\ Text!Containers = Containers /\ Text!Flags = Flags
  /\ Text!Scalars = Scalars
  /\ Text!Opener = Opener /\ Text!Closer = Closer
  /\ Text!StartEvent = StartEvent /\ Text!EndEvent = EndEvent
  /\ \A a : Text!Lookaheads(a) = Lookaheads(a)
  /\ \A s : Text!Peek(s) = Peek(s) /\ Text!Closed(s) = Closed(s)
  /\ \A s, type : Text!Opened(s, type) = Opened(s, type)
<1>1. Text!BadScalars = BadScalars /\ Text!Scalars = Scalars
  BY DEF Text!BadScalars, BadScalars, Text!Scalars, Scalars
<1>2. \A a : Text!Lookaheads(a) = Lookaheads(a)
  BY <1>1 DEF Text!Lookaheads, Lookaheads, Text!Tokens, Tokens
<1> QED BY <1>1, <1>2
        DEF Text!Containers, Containers, Text!Flags, Flags, Text!Opener, Opener, Text!Closer, Closer,
            Text!StartEvent, StartEvent, Text!EndEvent, EndEvent,
            Text!Peek, Peek, Text!Last, Last, Text!Closed, Closed, Text!Front, Front,
            Text!Opened, Opened

(* A call that reads the text.                                             *)
Reading == Inv /\ Before /\ ~retried /\ Calling /\ result = "none"

(* What the grammar admits at a place of the call.                         *)
LEMMA TextPlaces ==
  ASSUME Reading
  PROVE  /\ Text!Top = Peek(stack)
         /\ Text!ValueDue <=> pc = "running" /\ state \in {"START", "KEY", "ARRAY", "ARRAY_COMMA"}
         /\ Text!KeyDue <=> pc = "running" /\ state \in {"OBJECT", "OBJECT_COMMA"}
         /\ Text!EndDue <=> pc = "running" /\ state \in {"OBJECT", "KEY_VALUE", "ARRAY", "ARRAY_VALUE", "DONE"}
         /\ Need = "colon" <=> pc = "colon"
         /\ Need = "sep" <=> pc = "running" /\ state \in {"KEY_VALUE", "ARRAY_VALUE", "DONE"}
         /\ Text!Complete <=> In("DONE")
<1>1. /\ Text!Top = Peek(stack) /\ (Text!Trailing <=> Trailing)
      /\ ReadLook = look
  BY SameText DEF Reading, Text!Top, ReadOpen, Text!Trailing, Trailing, ReadLook
<1>2. CASE pc = "colon"
  <2>1. Need = "colon"
    BY <1>2 DEF Need, Reading
  <2> QED BY <1>1, <1>2, <2>1 DEF Text!ValueDue, Text!KeyDue, Text!EndDue, Text!Complete, In
<1>3. CASE pc = "running"
  <2>1. /\ state \in LocalStates(pstate) /\ pstate \in PStates \ {"EOF"}
        /\ state \in {"OBJECT_COMMA", "ARRAY_COMMA"} => ~Trailing
        /\ state \in {"OBJECT", "ARRAY"} /\ state # pstate => Trailing
    BY <1>3 DEF Reading, Inv, TypeOK, StateFitsStack, Before
  <2>2. /\ state \in {"START", "OBJECT", "KEY", "KEY_VALUE", "ARRAY", "ARRAY_VALUE", "DONE",
                      "OBJECT_COMMA", "ARRAY_COMMA"}
        /\ state \in {"KEY_VALUE", "OBJECT", "OBJECT_COMMA"} => Peek(stack) = "object"
        /\ state \in {"ARRAY_VALUE", "ARRAY", "ARRAY_COMMA"} => Peek(stack) = "array"
    BY <1>3, <2>1, LocalStateFacts DEF Reading, PStates, LocalStates
  <2>3. state = "DONE" => Peek(stack) = "none"
    BY <1>3, LocalStateFacts, PeekFacts DEF Reading, Inv, TypeOK, StateFitsStack, Containers
  <2>4. Need = CASE state \in {"START", "KEY"} -> "value"
                 [] state \in {"KEY_VALUE", "ARRAY_VALUE", "DONE"} -> "sep"
                 [] state \in {"OBJECT", "ARRAY"} -> IF state = pstate THEN "first" ELSE "next"
                 [] OTHER -> "next"
    BY <1>3, <2>2 DEF Need, NeedIn, Reading
  <2>5. Text!ValueDue <=> state \in {"START", "KEY", "ARRAY", "ARRAY_COMMA"}
    BY <1>1, <2>2, <2>4 DEF Text!ValueDue
  <2>6. Text!KeyDue <=> state \in {"OBJECT", "OBJECT_COMMA"}
    BY <1>1, <2>2, <2>4 DEF Text!KeyDue
  <2>7. Text!EndDue <=> state \in {"OBJECT", "KEY_VALUE", "ARRAY", "ARRAY_VALUE", "DONE"}
    BY <1>1, <2>1, <2>2, <2>4 DEF Text!EndDue
  <2>8. Need # "colon" /\ (Need = "sep" <=> state \in {"KEY_VALUE", "ARRAY_VALUE", "DONE"})
    BY <2>2, <2>4
  <2>9. Need = "next" => Peek(stack) # "none"
    BY <2>2, <2>4
  <2>10. Text!Complete <=> In("DONE")
    BY <1>1, <1>3, <2>2, <2>3, <2>8, <2>9 DEF Text!Complete, In
  <2> QED BY <1>1, <1>3, <2>5, <2>6, <2>7, <2>8, <2>10
<1> QED BY <1>2, <1>3 DEF Reading, Calling

(* The tokens that the grammar admits there.                               *)
LEMMA TextAdmits ==
  ASSUME Reading, Text!Legal
  PROVE  \/ AtValue /\ (look \in Scalars \/ (look \in {"lbrace", "lbracket"} /\ ~Full))
         \/ In("KEY_VALUE") \/ (In("OBJECT") /\ look = "rbrace")
         \/ (In("ARRAY") \/ In("ARRAY_VALUE")) /\ look = "rbracket"
         \/ In("ARRAY_VALUE") /\ look = "comma"
         \/ AtKey /\ look = "string"
         \/ pc = "colon" /\ look = "colon"
         \/ In("DONE") /\ (look = "end" \/ allow \cap {"multiple_values", "trailing_chars"} # {})
<1>1. /\ ReadLook = look /\ ReadOpen = stack /\ Len(stack) \in Nat /\ MaxNesting \in Nat
      /\ Peek(stack) = "object" => Closer["object"] = "rbrace"
      /\ Peek(stack) = "array" => Closer["array"] = "rbracket"
  BY PullAssumption DEF Reading, ReadLook, ReadOpen, Inv, TypeOK, Closer
<1>2. /\ pc = "running" /\ state \in {"KEY_VALUE", "OBJECT", "OBJECT_COMMA"} => Peek(stack) = "object"
      /\ pc = "running" /\ state \in {"ARRAY_VALUE", "ARRAY", "ARRAY_COMMA"} => Peek(stack) = "array"
      /\ pc = "running" /\ state = "DONE" => Peek(stack) = "none"
  BY LocalStateFacts, PeekFacts DEF Reading, Inv, TypeOK, StateFitsStack, Containers
<1>3. ASSUME NEW type \in Containers, Text!CanOpen(type)
      PROVE  AtValue /\ look \in {"lbrace", "lbracket"} /\ ~Full
  <2>1. Text!ValueDue /\ look = Opener[type] /\ Len(stack) < MaxNesting
    BY <1>1, <1>3, SameText DEF Text!CanOpen
  <2>2. Opener[type] \in {"lbrace", "lbracket"}
    BY DEF Opener, Containers
  <2>3. AtValue /\ ~Full
    BY <1>1, <2>1, <2>2, TextPlaces DEF AtValue, In, Full
  <2> QED BY <2>1, <2>2, <2>3
<1>4. ASSUME NEW type \in Containers, Text!CanClose(type)
      PROVE  \/ In("KEY_VALUE") \/ (In("OBJECT") /\ look = "rbrace")
             \/ (In("ARRAY") \/ In("ARRAY_VALUE")) /\ look = "rbracket"
  <2>1. Text!EndDue /\ look = Closer[type] /\ Peek(stack) = type
    BY <1>1, <1>4, SameText, TextPlaces DEF Text!CanClose
  <2>2. look # "badcomment"
    BY <2>1 DEF Closer, Containers
  <2> QED BY <1>1, <1>2, <2>1, <2>2, TextPlaces DEF In, Containers
<1>5. CASE Text!CanScalar
  <2>1. Text!ValueDue /\ look \in Scalars
    BY <1>1, <1>5, SameText DEF Text!CanScalar
  <2> QED BY <2>1, TextPlaces DEF AtValue, In, Scalars
<1>6. CASE Text!CanKey \/ Text!CanColon
  BY <1>1, <1>6, TextPlaces DEF Text!CanKey, Text!CanColon, AtKey, In
<1>7. CASE Text!CanComma
  BY <1>1, <1>2, <1>7, TextPlaces DEF Text!CanComma, In
<1>8. CASE Text!CanSkipComma
  BY <1>1, <1>2, <1>8, TextPlaces DEF Text!CanSkipComma, In
<1>9. CASE Text!CanAnother \/ Text!CanAccept
  BY <1>1, <1>9, TextPlaces DEF Text!CanAnother, Text!CanAccept
<1>10. ~Text!CanLoneComma
  BY DEF Text!CanLoneComma
<1> QED BY <1>3, <1>4, <1>5, <1>6, <1>7, <1>8, <1>9, <1>10, SameText DEF Text!Legal

(* The parser reports an error only where the grammar admits nothing.      *)
LEMMA ErrorsAreIllegal ==
  ASSUME Reading, Error \/ ErrorBehind
  PROVE  ~Text!Legal
<1> SUFFICES ASSUME Text!Legal PROVE FALSE
  OBVIOUS
<1>1. state # "EOF" \/ pc # "running"
  BY DEF Reading, Before, Inv, StateFitsStack, LocalStates, TypeOK, PStates
<1>2. \/ AtValue /\ (look \in Scalars \/ (look \in {"lbrace", "lbracket"} /\ ~Full))
      \/ In("KEY_VALUE") \/ (In("OBJECT") /\ look = "rbrace")
      \/ (In("ARRAY") \/ In("ARRAY_VALUE")) /\ look = "rbracket"
      \/ In("ARRAY_VALUE") /\ look = "comma"
      \/ AtKey /\ look = "string"
      \/ pc = "colon" /\ look = "colon"
      \/ In("DONE") /\ (look = "end" \/ allow \cap {"multiple_values", "trailing_chars"} # {})
  BY TextAdmits
<1>3. CASE Error
  <2>1. AtValue /\ look \notin Scalars \cup BadScalars \cup {Opener[t] : t \in Containers}
          => look \notin Scalars /\ look \notin {"lbrace", "lbracket"}
    BY DEF Opener, Containers
  <2> QED BY <1>1, <1>2, <1>3, <2>1 DEF Error, AtValue, AtKey, In, Scalars
<1>4. CASE ErrorBehind
  <2>1. (\E type \in Containers : look = Opener[type]) => look \in {"lbrace", "lbracket"}
    BY DEF Opener, Containers
  <2> QED BY <1>2, <1>4, <2>1 DEF ErrorBehind, AtValue, AtKey, In, Scalars, BadScalars
<1> QED BY <1>3, <1>4

(* A step of a call that reads, and its counterpart.                       *)
ReadingStep == Reading /\ ~retried'

LEMMA PlainView ==
  ASSUME ReadingStep
  PROVE  /\ ReadLook = look /\ ReadOpen = stack /\ ReadEvent = event /\ ReadResult = result
         /\ ReadLook' = look' /\ ReadOpen' = stack' /\ ReadEvent' = event' /\ ReadResult' = result'
         /\ result = "none"
BY DEF ReadingStep, Reading, ReadLook, ReadOpen, ReadEvent, ReadResult

LEMMA TakenText ==
  ASSUME ReadingStep, Take, UNCHANGED allow
  PROVE  Text!Take
BY PlainView, SameText DEF Take, Text!Take

LEMMA ReturnIsText ==
  ASSUME ReadingStep, NEW e, NEW s, Return(e, s), NEW need,
         \/ s = "KEY" /\ need = "value"
         \/ s \in {"OBJECT", "ARRAY"} /\ need = "first"
         \/ s \in {"KEY_VALUE", "ARRAY_VALUE", "DONE"} /\ need = "sep"
  PROVE  Text!Emit(e, need) /\ UNCHANGED allow
<1>1. /\ event' = e /\ pstate' = s /\ pc' = "idle" /\ result' = "none" /\ ~retried' /\ UNCHANGED allow
  BY DEF Return, ReadingStep
<1>2. Need' = need
  BY <1>1 DEF Need, NeedIn
<1> QED BY <1>1, <1>2, PlainView DEF Text!Emit

LEMMA GoIsText ==
  ASSUME ReadingStep, NEW s, Go(s), pc = "running", NEW need,
         \/ s = "START" /\ need = "value"
         \/ s \in {"OBJECT", "ARRAY"} /\ s # pstate /\ need = "next"
         \/ s \in {"OBJECT_COMMA", "ARRAY_COMMA"} /\ need = "next"
  PROVE  Text!Silent(need) /\ ReadOpen' = ReadOpen /\ UNCHANGED allow
<1>1. /\ state' = s /\ pc' = "running" /\ result' = "none" /\ pstate' = pstate
      /\ ~retried' /\ UNCHANGED <<allow, stack, event, result>>
  BY PlainView DEF Go, ReadingStep
<1>2. Need' = need
  BY <1>1 DEF Need, NeedIn
<1> QED BY <1>1, <1>2, PlainView DEF Text!Silent

LEMMA EndsAreText ==
  ASSUME ReadingStep
  PROVE  /\ EndObject => Text!End("object")
         /\ EndArray => Text!End("array")
<1>1. state_change_end(stack') \in {"KEY_VALUE", "ARRAY_VALUE", "DONE"}
  BY DEF state_change_end
<1>2. ASSUME EndObject PROVE Text!End("object")
  <2>1. /\ Take /\ stack' = Closed(stack) /\ look = "rbrace"
        /\ Return("end_object", state_change_end(stack'))
    BY <1>2 DEF EndObject
  <2>2. Text!Emit("end_object", "sep") /\ Text!Take
    BY <1>1, <2>1, ReturnIsText, TakenText DEF Return
  <2>3. Text!EndDue /\ Text!Top = "object"
    BY <1>2, TextPlaces, LocalStateFacts DEF EndObject, In, ReadingStep, Reading
  <2>4. Text!CanClose("object")
    BY <2>1, <2>3, PlainView, SameText DEF Text!CanClose, Closer
  <2> QED BY <2>1, <2>2, <2>4, PlainView, SameText DEF Text!End, EndEvent
<1>3. ASSUME EndArray PROVE Text!End("array")
  <2>1. /\ Take /\ stack' = Closed(stack) /\ look = "rbracket"
        /\ Return("end_array", state_change_end(stack'))
    BY <1>3 DEF EndArray
  <2>2. Text!Emit("end_array", "sep") /\ Text!Take
    BY <1>1, <2>1, ReturnIsText, TakenText DEF Return
  <2>3. Text!EndDue /\ Text!Top = "array"
    BY <1>3, TextPlaces, LocalStateFacts DEF EndArray, In, ReadingStep, Reading
  <2>4. Text!CanClose("array")
    BY <2>1, <2>3, PlainView, SameText DEF Text!CanClose, Closer
  <2> QED BY <2>1, <2>2, <2>4, PlainView, SameText DEF Text!End, EndEvent
<1> QED BY <1>2, <1>3

LEMMA CommasAreText ==
  ASSUME ReadingStep
  PROVE  /\ Comma => Text!Comma
         /\ MissingComma => Text!SkipComma
<1>1. In("KEY_VALUE") => pstate = "KEY_VALUE" /\ Peek(stack) = "object"
  BY LocalStateFacts DEF In, ReadingStep, Reading
<1>2. In("ARRAY_VALUE") => pstate = "ARRAY_VALUE" /\ Peek(stack) = "array"
  BY LocalStateFacts DEF In, ReadingStep, Reading
<1>3. /\ AfterComma("object") \in {"OBJECT", "OBJECT_COMMA"}
      /\ AfterComma("array") \in {"ARRAY", "ARRAY_COMMA"}
  BY DEF AfterComma
<1>4. /\ In("KEY_VALUE") /\ Go(AfterComma("object"))
           => Text!Silent("next") /\ ReadOpen' = ReadOpen /\ UNCHANGED allow
      /\ In("ARRAY_VALUE") /\ Go(AfterComma("array"))
           => Text!Silent("next") /\ ReadOpen' = ReadOpen /\ UNCHANGED allow
  BY <1>1, <1>2, <1>3, GoIsText DEF In
<1>5. In("KEY_VALUE") \/ In("ARRAY_VALUE") => Need = "sep" /\ Text!Top # "none"
  BY <1>1, <1>2, TextPlaces DEF In, ReadingStep
<1>6. ASSUME Comma PROVE Text!Comma
  <2>1. Text!CanComma
    BY <1>5, <1>6, PlainView DEF Comma, Text!CanComma
  <2>2. Text!Silent("next") /\ ReadOpen' = ReadOpen /\ Text!Take
    BY <1>4, <1>6, TakenText DEF Comma
  <2> QED BY <2>1, <2>2 DEF Text!Comma
<1>7. ASSUME MissingComma PROVE Text!SkipComma
  <2>1. Text!CanSkipComma
    BY <1>1, <1>5, <1>7, PlainView, TextPlaces DEF MissingComma, Text!CanSkipComma, In, ReadingStep
  <2>2. Text!Silent("next") /\ ReadOpen' = ReadOpen /\ UNCHANGED allow
    BY <1>4, <1>7 DEF MissingComma
  <2> QED BY <1>7, <2>1, <2>2, PlainView DEF Text!SkipComma, MissingComma, NotTaken
<1> QED BY <1>6, <1>7

LEMMA KeysAreText ==
  ASSUME ReadingStep
  PROVE  /\ Key => Text!Key
         /\ Colon => Text!Colon
<1>1. ASSUME Key PROVE Text!Key
  <2>1. /\ AtKey /\ look = "string" /\ Take /\ pc' = "colon"
        /\ UNCHANGED <<allow, stack, event, result>>
    BY <1>1 DEF Key
  <2>2. Text!CanKey
    BY <2>1, PlainView, TextPlaces DEF Text!CanKey, AtKey, In, ReadingStep
  <2>3. Need' = "colon"
    BY <2>1, PlainView DEF Need, ReadingStep
  <2> QED BY <2>1, <2>2, <2>3, PlainView, TakenText DEF Text!Key, Text!Silent
<1>2. ASSUME Colon PROVE Text!Colon
  <2>1. pc = "colon" /\ look = "colon" /\ Take /\ Return("key", "KEY") /\ UNCHANGED stack
    BY <1>2 DEF Colon
  <2>2. Text!Emit("key", "value") /\ UNCHANGED allow
    BY <2>1, ReturnIsText
  <2>3. Text!CanColon
    BY <2>1, PlainView, TextPlaces DEF Text!CanColon, ReadingStep
  <2> QED BY <2>1, <2>2, <2>3, PlainView, TakenText DEF Text!Colon
<1> QED BY <1>1, <1>2

LEMMA ValuesAreText ==
  ASSUME ReadingStep
  PROVE  /\ Scalar /\ pc' # "aborted" => Text!Scalar
         /\ \A type \in Containers : Open(type) => Text!Start(type)
<1>1. AtValue => Text!ValueDue
  BY TextPlaces DEF AtValue, In, ReadingStep
<1>2. ASSUME Scalar, pc' # "aborted" PROVE Text!Scalar
  <2>1. /\ AtValue /\ look \in Scalars /\ Take /\ UNCHANGED stack
        /\ state_change_value(pstate) # "invalid" /\ Return("value", state_change_value(pstate))
    BY <1>2 DEF Scalar
  <2>2. state_change_value(pstate) \in {"KEY_VALUE", "ARRAY_VALUE", "DONE"}
    BY <2>1 DEF state_change_value
  <2>3. Text!Emit("value", "sep") /\ UNCHANGED allow
    BY <2>1, <2>2, ReturnIsText
  <2> QED BY <1>1, <2>1, <2>3, PlainView, TakenText, SameText DEF Text!Scalar, Text!CanScalar
<1>3. ASSUME NEW type \in Containers, Open(type) PROVE Text!Start(type)
  <2> DEFINE e == StartEvent[type]
             s == IF type = "object" THEN "OBJECT" ELSE "ARRAY"
  <2>1. /\ AtValue /\ look = Opener[type] /\ ~Full /\ Take /\ stack' = Opened(stack, type)
        /\ Return(e, s)
    BY <1>3 DEF Open
  <2>2. s \in {"OBJECT", "ARRAY"} /\ e = Text!StartEvent[type]
    BY SameText
  <2>3. Len(stack) < MaxNesting
    BY <2>1, PullAssumption DEF Full, ReadingStep, Reading, Inv, TypeOK
  <2>4. Text!CanOpen(type)
    BY <1>1, <2>1, <2>3, PlainView, SameText DEF Text!CanOpen
  <2> HIDE DEF e, s
  <2>5. Text!Emit(e, "first") /\ UNCHANGED allow
    BY <2>1, <2>2, ReturnIsText
  <2> QED BY <2>1, <2>2, <2>4, <2>5, PlainView, TakenText, SameText DEF Text!Start
<1> QED BY <1>2, <1>3

LEMMA TextEndsAreText ==
  ASSUME ReadingStep
  PROVE  /\ Another => Text!Another
         /\ EndOfText => Text!Accept
<1>1. ASSUME Another PROVE Text!Another
  <2>1. pc = "running" /\ Go("START") /\ NotTaken
    BY <1>1 DEF Another, In
  <2>2. Text!Silent("value") /\ ReadOpen' = ReadOpen /\ UNCHANGED allow
    BY <2>1, GoIsText
  <2>3. Text!CanAnother
    BY <1>1, PlainView, TextPlaces DEF Another, Text!CanAnother, ReadingStep
  <2> QED BY <2>1, <2>2, <2>3, PlainView DEF Text!Another, NotTaken
<1>2. ASSUME EndOfText PROVE Text!Accept
  <2>1. Text!CanAccept
    BY <1>2, PlainView, TextPlaces DEF EndOfText, Text!CanAccept, ReadingStep
  <2>2. /\ result' = "eof" /\ ~retried' /\ pc' = "idle" /\ UNCHANGED <<allow, stack, event, look>>
    BY <1>2 DEF EndOfText, NotTaken, ReadingStep
  <2>3. Need' = "nothing"
    BY <2>2 DEF Need
  <2> QED BY <2>1, <2>2, <2>3, PlainView DEF Text!Accept, Text!Finish
<1> QED BY <1>1, <1>2

(* An error ends what there is to read, at the latest.                     *)
LEMMA ThrowFinishes ==
  ASSUME Inv, ~retried, ~retried', Throw, Take \/ NotTaken
  PROVE  Text!Finish("error") /\ ReadLook' \in Text!Lookaheads(allow)
<1>1. /\ pc' = "idle" /\ result' = "error" /\ UNCHANGED <<allow, stack, event>>
      /\ look' \in Lookaheads(allow)
  BY TakeFacts DEF Throw, Inv
<1>2. Need' = "nothing"
  BY <1>1 DEF Need
<1> QED BY <1>1, <1>2, SameText
        DEF Text!Finish, ReadLook, ReadOpen, ReadEvent, ReadResult

LEMMA TextStep ==
  ASSUME Inv, ~retried => Before, [Next]_vars
  PROVE  [Text!Next]_(Text!vars)
<1> USE DEF Text!vars
<1>1. CASE retried
  <2>1. allow' = allow /\ retried'
    BY <1>1, AllowKept
  <2>2. /\ ReadLook = "end" /\ ReadOpen = <<>> /\ ReadEvent = "none" /\ ReadResult = "none"
        /\ ReadLook' = "end" /\ ReadOpen' = <<>> /\ ReadEvent' = "none" /\ ReadResult' = "none"
    BY <1>1, <2>1 DEF ReadLook, ReadOpen, ReadEvent, ReadResult
  <2>3. Need = "value" /\ Need' = "value"
    BY <1>1, <2>1 DEF Need
  <2> QED BY <2>1, <2>2, <2>3
<1>2. CASE ~retried /\ jsnpg_parse_next
  <2>1. CASE result = "error"
    <3>1. retried' /\ allow' = allow
      BY <1>2, <2>1 DEF jsnpg_parse_next
    <3>2. ReadResult = "error" /\ ReadEvent' = "none"
      BY <1>2, <2>1, <3>1 DEF ReadResult, ReadEvent
    <3>3. allow' \in SUBSET Flags /\ "end" \in Lookaheads(allow')
      BY <3>1 DEF Inv, TypeOK, Lookaheads, Tokens
    <3>4. Need' = "value" /\ ReadLook' = "end" /\ ReadOpen' = <<>> /\ ReadResult' = "none"
      BY <3>1 DEF Need, ReadLook, ReadOpen, ReadResult
    <3>5. Text!Fresh
      BY <3>3, <3>4, SameText DEF Text!Fresh
    <3> QED BY <3>2, <3>5 DEF Text!Next, Text!Again
  <2>2. CASE result # "error"
    <3>1. /\ ~retried' /\ pc = "idle" /\ pc' = "running" /\ state' = pstate
          /\ UNCHANGED <<allow, look, pstate, stack, event, result>>
      BY <1>2, <2>2 DEF jsnpg_parse_next
    <3>2. /\ result # "none" => Need = "nothing" /\ Need' = "nothing"
          /\ result = "none" => Need = NeedIn(pstate) /\ Need' = NeedIn(pstate)
      BY <1>2, <3>1 DEF Need, NeedIn
    <3> QED BY <1>2, <3>1, <3>2 DEF ReadLook, ReadOpen, ReadEvent, ReadResult
  <2> QED BY <2>1, <2>2
<1>3. CASE ~retried /\ parse_next /\ result = "none"
  <2>1. Calling
    BY <1>3 DEF parse_next, EndObject, EndArray, Comma, MissingComma, Key, Colon, Another, EndOfText,
                Scalar, Error, ErrorBehind, Open, AtKey, AtValue, In, Calling
  <2>2. ReadingStep /\ ReadResult = "none"
    BY <1>3, <2>1 DEF ReadingStep, Reading, parse_next, ReadResult
  <2>3. CASE Scalar /\ pc' = "aborted"
    <3>1. state_change_value(pstate) = "invalid" /\ pc = "running"
      BY <2>3 DEF Scalar, Return, AtValue, In
    <3>2. /\ ~retried' /\ UNCHANGED <<allow, pstate, state, stack, event, result, look>>
      BY <2>2, <2>3, <3>1 DEF Scalar, NotTaken, ReadingStep
    <3>3. Need = NeedIn(state) /\ Need' = NeedIn(state)
      BY <1>3, <2>3, <3>1, <3>2 DEF Need, NeedIn
    <3> QED BY <1>3, <3>2, <3>3 DEF ReadLook, ReadOpen, ReadEvent, ReadResult
  <2>4. CASE Error \/ ErrorBehind
    <3>1. Throw /\ (Take \/ NotTaken) /\ ~Text!Legal
      BY <2>2, <2>4, ErrorsAreIllegal DEF Error, ErrorBehind, ReadingStep
    <3>2. Text!Reject
      BY <1>3, <2>2, <3>1, ThrowFinishes DEF Text!Reject, ReadingStep
    <3> QED BY <2>2, <3>2 DEF Text!Next, Text!Parsing
  <2>5. CASE ~(Scalar /\ pc' = "aborted") /\ ~(Error \/ ErrorBehind)
    <3>1. \/ Text!Scalar \/ Text!Key \/ Text!Colon \/ Text!Comma \/ Text!SkipComma
          \/ Text!Another \/ Text!Accept
          \/ \E type \in Containers : Text!Start(type) \/ Text!End(type)
      BY <1>3, <2>2, <2>5, EndsAreText, CommasAreText, KeysAreText, ValuesAreText, TextEndsAreText
         DEF parse_next, Containers
    <3> QED BY <2>2, <3>1, SameText DEF Text!Next, Text!Parsing
  <2> QED BY <2>3, <2>4, <2>5
<1>4. CASE ~retried /\ parse_next /\ result # "none"
  <2>1. Calling
    BY <1>4 DEF parse_next, EndObject, EndArray, Comma, MissingComma, Key, Colon, Another, EndOfText,
                Scalar, Error, ErrorBehind, Open, AtKey, AtValue, In, Calling
  <2>2. result = "eof" /\ pstate = "EOF" /\ ~retried'
    BY <1>4, <2>1 DEF Before, Inv, TypeOK, parse_next
  <2>3. pc = "running" /\ state = "EOF"
    BY <2>1, <2>2 DEF Inv, StateFitsStack, LocalStates, Calling
  <2>4. Error \/ ErrorBehind
    BY <1>4, <2>3 DEF parse_next, EndObject, EndArray, Comma, MissingComma, Key, Colon, Another, EndOfText,
                      Scalar, Open, AtKey, AtValue, In
  <2>5. Text!PastEnd
    BY <1>4, <2>2, <2>4, ThrowFinishes DEF Error, ErrorBehind, Text!PastEnd, ReadResult
  <2> QED BY <2>5 DEF Text!Next
<1>5. CASE ~retried /\ UNCHANGED vars
  BY <1>5 DEF vars, ReadLook, ReadOpen, ReadEvent, ReadResult, Need, NeedIn
<1> QED BY <1>1, <1>2, <1>3, <1>4, <1>5 DEF Next

(* Up to the first error a caller is given the items of the text: but for  *)
(* the comma between two members of an object, an error is returned        *)
(* exactly where the text leaves the token grammar.                        *)
THEOREM ReadsText == Spec => ImplementsText
<1>1. Init => Text!Init
  BY SameText DEF Init, Text!Init, Need, NeedIn, ReadLook, ReadOpen, ReadEvent, ReadResult
<1>2. Inv /\ (~retried => Before) /\ [Next]_vars => [Text!Next]_(Text!vars)
  BY TextStep
<1> QED BY <1>1, <1>2, InvAlways, BeforeAlways, PTL DEF Spec, ImplementsText, Text!Spec
=============================================================================
