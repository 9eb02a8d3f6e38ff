-------------------------- MODULE SaxParserProofs --------------------------
(***************************************************************************)
(* Proofs about the SAX parser and the generator it drives, for every      *)
(* nesting that either is created with, every text and every flag.         *)
(***************************************************************************)
EXTENDS SaxParser, SequenceTheorems, TLAPS

(* A container that is opened is the innermost one.                        *)
LEMMA OpenedFacts ==
  ASSUME NEW s \in Seq(Containers), NEW type \in Containers
  PROVE  /\ Opened(s, type) \in Seq(Containers)
         /\ Len(Opened(s, type)) = Len(s) + 1
         /\ Peek(Opened(s, type)) = type
<1>1. /\ Append(s, type) \in Seq(Containers)
      /\ Len(Append(s, type)) = Len(s) + 1
      /\ Append(s, type)[Len(s) + 1] = type
  OBVIOUS
<1>2. Append(s, type) # <<>>
  BY <1>1
<1> QED BY <1>1, <1>2 DEF Opened, Peek, Last

(* Closing needs something that is open, and leaves one level less.        *)
LEMMA ClosedFacts ==
  ASSUME NEW s \in Seq(Containers), s # <<>>
  PROVE  /\ Closed(s) \in Seq(Containers)
         /\ Len(Closed(s)) = Len(s) - 1
<1>1. PICK n \in Nat \ {0} : n = Len(s) /\ \A i \in 1..(n - 1) : s[i] \in Containers
  BY EmptySeq, LenProperties
<1>2. /\ SubSeq(s, 1, n - 1) \in Seq(Containers)
      /\ Len(SubSeq(s, 1, n - 1)) = n - 1
  BY <1>1, SubSeqProperties
<1> QED BY <1>1, <1>2 DEF Closed, Front

(* The innermost container is an answer only when there is one.            *)
LEMMA PeekFacts ==
  ASSUME NEW s \in Seq(Containers)
  PROVE  /\ Peek(s) \in Containers \cup {"none"}
         /\ Peek(s) \in Containers => s # <<>>
<1>1. CASE s = <<>>
  BY <1>1 DEF Peek, Containers
<1>2. CASE s # <<>>
  BY <1>2 DEF Peek, Last
<1> QED BY <1>1, <1>2

-----------------------------------------------------------------------------

(* The generator of a parse begins with nothing open: it is made for the   *)
(* parse, or the caller keeps none in which something has been left open.  *)
FreshGenerator == GenSize = 0 \/ ~ReuseOpen

(* What holds while a parse runs.                                          *)
InParse ==
  /\ stack_type = Peek(stack)
  /\ pc = "enter" => stack = <<>>
  /\ pc \in {"opened", "lone"} => stack_type \in Containers
  /\ pc \in {"colon", "value"} => stack_type = "object"
  /\ result = "none" /\ code = "none" /\ failed = "none"
  /\ error = "none" \/ (GenSize = 0 /\ error = "garbage")
  /\ FreshGenerator /\ GenSize > 0 =>
       /\ gstack = stack
       /\ key_next <=> (stack_type = "object" /\ pc # "value")

(* What a parse that ended well leaves, and one that failed.               *)
WellEnded ==
  /\ result = "eof" /\ code = "none" /\ failed = "none"
  /\ stack = <<>>
  /\ FreshGenerator => gstack = <<>> /\ ~key_next

Failed ==
  /\ result = "error"
  /\ Explained

(* A generator that tracks nothing never has anything open, and one that   *)
(* the caller has reset knows its own errors only.  A key is expected only *)
(* where the innermost container is an object, so that a generator with    *)
(* nothing open is as good as new, whatever happened to it before.         *)
GeneratorKind ==
  /\ key_next => Peek(gstack) = "object"
  /\ GenSize = 0 => gstack = <<>> /\ ~key_next
  /\ GenSize > 0 => error # "garbage"

Inv ==
  /\ TypeOK
  /\ Running => InParse
  /\ pc = "idle" => WellEnded \/ Failed
  /\ pc = "aborted" <=> status = "aborted"
  /\ GeneratorKind

-----------------------------------------------------------------------------
(* The nesting of the generator is that of the parser.                     *)
LEMMA SameNesting ==
  /\ Gen!Containers = Containers
  /\ \A s : Gen!Peek(s) = Peek(s) /\ Gen!Closed(s) = Closed(s)
  /\ \A s, type : Gen!Opened(s, type) = Opened(s, type)
BY DEF Gen!Containers, Containers, Gen!Peek, Peek, Gen!Last, Last, Gen!Closed, Closed,
       Gen!Front, Front, Gen!Opened, Opened

(* What an event does to the generator, if its check may holds and it      *)
(* leads to the nesting s and to key_next k.                               *)
Outcome(e, may, s, k) ==
  /\ status = "ready"
  /\ \/ ~may /\ status' = "aborted" /\ UNCHANGED <<gstack, key_next, error, returned, failed>>
     \/ /\ may /\ status' = "ready" /\ gstack' = s /\ key_next' = k
        /\ \/ returned' = TRUE /\ UNCHANGED <<error, failed>>
           \/ returned' = FALSE /\ failed' = "silent" /\ error' = error
           \/ returned' = FALSE /\ failed' = "utf8" /\ error' = "utf8"
  /\ event' = e

GenEvents == {"value", "key", "start_array", "end_array", "start_object", "end_object"}

GTop == Peek(gstack)
GMayValue == ~(GenSize > 0 /\ GTop = "object" /\ key_next)

LEMMA ValueOutcome ==
  ASSUME Gen!jsnpg_value, TypeOK
  PROVE  Outcome("value", GMayValue, gstack, key_next \/ (GenSize > 0 /\ GTop = "object"))
BY SameNesting
   DEF Gen!jsnpg_value, Gen!Offer, Gen!can_value, Gen!MayValue, Gen!Callback, Gen!Abort,
       Gen!Tracking, Gen!Top, Outcome, GMayValue, GTop, TypeOK, Gen!TypeOK

LEMMA KeyOutcome ==
  ASSUME Gen!jsnpg_key, TypeOK
  PROVE  Outcome("key", GenSize > 0 => key_next, gstack, FALSE)
BY DEF Gen!jsnpg_key, Gen!Offer, Gen!can_key, Gen!MayKey, Gen!Callback, Gen!Abort,
       Gen!Tracking, Outcome

LEMMA StartOutcome ==
  ASSUME NEW type \in Containers, jsnpg_start(type), TypeOK
  PROVE  Outcome(StartEvent[type], GMayValue /\ (GenSize > 0 => Len(gstack) < GenSize),
                 IF GenSize > 0 THEN Opened(gstack, type) ELSE gstack,
                 IF GenSize > 0 THEN type = "object" ELSE key_next)
<1>1. CASE type = "object" /\ Gen!jsnpg_start_object
  BY <1>1, SameNesting
     DEF Gen!jsnpg_start_object, Gen!Offer, Gen!can_push, Gen!MayPush, Gen!MayValue,
         Gen!Callback, Gen!Abort, Gen!Tracking, Gen!Top, Outcome, GMayValue, GTop, StartEvent
<1>2. CASE type = "array" /\ Gen!jsnpg_start_array
  BY <1>2, SameNesting
     DEF Gen!jsnpg_start_array, Gen!Offer, Gen!can_push, Gen!MayPush, Gen!MayValue,
         Gen!Callback, Gen!Abort, Gen!Tracking, Gen!Top, Outcome, GMayValue, GTop, StartEvent
<1> QED BY <1>1, <1>2 DEF jsnpg_start, Containers

LEMMA EndOutcome ==
  ASSUME NEW type \in Containers, jsnpg_end(type), TypeOK
  PROVE  Outcome(EndEvent[type], GenSize > 0 => GTop = type /\ (type = "object" => key_next),
                 IF GenSize > 0 THEN Closed(gstack) ELSE gstack,
                 IF GenSize > 0 THEN Peek(Closed(gstack)) = "object" ELSE key_next)
<1>1. CASE type = "object" /\ Gen!jsnpg_end_object
  BY <1>1, SameNesting
     DEF Gen!jsnpg_end_object, Gen!Offer, Gen!can_pop, Gen!MayPop,
         Gen!Callback, Gen!Abort, Gen!Tracking, Gen!Top, Outcome, GTop, EndEvent
<1>2. CASE type = "array" /\ Gen!jsnpg_end_array
  BY <1>2, SameNesting
     DEF Gen!jsnpg_end_array, Gen!Offer, Gen!can_pop, Gen!MayPop,
         Gen!Callback, Gen!Abort, Gen!Tracking, Gen!Top, Outcome, GTop, EndEvent
<1> QED BY <1>1, <1>2 DEF jsnpg_end, Containers

-----------------------------------------------------------------------------
(* An event leads on to the place next, in which the innermost container   *)
(* is type; or the generator ends the parse, or an assertion the program.  *)
LEMMA Delivered ==
  ASSUME Inv, Running, NEW e \in GenEvents, NEW may, NEW s, NEW k \in BOOLEAN,
         NEW next, NEW type,
         Outcome(e, may, s, k),
         \/ status' = "ready" /\ returned' /\ Take /\ Continue(next) /\ stack_type' = type
         \/ status' = "ready" /\ ~returned' /\ Terminated
         \/ /\ status' = "aborted" /\ pc' = "aborted"
            /\ UNCHANGED <<allow, look, stack_type, result, code, taken>>,
         stack' \in Seq(Containers), Len(stack') <= MaxNesting, type = Peek(stack'),
         next \in {"opened", "value", "after"},
         next = "opened" => type \in Containers,
         next = "value" => type = "object",
         may => s \in Seq(Containers) /\ Len(s) <= GenSize,
         may /\ GenSize = 0 => s = <<>> /\ ~k,
         may /\ k => Peek(s) = "object",
         may /\ FreshGenerator /\ GenSize > 0
           => s = stack' /\ (k <=> (type = "object" /\ next # "value"))
  PROVE  Inv'
<1>1. /\ event' \in {"none", "value", "key", "start_array", "end_array", "start_object", "end_object"}
      /\ status' \in {"ready", "aborted"}
  BY DEF Outcome, GenEvents
<1>2. CASE ~may
  <2>1. /\ status' = "aborted" /\ pc' = "aborted" /\ UNCHANGED <<allow, look, stack_type, result, code, taken>>
        /\ UNCHANGED <<gstack, key_next, error, returned, failed>>
    BY <1>2 DEF Outcome
  <2>2. TypeOK'
    BY <1>1, <2>1 DEF Inv, TypeOK, Gen!TypeOK
  <2> QED BY <2>1, <2>2 DEF Inv, GeneratorKind, Running
<1>3. CASE may
  <2>1. /\ status' = "ready" /\ gstack' = s /\ key_next' = k
        /\ \/ returned' = TRUE /\ UNCHANGED <<error, failed>>
           \/ returned' = FALSE /\ failed' = "silent" /\ error' = error
           \/ returned' = FALSE /\ failed' = "utf8" /\ error' = "utf8"
    BY <1>3 DEF Outcome
  <2>2. Gen!TypeOK'
    BY <1>1, <1>3, <2>1, SameNesting DEF Inv, TypeOK, Gen!TypeOK
  <2>3. GeneratorKind'
    BY <1>3, <2>1 DEF Inv, GeneratorKind
  <2>4. CASE returned' = TRUE
    <3>1. Take /\ Continue(next) /\ stack_type' = type /\ UNCHANGED <<error, failed>>
      BY <2>1, <2>4
    <3>2. /\ allow' = allow /\ look' \in Lookaheads(allow) /\ taken' \in BOOLEAN
          /\ pc' = next /\ UNCHANGED <<result, code>>
      BY <3>1 DEF Take, Continue, Inv, TypeOK
    <3>3. type \in Containers \cup {"none"}
      BY PeekFacts
    <3>4. TypeOK'
      BY <2>2, <3>1, <3>2, <3>3 DEF Inv, TypeOK
    <3>5. InParse'
      BY <1>3, <2>1, <3>1, <3>2 DEF Inv, InParse
    <3> QED BY <2>1, <2>3, <3>2, <3>4, <3>5 DEF Inv, Running
  <2>5. CASE returned' = FALSE
    <3>1. /\ Terminated
          /\ \/ failed' = "silent" /\ error' = error
             \/ failed' = "utf8" /\ error' = "utf8"
      BY <2>1, <2>5
    <3>2. /\ pc' = "idle" /\ result' = "error" /\ UNCHANGED <<allow, look, stack_type, taken>>
          /\ code' = IF error' # "none" THEN error' ELSE "TERMINATED"
      BY <3>1 DEF Terminated, ThrowCode
    <3>3. code' \in {"TERMINATED", "utf8", "garbage"}
      BY <3>1, <3>2 DEF Inv, TypeOK, Gen!TypeOK
    <3>4. TypeOK'
      BY <2>2, <3>2, <3>3 DEF Inv, TypeOK
    <3>5. Failed'
      BY <1>3, <3>1, <3>2 DEF Inv, InParse, Failed, Explained
    <3> QED BY <2>1, <2>3, <3>2, <3>4, <3>5 DEF Inv, Running
  <2> QED BY <2>1, <2>4, <2>5
<1> QED BY <1>2, <1>3 DEF Outcome

(* A step within the text that the generator does not hear of.             *)
LEMMA Silently ==
  ASSUME Inv, Running, UNCHANGED <<stack_type, stack, gvars>>,
         Take \/ UNCHANGED <<look, taken>>,
         NEW next, Continue(next),
         next \in {"enter", "lone", "colon", "comma"},
         next = "enter" => stack = <<>>,
         next = "lone" => stack_type \in Containers,
         next = "colon" => stack_type = "object",
         pc # "value"
  PROVE  Inv'
<1>1. /\ allow' = allow /\ look' \in Lookaheads(allow) /\ taken' \in BOOLEAN
      /\ pc' = next /\ UNCHANGED <<result, code>>
  BY DEF Take, Continue, Inv, TypeOK
<1>2. UNCHANGED <<gstack, key_next, error, event, status, returned, failed>>
  BY DEF gvars
<1>3. TypeOK'
  BY <1>1, <1>2 DEF Inv, TypeOK, Gen!TypeOK
<1>4. InParse'
  BY <1>1, <1>2 DEF Inv, InParse
<1> QED BY <1>1, <1>2, <1>3, <1>4 DEF Inv, GeneratorKind, Running

(* An error of the text ends the parse; the generator is left as it is.    *)
LEMMA Throws ==
  ASSUME Inv, Running, NEW c \in {"EXPECTED_KEY", "UNEXPECTED", "STACK_OVERFLOW", "BAD_TOKEN"}, Throw(c)
  PROVE  Inv'
<1>1. /\ pc' = "idle" /\ result' = "error" /\ code' = c
      /\ UNCHANGED <<allow, look, stack_type, taken, stack>>
      /\ UNCHANGED <<gstack, key_next, error, event, status, returned, failed>>
  BY DEF Throw, ThrowCode, gvars
<1>2. TypeOK'
  BY <1>1 DEF Inv, TypeOK, Gen!TypeOK
<1>3. Failed'
  BY <1>1 DEF Inv, InParse, Failed, Explained, ParserCodes
<1> QED BY <1>1, <1>2, <1>3 DEF Inv, GeneratorKind, Running

-----------------------------------------------------------------------------
(* The actions of parse_generate.                                          *)
LEMMA RunningFacts ==
  ASSUME Inv, Running
  PROVE  /\ InParse
         /\ stack \in Seq(Containers) /\ Len(stack) \in Nat /\ Len(stack) <= MaxNesting
         /\ gstack \in Seq(Containers) /\ Len(gstack) \in Nat /\ Len(gstack) <= GenSize
         /\ key_next \in BOOLEAN /\ stack_type \in Containers \cup {"none"}
         /\ stack_type \in Containers => stack # <<>>
         /\ GenSize = 0 => gstack = <<>> /\ ~key_next
         /\ key_next => Peek(gstack) = "object"
<1>1. stack \in Seq(Containers) /\ gstack \in Seq(Containers)
  BY SameNesting DEF Inv, TypeOK, Gen!TypeOK
<1>2. stack_type \in Containers => stack # <<>>
  BY <1>1, PeekFacts DEF Inv, InParse
<1> QED BY <1>1, <1>2 DEF Inv, TypeOK, Gen!TypeOK, GeneratorKind

(* Only when nothing is open there is no innermost container.              *)
LEMMA LastOpen ==
  ASSUME NEW s \in Seq(Containers), s # <<>>
  PROVE  Peek(s) \in Containers
<1>1. Len(s) \in 1..Len(s)
  BY EmptySeq
<1> QED BY <1>1 DEF Peek, Last

LEMMA KeyKeeps == ASSUME Inv, Running, Key PROVE Inv'
BY Silently DEF Key, AtKey, AtTop

LEMMA ColonKeeps == ASSUME Inv, Running, Colon PROVE Inv'
<1>1. /\ pc = "colon" /\ UNCHANGED stack
      /\ Gen!jsnpg_key
      /\ \/ status' = "ready" /\ returned' /\ Take /\ Continue("value") /\ UNCHANGED stack_type
         \/ status' = "ready" /\ ~returned' /\ Terminated
         \/ /\ status' = "aborted" /\ pc' = "aborted"
            /\ UNCHANGED <<allow, look, stack_type, result, code, taken>>
  BY DEF Colon, Deliver
<1> DEFINE may == GenSize > 0 => key_next
           k == FALSE
<1>2. Outcome("key", may, gstack, k) /\ k \in BOOLEAN /\ ~k /\ "key" \in GenEvents
  BY <1>1, KeyOutcome DEF Inv, GenEvents
<1>3. stack_type = "object" /\ stack_type = Peek(stack')
  BY <1>1, RunningFacts DEF InParse
<1>4. /\ gstack \in Seq(Containers) /\ Len(gstack) <= GenSize
      /\ stack' \in Seq(Containers) /\ Len(stack') <= MaxNesting
      /\ GenSize = 0 => gstack = <<>>
      /\ FreshGenerator /\ GenSize > 0 => gstack = stack'
  BY <1>1, RunningFacts DEF InParse
<1> HIDE DEF may, k
<1> QED BY <1>1, <1>2, <1>3, <1>4, Delivered

LEMMA ScalarKeeps == ASSUME Inv, Running, Scalar PROVE Inv'
<1>1. /\ AtValue /\ UNCHANGED stack
      /\ Gen!jsnpg_value
      /\ \/ status' = "ready" /\ returned' /\ Take /\ Continue("after") /\ UNCHANGED stack_type
         \/ status' = "ready" /\ ~returned' /\ Terminated
         \/ /\ status' = "aborted" /\ pc' = "aborted"
            /\ UNCHANGED <<allow, look, stack_type, result, code, taken>>
  BY DEF Scalar, Deliver
<1> DEFINE k == key_next \/ (GenSize > 0 /\ GTop = "object")
<1>2. Outcome("value", GMayValue, gstack, k) /\ k \in BOOLEAN /\ "value" \in GenEvents
  BY <1>1, ValueOutcome, RunningFacts DEF Inv, GenEvents
<1>3. stack_type = Peek(stack') /\ (pc = "value" => stack_type = "object")
  BY <1>1, RunningFacts DEF InParse
<1>4. GenSize = 0 => gstack = <<>> /\ ~k
  BY RunningFacts
<1>5. FreshGenerator /\ GenSize > 0 => gstack = stack' /\ (k <=> stack_type = "object")
  BY <1>1, <1>3, RunningFacts DEF InParse, GTop, AtValue
<1>6. k => Peek(gstack) = "object"
  BY RunningFacts DEF GTop
<1> HIDE DEF k
<1> QED BY <1>1, <1>2, <1>3, <1>4, <1>5, <1>6, RunningFacts, Delivered

LEMMA OpenKeeps ==
  ASSUME Inv, Running, NEW type \in Containers, Open(type)
  PROVE  Inv'
<1>1. /\ AtValue /\ ~Full /\ stack' = Opened(stack, type)
      /\ jsnpg_start(type)
      /\ \/ status' = "ready" /\ returned' /\ Take /\ Continue("opened") /\ stack_type' = type
         \/ status' = "ready" /\ ~returned' /\ Terminated
         \/ /\ status' = "aborted" /\ pc' = "aborted"
            /\ UNCHANGED <<allow, look, stack_type, result, code, taken>>
  BY DEF Open, Deliver
<1> DEFINE e == StartEvent[type]
           may == GMayValue /\ (GenSize > 0 => Len(gstack) < GenSize)
           s == IF GenSize > 0 THEN Opened(gstack, type) ELSE gstack
           k == IF GenSize > 0 THEN type = "object" ELSE key_next
<1>2. Outcome(e, may, s, k) /\ e \in GenEvents
  BY <1>1, StartOutcome DEF Inv, GenEvents, StartEvent, Containers
<1>3. /\ stack' \in Seq(Containers) /\ Len(stack') <= MaxNesting
      /\ Peek(stack') = type
  BY <1>1, RunningFacts, OpenedFacts, SaxAssumption DEF Full
<1>4. may => s \in Seq(Containers) /\ Len(s) <= GenSize
  BY RunningFacts, OpenedFacts, SaxAssumption
<1>5. GenSize = 0 => s = <<>> /\ ~k
  BY RunningFacts
<1>6. FreshGenerator /\ GenSize > 0 => s = stack' /\ (k <=> type = "object")
  BY <1>1, RunningFacts DEF InParse
<1>7. k \in BOOLEAN
  BY RunningFacts
<1>8. k => Peek(s) = "object"
  BY RunningFacts, OpenedFacts
<1> HIDE DEF e, may, s, k
<1> QED BY <1>1, <1>2, <1>3, <1>4, <1>5, <1>6, <1>7, <1>8, Delivered

LEMMA CloseKeeps ==
  ASSUME Inv, Running, NEW type \in Containers, Close(type)
  PROVE  Inv'
<1>0. SUFFICES ASSUME NEW t, t = Peek(stack') PROVE Inv'
  OBVIOUS
<1>1. /\ stack_type = type /\ stack' = Closed(stack)
      /\ jsnpg_end(type)
      /\ \/ status' = "ready" /\ returned' /\ Take /\ Continue("after") /\ stack_type' = Peek(stack')
         \/ status' = "ready" /\ ~returned' /\ Terminated
         \/ /\ status' = "aborted" /\ pc' = "aborted"
            /\ UNCHANGED <<allow, look, stack_type, result, code, taken>>
  BY DEF Close, Deliver, TypeAfterPop
<1> DEFINE e == EndEvent[type]
           may == GenSize > 0 => GTop = type /\ (type = "object" => key_next)
           s == IF GenSize > 0 THEN Closed(gstack) ELSE gstack
           k == IF GenSize > 0 THEN Peek(Closed(gstack)) = "object" ELSE key_next
<1>2. Outcome(e, may, s, k) /\ e \in GenEvents
  BY <1>1, EndOutcome DEF Inv, GenEvents, EndEvent, Containers
<1>3. stack' \in Seq(Containers) /\ Len(stack') <= MaxNesting
  BY <1>1, RunningFacts, ClosedFacts, SaxAssumption
<1>4. may => s \in Seq(Containers) /\ Len(s) <= GenSize
  <2>1. may /\ GenSize > 0 => gstack # <<>>
    BY RunningFacts, PeekFacts DEF GTop
  <2> QED BY <2>1, RunningFacts, ClosedFacts, SaxAssumption
<1>5. GenSize = 0 => s = <<>> /\ ~k
  BY RunningFacts
<1>6. FreshGenerator /\ GenSize > 0 => s = stack' /\ (k <=> t = "object")
  BY <1>0, <1>1, RunningFacts DEF InParse
<1>7. k \in BOOLEAN
  BY RunningFacts
<1>8. \/ status' = "ready" /\ returned' /\ Take /\ Continue("after") /\ stack_type' = t
      \/ status' = "ready" /\ ~returned' /\ Terminated
      \/ /\ status' = "aborted" /\ pc' = "aborted"
         /\ UNCHANGED <<allow, look, stack_type, result, code, taken>>
  BY <1>0, <1>1
<1>9. k => Peek(s) = "object"
  BY RunningFacts
<1> HIDE DEF e, may, s, k
<1> QED BY <1>0, <1>2, <1>3, <1>4, <1>5, <1>6, <1>7, <1>8, <1>9, Delivered

LEMMA LoneCommaKeeps == ASSUME Inv, Running, LoneCommaTaken PROVE Inv'
BY Silently, RunningFacts DEF LoneCommaTaken, LoneComma, InParse

LEMMA CommaKeeps == ASSUME Inv, Running, Comma PROVE Inv'
BY Silently DEF Comma

LEMMA EndOfTextKeeps == ASSUME Inv, Running, EndOfText PROVE Inv'
<1>1. /\ stack_type = "none" /\ pc \in {"after", "comma"}
      /\ UNCHANGED <<allow, look, stack_type, stack, taken>>
      /\ UNCHANGED <<gstack, key_next, error, event, status, returned, failed>>
  BY DEF EndOfText, AtEnd, AtSeparator, gvars
<1>2. stack = <<>>
  <2>1. ASSUME stack # <<>> PROVE Peek(stack) \in Containers
    BY <2>1, RunningFacts, LastOpen
  <2> QED BY <1>1, <2>1, RunningFacts DEF InParse, Containers
<1>3. CASE pc' = "enter" /\ UNCHANGED <<result, code>>
  BY <1>1, <1>2, <1>3, Silently DEF Continue, gvars
<1>4. CASE pc' = "idle" /\ result' = "eof" /\ UNCHANGED code
  <2>1. TypeOK'
    BY <1>1, <1>4 DEF Inv, TypeOK, Gen!TypeOK
  <2>2. WellEnded'
    BY <1>1, <1>2, <1>4, RunningFacts, SaxAssumption DEF WellEnded, InParse
  <2> QED BY <1>1, <1>4, <2>1, <2>2 DEF Inv, GeneratorKind, Running
<1> QED BY <1>3, <1>4 DEF EndOfText

LEMMA ErrorsKeep ==
  ASSUME Inv, Running, ExpectedKey \/ TooDeep \/ Unexpected \/ BadToken
  PROVE  Inv'
<1>1. \E c \in {"EXPECTED_KEY", "UNEXPECTED", "STACK_OVERFLOW", "BAD_TOKEN"} : Throw(c)
  BY DEF ExpectedKey, TooDeep, Unexpected, BadToken
<1> QED BY <1>1, Throws

LEMMA EmptyNesting ==
  <<>> \in Seq(Containers) /\ Len(<<>>) <= MaxNesting /\ Len(<<>>) <= GenSize
BY SaxAssumption

(* The next parse begins with a generator that has nothing open.           *)
LEMMA NextParseKeeps == ASSUME Inv, jsnpg_parse_opt PROVE Inv'
<1>1. /\ pc = "idle" /\ status = "ready"
      /\ allow' \subseteq Flags /\ look' \in Lookaheads(allow')
      /\ pc' = "enter" /\ stack_type' = "none" /\ stack' = <<>>
      /\ result' = "none" /\ code' = "none" /\ taken' = taken
  BY DEF jsnpg_parse_opt
<1>2. \/ /\ gstack' = <<>> /\ key_next' = FALSE
         /\ status' = "ready" /\ returned' = TRUE /\ failed' = "none" /\ event' = event
         /\ error' \in {"none", "garbage"} /\ (GenSize > 0 => error' = "none")
      \/ /\ GenSize > 0 /\ (gstack = <<>> \/ ReuseOpen)
         /\ error' = "none" /\ failed' = "none"
         /\ UNCHANGED <<gstack, key_next, event, status, returned>>
  BY SaxAssumption DEF jsnpg_parse_opt, NewGenerator, Gen!generator_reset
<1>4. TypeOK'
  <2>1. TRUE \in BOOLEAN /\ FALSE \in BOOLEAN
    OBVIOUS
  <2>2. gstack' \in Seq(Gen!Containers) /\ Len(gstack') <= GenSize
    BY <1>2, SameNesting, EmptyNesting DEF Inv, TypeOK, Gen!TypeOK
  <2>3. Gen!TypeOK'
    BY <1>2, <2>1, <2>2 DEF Inv, TypeOK, Gen!TypeOK
  <2>4. stack' \in Seq(Containers) /\ Len(stack') <= MaxNesting
    BY <1>1, EmptyNesting
  <2> QED BY <1>1, <2>3, <2>4 DEF Inv, TypeOK
<1>3. Peek(<<>>) = "none"
  BY DEF Peek
<1>5. FreshGenerator => gstack' = <<>> /\ ~key_next'
  BY <1>2, <1>3 DEF Inv, TypeOK, Gen!TypeOK, GeneratorKind, FreshGenerator
<1>6. InParse'
  BY <1>1, <1>2, <1>5, SaxAssumption DEF InParse, Peek
<1> QED BY <1>1, <1>2, <1>4, <1>6 DEF Inv, GeneratorKind, Running

LEMMA InitInv == Init => Inv
<1> SUFFICES ASSUME Init PROVE Inv
  OBVIOUS
<1>2. TypeOK
  <2>1. TRUE \in BOOLEAN /\ FALSE \in BOOLEAN
    OBVIOUS
  <2>2. gstack \in Seq(Gen!Containers) /\ Len(gstack) <= GenSize
    BY SameNesting, EmptyNesting DEF Init, Gen!Init
  <2>3. Gen!TypeOK
    BY <2>1, <2>2 DEF Init, Gen!Init, Gen!TypeOK
  <2>4. stack \in Seq(Containers) /\ Len(stack) <= MaxNesting
    BY EmptyNesting DEF Init
  <2> QED BY <2>1, <2>3, <2>4 DEF Init, TypeOK
<1>3. InParse
  BY SaxAssumption DEF Init, InParse, Peek, Gen!Init
<1> QED BY <1>2, <1>3 DEF Init, Gen!Init, Inv, GeneratorKind

LEMMA InvStep == ASSUME Inv, [Next]_vars PROVE Inv'
<1>1. CASE parse
  <2>1. Running
    BY <1>1 DEF parse, Running
  <2> QED BY <1>1, <2>1, KeyKeeps, ColonKeeps, ErrorsKeep, ScalarKeeps, LoneCommaKeeps, CommaKeeps,
             EndOfTextKeeps, OpenKeeps, CloseKeeps DEF parse, Step
<1>2. CASE jsnpg_parse_opt
  BY <1>2, NextParseKeeps
<1>3. CASE UNCHANGED vars
  <2>1. /\ UNCHANGED <<allow, look, pc, stack_type, stack, result, code, taken>>
        /\ UNCHANGED <<gstack, key_next, error, event, status, returned, failed>>
    BY <1>3 DEF vars, pvars, gvars
  <2>2. TypeOK'
    BY <2>1 DEF Inv, TypeOK, Gen!TypeOK
  <2> QED BY <2>1, <2>2 DEF Inv, InParse, WellEnded, Failed, Explained, GeneratorKind, Running
<1> QED BY <1>1, <1>2, <1>3 DEF Next

LEMMA InvAlways == Spec => []Inv
<1>1. Inv /\ [Next]_vars => Inv'
  BY InvStep
<1> QED BY <1>1, InitInv, PTL DEF Spec

-----------------------------------------------------------------------------
(* Whatever the text, the flags and the generator: every variable of a     *)
(* parse keeps its type, and neither stack grows beyond its bound.         *)
THEOREM TypeCorrect == Spec => []TypeOK
<1>1. Inv => TypeOK
  BY DEF Inv
<1> QED BY <1>1, InvAlways, PTL

(* The local stack_type of parse_generate names the innermost container of *)
(* the parser's stack whenever it is looked at.                            *)
THEOREM StackTypeKept == Spec => []StackTypeAgrees
<1>1. Inv => StackTypeAgrees
  BY DEF Inv, InParse, StackTypeAgrees, Running
<1> QED BY <1>1, InvAlways, PTL

(* The generator tracks the containers that the parser tracks, and expects *)
(* a key where the parser reads one, if it had nothing open at the start.  *)
THEOREM StaysInStep == FreshGenerator => (Spec => []GeneratorInStep)
<1> SUFFICES ASSUME FreshGenerator PROVE Spec => []GeneratorInStep
  OBVIOUS
<1>1. Inv => GeneratorInStep
  BY DEF Inv, InParse, GeneratorInStep
<1> QED BY <1>1, InvAlways, PTL

(* A parse that ends well has closed everything, in the generator too.     *)
THEOREM EndsWhole == FreshGenerator => (Spec => []WholeTexts)
<1> SUFFICES ASSUME FreshGenerator PROVE Spec => []WholeTexts
  OBVIOUS
<1>1. Inv => WholeTexts
  BY DEF Inv, WellEnded, Failed, WholeTexts
<1> QED BY <1>1, InvAlways, PTL

(* The code of every failed parse is of this parse and tells who ended it, *)
(* for generators of the caller and those made for opts.callbacks, and     *)
(* whether or not a generator is used again after a failure.  That code is *)
(* not always a listed one: the error of a generator made for              *)
(* opts.callbacks is never set, and stands for a callback that left none.  *)
THEOREM ExplainsFailure == Spec => []FailureExplained
<1>1. Inv => FailureExplained
  BY DEF Inv, WellEnded, Failed, FailureExplained
<1> QED BY <1>1, InvAlways, PTL

-----------------------------------------------------------------------------
(* A generator that has room for what the parser may open, and nothing     *)
(* open at the start, accepts every event of the parser.                   *)
Matched == FreshGenerator /\ (GenSize = 0 \/ MaxNesting <= GenSize)

LEMMA ColonPermitted ==
  ASSUME Matched, Inv, Running, Colon
  PROVE  GenSize > 0 => key_next
BY RunningFacts DEF Matched, Colon, InParse

LEMMA ValuePermitted ==
  ASSUME Matched, Inv, Running, AtValue
  PROVE  GMayValue
BY RunningFacts DEF Matched, AtValue, InParse, GMayValue, GTop

LEMMA StartPermitted ==
  ASSUME Matched, Inv, Running, AtValue, ~Full
  PROVE  GMayValue /\ (GenSize > 0 => Len(gstack) < GenSize)
<1>1. GenSize > 0 => Len(gstack) < GenSize
  BY RunningFacts, SaxAssumption DEF Matched, InParse, Full
<1> QED BY <1>1, ValuePermitted

LEMMA EndPermitted ==
  ASSUME Matched, Inv, Running, NEW type \in Containers, Close(type)
  PROVE  GenSize > 0 => GTop = type /\ (type = "object" => key_next)
BY RunningFacts DEF Matched, Close, InParse, GTop, EmptyEnd, AtSeparator

LEMMA NoAbort ==
  ASSUME Matched, Inv, Running, parse
  PROVE  status' # "aborted"
<1>0. status = "ready"
  BY DEF Inv, Running, TypeOK, Gen!TypeOK
<1>1. CASE Colon
  <2>1. Gen!jsnpg_key /\ TypeOK
    BY <1>1 DEF Colon, Deliver, Inv
  <2> QED BY <1>1, <2>1, ColonPermitted, KeyOutcome DEF Outcome
<1>2. CASE Scalar
  <2>1. Gen!jsnpg_value /\ TypeOK /\ AtValue
    BY <1>2 DEF Scalar, Deliver, Inv
  <2> QED BY <2>1, ValuePermitted, ValueOutcome DEF Outcome
<1>3. ASSUME NEW type \in Containers, Open(type) PROVE status' # "aborted"
  <2>1. jsnpg_start(type) /\ TypeOK /\ AtValue /\ ~Full
    BY <1>3 DEF Open, Deliver, Inv
  <2> QED BY <2>1, StartPermitted, StartOutcome DEF Outcome
<1>4. ASSUME NEW type \in Containers, Close(type) PROVE status' # "aborted"
  <2>1. jsnpg_end(type) /\ TypeOK
    BY <1>4 DEF Close, Deliver, Inv
  <2> QED BY <1>4, <2>1, EndPermitted, EndOutcome DEF Outcome
<1>5. CASE UNCHANGED gvars
  BY <1>0, <1>5 DEF gvars
<1> QED
  BY <1>1, <1>2, <1>3, <1>4, <1>5
  DEF parse, Step, Key, ExpectedKey, TooDeep, LoneCommaTaken, Comma, EndOfText,
      Unexpected, BadToken, Throw

(* The assertions of the generator hold whenever a parser drives it that   *)
(* nests no deeper than it does.                                           *)
THEOREM NeverAborted == Matched => (Spec => []NeverAborts)
<1> SUFFICES ASSUME Matched PROVE Spec => []NeverAborts
  OBVIOUS
<1>1. Init => NeverAborts
  BY DEF Init, Gen!Init, NeverAborts
<1>2. Inv /\ NeverAborts /\ [Next]_vars => NeverAborts'
  <2> SUFFICES ASSUME Inv, NeverAborts, [Next]_vars PROVE NeverAborts'
    OBVIOUS
  <2>1. CASE parse
    <3>1. Running
      BY <2>1 DEF parse, Running
    <3> QED BY <2>1, <3>1, NoAbort DEF NeverAborts
  <2>2. CASE jsnpg_parse_opt
    BY <2>2 DEF jsnpg_parse_opt, NewGenerator, Gen!generator_reset, NeverAborts
  <2>3. CASE UNCHANGED vars
    BY <2>3 DEF vars, gvars, NeverAborts
  <2> QED BY <2>1, <2>2, <2>3 DEF Next
<1> QED BY <1>1, <1>2, InvAlways, PTL DEF Spec

-----------------------------------------------------------------------------
(* The token grammar, step by step.                                        *)
LEMMA SameText ==
  /\ Text!Containers = Containers /\ Text!Flags = Flags
  /\ Text!Scalars = Scalars
  /\ Text!Opener = Opener /\ Text!Closer = Closer
  /\ Text!StartEvent = StartEvent /\ Text!EndEvent = EndEvent
  /\ \A a : Text!Lookaheads(a) = Lookaheads(a)
  /\ \A s : Text!Peek(s) = Peek(s) /\ Text!Closed(s) = Closed(s)
  /\ \A s, type : Text!Opened(s, type) = Opened(s, type)
<1>1. Text!BadScalars = BadScalars /\ Text!Scalars = Scalars
  BY DEF Text!BadScalars, BadScalars, Text!Scalars, Scalars
<1>2. \A a : Text!Lookaheads(a) = Lookaheads(a)
  BY <1>1 DEF Text!Lookaheads, Lookaheads, Text!Tokens, Tokens
<1> QED BY <1>1, <1>2
        DEF Text!Containers, Containers, Text!Flags, Flags, Text!Opener, Opener, Text!Closer, Closer,
            Text!StartEvent, StartEvent, Text!EndEvent, EndEvent,
            Text!Peek, Peek, Text!Last, Last, Text!Closed, Closed, Text!Front, Front,
            Text!Opened, Opened

(* What the grammar admits at a place of the parse loop.                   *)
LEMMA TextPlaces ==
  ASSUME Inv, Running
  PROVE  /\ Text!Top = stack_type
         /\ Text!ValueDue <=> \/ pc \in {"enter", "value"}
                              \/ pc \in {"opened", "comma"} /\ stack_type # "object"
         /\ Text!KeyDue <=> pc \in {"opened", "comma"} /\ stack_type = "object"
         /\ Text!EndDue <=> \/ pc \in {"opened", "lone", "after"}
                            \/ pc = "comma" /\ Trailing
         /\ Need = "colon" <=> pc = "colon"
         /\ Need = "sep" <=> pc = "after"
         /\ Need = "first" <=> pc = "opened"
         /\ Text!Complete <=> stack_type = "none" /\ AtEnd
<1>1. Text!Top = stack_type /\ (pc = "enter" => stack_type = "none")
  BY RunningFacts, SameText DEF Text!Top, InParse, Peek
<1>2. pc \in {"enter", "opened", "lone", "colon", "value", "after", "comma"}
  BY DEF Inv, TypeOK, Running
<1>3. /\ pc = "enter" <=> Need = "value" /\ pc # "value"
      /\ pc = "value" => Need = "value"
      /\ pc = "opened" <=> Need = "first"
      /\ pc = "comma" <=> Need = "next"
      /\ pc = "after" <=> Need = "sep"
      /\ pc = "lone" <=> Need = "lone"
      /\ pc = "colon" <=> Need = "colon"
  BY <1>2 DEF Need
<1>4. Text!Trailing <=> Trailing
  BY DEF Text!Trailing, Trailing
<1>5. Text!Complete <=> AtEnd
  BY <1>1, <1>2, <1>3, <1>4 DEF Text!Complete, AtEnd, AtSeparator, IsCloser
<1>6. Text!ValueDue <=> \/ pc \in {"enter", "value"}
                        \/ pc \in {"opened", "comma"} /\ stack_type # "object"
  BY <1>1, <1>2, <1>3 DEF Text!ValueDue
<1>7. Text!KeyDue <=> pc \in {"opened", "comma"} /\ stack_type = "object"
  BY <1>1, <1>2, <1>3 DEF Text!KeyDue
<1>8. Text!EndDue <=> \/ pc \in {"opened", "lone", "after"}
                      \/ pc = "comma" /\ Trailing
  BY <1>1, <1>2, <1>3, <1>4 DEF Text!EndDue
<1> QED BY <1>1, <1>3, <1>5, <1>6, <1>7, <1>8 DEF AtEnd

(* The tokens that the grammar admits there.                               *)
LEMMA TextAdmits ==
  ASSUME Inv, Running, Text!Legal
  PROVE  \/ Text!ValueDue /\ look \in Scalars
         \/ Text!ValueDue /\ look \in {"lbrace", "lbracket"} /\ ~Full
         \/ Text!EndDue /\ stack_type \in Containers /\ look = Closer[stack_type]
         \/ Text!KeyDue /\ look = "string"
         \/ pc = "colon" /\ look = "colon"
         \/ pc = "after" /\ look = "comma"
         \/ LoneComma
         \/ AtEnd /\ (look = "end" \/ allow \cap {"multiple_values", "trailing_chars"} # {})
<1>1. ASSUME NEW type \in Containers, Text!CanOpen(type)
      PROVE  Text!ValueDue /\ look \in {"lbrace", "lbracket"} /\ ~Full
  <2>1. Text!ValueDue /\ look = Opener[type] /\ Len(stack) < MaxNesting
    BY <1>1, SameText DEF Text!CanOpen
  <2>2. Opener[type] \in {"lbrace", "lbracket"}
    BY DEF Opener, Containers
  <2> QED BY <2>1, <2>2, RunningFacts, SaxAssumption DEF Full
<1>2. ASSUME NEW type \in Containers, Text!CanClose(type)
      PROVE  Text!EndDue /\ stack_type \in Containers /\ look = Closer[stack_type]
  BY <1>2, SameText, TextPlaces DEF Text!CanClose
<1>3. CASE Text!CanScalar
  BY <1>3, SameText DEF Text!CanScalar
<1>4. CASE Text!CanKey \/ Text!CanColon \/ Text!CanComma
  BY <1>4, TextPlaces DEF Text!CanKey, Text!CanColon, Text!CanComma
<1>5. CASE Text!CanLoneComma
  BY <1>5, TextPlaces DEF Text!CanLoneComma, LoneComma, Text!Trailing, Trailing
<1>6. CASE Text!CanAnother \/ Text!CanAccept
  BY <1>6, TextPlaces DEF Text!CanAnother, Text!CanAccept
<1> QED BY <1>1, <1>2, <1>3, <1>4, <1>5, <1>6, SameText DEF Text!Legal, Text!CanSkipComma

(* The parser reports an error only where the grammar admits nothing.      *)
LEMMA ErrorsAreIllegal ==
  ASSUME Inv, Running, ExpectedKey \/ TooDeep \/ Unexpected \/ BadToken
  PROVE  ~Text!Legal
<1> SUFFICES ASSUME Text!Legal PROVE FALSE
  OBVIOUS
<1>1. /\ stack_type \in Containers \cup {"none"}
      /\ pc = "enter" => stack_type = "none"
      /\ pc \in {"opened", "lone"} => stack_type \in Containers
      /\ pc \in {"colon", "value"} => stack_type = "object"
  BY RunningFacts DEF InParse, Peek
<1>2. /\ stack_type = "object" => Closer[stack_type] = "rbrace"
      /\ stack_type = "array" => Closer[stack_type] = "rbracket"
  BY DEF Closer
<1>3. \/ Text!ValueDue /\ look \in Scalars
      \/ Text!ValueDue /\ look \in {"lbrace", "lbracket"} /\ ~Full
      \/ Text!EndDue /\ stack_type \in Containers /\ look = Closer[stack_type]
      \/ Text!KeyDue /\ look = "string"
      \/ pc = "colon" /\ look = "colon"
      \/ pc = "after" /\ look = "comma"
      \/ LoneComma
      \/ AtEnd /\ (look = "end" \/ allow \cap {"multiple_values", "trailing_chars"} # {})
  BY TextAdmits
<1>4. /\ Text!ValueDue <=> \/ pc \in {"enter", "value"}
                           \/ pc \in {"opened", "comma"} /\ stack_type # "object"
      /\ Text!KeyDue <=> pc \in {"opened", "comma"} /\ stack_type = "object"
      /\ Text!EndDue <=> \/ pc \in {"opened", "lone", "after"}
                         \/ pc = "comma" /\ Trailing
  BY TextPlaces
<1>5. CASE ExpectedKey
  BY <1>1, <1>2, <1>3, <1>4, <1>5
     DEF ExpectedKey, Scalars, Containers, AtKey, AtTop, AtSeparator, AtEnd, LoneComma, EmptyEnd, IsCloser
<1>6. CASE TooDeep
  <2>1. AtValue /\ look \in {"lbrace", "lbracket"} /\ Full
    BY <1>6 DEF TooDeep, Opener, Containers
  <2> QED BY <1>1, <1>2, <1>3, <1>4, <2>1
      DEF Scalars, Containers, AtValue, AtTop, AtSeparator, AtEnd, LoneComma, EmptyEnd, IsCloser
<1>7. CASE BadToken
  BY <1>1, <1>2, <1>3, <1>4, <1>7
     DEF BadToken, Scalars, BadScalars, Containers, AtKey, AtValue, AtTop, AtSeparator, AtEnd, LoneComma,
         EmptyEnd, IsCloser
<1>8. CASE Unexpected
  <2>1. CASE AtValue /\ look \notin Scalars \cup {Opener[t] : t \in Containers} \cup BadScalars
    <3>1. look \notin Scalars /\ look \notin {"lbrace", "lbracket"}
      BY <2>1 DEF Opener, Containers
    <3> QED BY <1>1, <1>2, <1>3, <1>4, <2>1, <3>1
        DEF Containers, AtValue, AtTop, AtSeparator, AtEnd, LoneComma, EmptyEnd, IsCloser
  <2>2. CASE pc = "lone" /\ look # Closer[stack_type]
    BY <1>1, <1>3, <1>4, <2>2 DEF Containers, AtSeparator, AtEnd, LoneComma
  <2>3. CASE AtSeparator /\ ~(pc = "after" /\ look = "comma") /\ stack_type # "none" /\ look # Closer[stack_type]
    BY <1>1, <1>2, <1>3, <1>4, <2>3 DEF Scalars, Containers, AtSeparator, AtEnd, LoneComma, IsCloser
  <2>4. CASE AtEnd /\ look # "end" /\ allow \cap {"multiple_values", "trailing_chars"} = {}
    BY <1>1, <1>2, <1>3, <1>4, <2>4 DEF Scalars, Containers, AtSeparator, AtEnd, LoneComma, IsCloser
  <2>5. CASE look = "badcomment"
    BY <1>1, <1>2, <1>3, <2>5 DEF Scalars, Containers, AtEnd, LoneComma
  <2> QED BY <1>8, <2>1, <2>2, <2>3, <2>4, <2>5 DEF Unexpected
<1> QED BY <1>5, <1>6, <1>7, <1>8

LEMMA ErrorsReject ==
  ASSUME Inv, Running, ExpectedKey \/ TooDeep \/ Unexpected \/ BadToken
  PROVE  Text!Reject
<1>1. \E c : Throw(c)
  BY DEF ExpectedKey, TooDeep, Unexpected, BadToken
<1>2. /\ pc' = "idle" /\ result' = "error" /\ UNCHANGED <<allow, stack, event>>
      /\ look' = look
  BY <1>1 DEF Throw, ThrowCode, gvars
<1>3. look' \in Text!Lookaheads(allow)
  BY <1>2, SameText DEF Inv, TypeOK
<1> QED BY <1>2, <1>3, ErrorsAreIllegal DEF Text!Reject, Text!Finish, Need

(* An event of the parser is one of the grammar.                           *)
LEMMA Emitted ==
  ASSUME Inv, Running, status' # "aborted",
         NEW e, NEW may, NEW s, NEW k, Outcome(e, may, s, k),
         NEW next, NEW type, NEW need,
         \/ status' = "ready" /\ returned' /\ Take /\ Continue(next) /\ stack_type' = type
         \/ status' = "ready" /\ ~returned' /\ Terminated
         \/ status' = "aborted" /\ pc' = "aborted"
            /\ UNCHANGED <<allow, look, stack_type, result, code, taken>>,
         \/ next = "opened" /\ need = "first"
         \/ next = "value" /\ need = "value"
         \/ next = "after" /\ need = "sep"
  PROVE  Text!Take /\ Text!Emit(e, need)
<1>1. event' = e /\ result = "none" /\ look \in Lookaheads(allow)
  BY RunningFacts DEF Outcome, InParse, Inv, TypeOK
<1>2. CASE Take /\ Continue(next)
  BY <1>1, <1>2, SameText DEF Take, Continue, Text!Take, Text!Emit, Need
<1>3. CASE Terminated
  BY <1>1, <1>3, SameText DEF Terminated, ThrowCode, Text!Take, Text!Emit, Need
<1> QED BY <1>2, <1>3

LEMMA KeyIsText == ASSUME Inv, Running, Key PROVE Text!Key
<1>1. /\ AtKey /\ look = "string" /\ Take /\ UNCHANGED <<allow, stack, event>>
      /\ pc' = "colon" /\ result' = result
  BY DEF Key, Continue, gvars
<1>2. Text!KeyDue
  BY <1>1, TextPlaces, RunningFacts DEF AtKey, AtTop, InParse, Peek
<1> QED BY <1>1, <1>2, SameText DEF Text!Key, Text!CanKey, Text!Take, Take, Text!Silent, Need

LEMMA ColonIsText == ASSUME Inv, Running, Colon, status' # "aborted" PROVE Text!Colon
<1>1. /\ pc = "colon" /\ look = "colon" /\ UNCHANGED stack
      /\ Gen!jsnpg_key /\ TypeOK
      /\ \/ status' = "ready" /\ returned' /\ Take /\ Continue("value") /\ UNCHANGED stack_type
         \/ status' = "ready" /\ ~returned' /\ Terminated
         \/ status' = "aborted" /\ pc' = "aborted"
            /\ UNCHANGED <<allow, look, stack_type, result, code, taken>>
  BY DEF Colon, Deliver, Inv
<1> DEFINE may == GenSize > 0 => key_next
           k == FALSE
<1>2. Outcome("key", may, gstack, k)
  BY <1>1, KeyOutcome
<1> HIDE DEF may, k
<1>3. Text!Take /\ Text!Emit("key", "value")
  BY <1>1, <1>2, Emitted
<1> QED BY <1>1, <1>3, TextPlaces DEF Text!Colon, Text!CanColon

LEMMA ValueIsDue == ASSUME Inv, Running, AtValue PROVE Text!ValueDue
BY TextPlaces DEF AtValue, AtTop

LEMMA ScalarIsText == ASSUME Inv, Running, Scalar, status' # "aborted" PROVE Text!Scalar
<1>1. /\ AtValue /\ look \in Scalars /\ UNCHANGED stack
      /\ Gen!jsnpg_value /\ TypeOK
      /\ \/ status' = "ready" /\ returned' /\ Take /\ Continue("after") /\ UNCHANGED stack_type
         \/ status' = "ready" /\ ~returned' /\ Terminated
         \/ status' = "aborted" /\ pc' = "aborted"
            /\ UNCHANGED <<allow, look, stack_type, result, code, taken>>
  BY DEF Scalar, Deliver, Inv
<1> DEFINE k == key_next \/ (GenSize > 0 /\ GTop = "object")
<1>2. Outcome("value", GMayValue, gstack, k)
  BY <1>1, ValueOutcome
<1> HIDE DEF k
<1>3. Text!Take /\ Text!Emit("value", "sep")
  BY <1>1, <1>2, Emitted
<1> QED BY <1>1, <1>3, ValueIsDue, SameText DEF Text!Scalar, Text!CanScalar

LEMMA OpenIsText ==
  ASSUME Inv, Running, NEW type \in Containers, Open(type), status' # "aborted"
  PROVE  Text!Start(type)
<1>1. /\ AtValue /\ look = Opener[type] /\ ~Full /\ stack' = Opened(stack, type)
      /\ jsnpg_start(type) /\ TypeOK
      /\ \/ status' = "ready" /\ returned' /\ Take /\ Continue("opened") /\ stack_type' = type
         \/ status' = "ready" /\ ~returned' /\ Terminated
         \/ status' = "aborted" /\ pc' = "aborted"
            /\ UNCHANGED <<allow, look, stack_type, result, code, taken>>
  BY DEF Open, Deliver, Inv
<1> DEFINE e == StartEvent[type]
           may == GMayValue /\ (GenSize > 0 => Len(gstack) < GenSize)
           s == IF GenSize > 0 THEN Opened(gstack, type) ELSE gstack
           k == IF GenSize > 0 THEN type = "object" ELSE key_next
<1>2. Outcome(e, may, s, k)
  BY <1>1, StartOutcome
<1>3. Len(stack) < MaxNesting
  BY <1>1, RunningFacts, SaxAssumption DEF Full
<1>4. e = Text!StartEvent[type] /\ look = Text!Opener[type] /\ stack' = Text!Opened(stack, type)
  BY <1>1, SameText
<1> HIDE DEF e, may, s, k
<1>5. Text!Take /\ Text!Emit(e, "first")
  BY <1>1, <1>2, Emitted
<1> QED BY <1>1, <1>3, <1>4, <1>5, ValueIsDue DEF Text!Start, Text!CanOpen

LEMMA CloseIsText ==
  ASSUME Inv, Running, NEW type \in Containers, Close(type), status' # "aborted"
  PROVE  Text!End(type)
<1>0. SUFFICES ASSUME NEW t, t = Peek(stack') PROVE Text!End(type)
  OBVIOUS
<1>1. /\ stack_type = type /\ look = Closer[type] /\ (EmptyEnd \/ AtSeparator)
      /\ stack' = Closed(stack)
      /\ jsnpg_end(type) /\ TypeOK
      /\ \/ status' = "ready" /\ returned' /\ Take /\ Continue("after") /\ stack_type' = t
         \/ status' = "ready" /\ ~returned' /\ Terminated
         \/ status' = "aborted" /\ pc' = "aborted"
            /\ UNCHANGED <<allow, look, stack_type, result, code, taken>>
  BY <1>0 DEF Close, Deliver, TypeAfterPop, Inv
<1> DEFINE e == EndEvent[type]
           may == GenSize > 0 => GTop = type /\ (type = "object" => key_next)
           s == IF GenSize > 0 THEN Closed(gstack) ELSE gstack
           k == IF GenSize > 0 THEN Peek(Closed(gstack)) = "object" ELSE key_next
<1>2. Outcome(e, may, s, k)
  BY <1>1, EndOutcome
<1>3. e = Text!EndEvent[type] /\ look = Text!Closer[type] /\ stack' = Text!Closed(stack)
  BY <1>1, SameText
<1> HIDE DEF e, may, s, k
<1>4. Text!Take /\ Text!Emit(e, "sep")
  BY <1>1, <1>2, Emitted
<1>5. Text!EndDue /\ Text!Top = type
  BY <1>1, TextPlaces DEF EmptyEnd, AtSeparator
<1> QED BY <1>1, <1>3, <1>4, <1>5 DEF Text!End, Text!CanClose

LEMMA CommasAreText ==
  ASSUME Inv, Running
  PROVE  /\ Comma => Text!Comma
         /\ LoneCommaTaken => Text!LoneComma
<1>1. ASSUME Comma PROVE Text!Comma
  <2>1. /\ pc = "after" /\ look = "comma" /\ Take /\ UNCHANGED <<allow, stack, event>>
        /\ pc' = "comma" /\ result' = result
    BY <1>1 DEF Comma, Continue, gvars
  <2> QED BY <2>1, TextPlaces, SameText DEF Text!Comma, Text!CanComma, Text!Take, Take, Text!Silent, Need
<1>2. ASSUME LoneCommaTaken PROVE Text!LoneComma
  <2>1. /\ pc = "opened" /\ look = "comma" /\ Trailing /\ Take /\ UNCHANGED <<allow, stack, event>>
        /\ pc' = "lone" /\ result' = result
    BY <1>2 DEF LoneCommaTaken, LoneComma, Continue, gvars
  <2> QED BY <2>1, TextPlaces, SameText
          DEF Text!LoneComma, Text!CanLoneComma, Text!Take, Take, Text!Silent, Need, Text!Trailing, Trailing
<1> QED BY <1>1, <1>2

LEMMA EndOfTextIsText ==
  ASSUME Inv, Running, EndOfText
  PROVE  Text!Another \/ Text!Accept
<1>1. /\ Text!Complete /\ UNCHANGED <<allow, look, stack, event>>
      /\ look = "end" \/ "multiple_values" \in allow \/ "trailing_chars" \in allow
  BY TextPlaces DEF EndOfText, AtEnd, gvars
<1>2. CASE look # "end" /\ "multiple_values" \in allow
  <2>1. pc' = "enter" /\ result' = result
    BY <1>2 DEF EndOfText
  <2> QED BY <1>1, <1>2, <2>1 DEF Text!Another, Text!CanAnother, Text!Silent, Need
<1>3. CASE ~(look # "end" /\ "multiple_values" \in allow)
  <2>1. pc' = "idle" /\ result' = "eof"
    BY <1>3 DEF EndOfText
  <2>2. Text!CanAccept
    BY <1>1, <1>3 DEF Text!CanAccept
  <2> QED BY <1>1, <2>1, <2>2 DEF Text!Accept, Text!Finish, Need
<1> QED BY <1>2, <1>3

LEMMA TextStep ==
  ASSUME Inv, status' # "aborted", [Next]_vars
  PROVE  [Text!Next]_(Text!vars)
<1>1. CASE parse
  <2>1. Running /\ Step
    BY <1>1 DEF parse, Running
  <2>2. result = "none"
    BY <2>1, RunningFacts DEF InParse
  <2>3. \/ Text!Key \/ Text!Colon \/ Text!Scalar \/ Text!Comma \/ Text!LoneComma
        \/ Text!Another \/ Text!Accept \/ Text!Reject
        \/ \E type \in Containers : Text!Start(type) \/ Text!End(type)
    BY <2>1, KeyIsText, ColonIsText, ScalarIsText, OpenIsText, CloseIsText, CommasAreText,
       EndOfTextIsText, ErrorsReject DEF Step
  <2> QED BY <2>2, <2>3, SameText DEF Text!Next, Text!Parsing
<1>2. CASE jsnpg_parse_opt
  <2>1. /\ pc = "idle" /\ allow' \in SUBSET Flags /\ look' \in Lookaheads(allow')
        /\ pc' = "enter" /\ stack' = <<>> /\ result' = "none" /\ event' = event
    BY <1>2 DEF jsnpg_parse_opt, NewGenerator, Gen!generator_reset
  <2>2. result # "none"
    BY <2>1 DEF Inv, WellEnded, Failed
  <2>3. Text!Fresh
    BY <2>1, SameText DEF Text!Fresh, Need
  <2> QED BY <2>1, <2>2, <2>3 DEF Text!Next, Text!Again
<1>3. CASE UNCHANGED vars
  BY <1>3 DEF vars, pvars, gvars, Text!vars, Need
<1> QED BY <1>1, <1>2, <1>3 DEF Next

(* The parse loop implements the token grammar, whatever the text, the     *)
(* flags and the nesting: the events are those of the text, and but for    *)
(* the two commas that Extra names it accepts what the grammar accepts and *)
(* rejects what the grammar rejects.                                       *)
THEOREM ReadsText == Matched => (Spec => ImplementsText)
<1> SUFFICES ASSUME Matched PROVE Spec => ImplementsText
  OBVIOUS
<1>1. Init => Text!Init
  BY SameText DEF Init, Text!Init, Need, Gen!Init
<1>2. Inv /\ NeverAborts' /\ [Next]_vars => [Text!Next]_(Text!vars)
  BY TextStep DEF NeverAborts
<1>3. Spec => []NeverAborts
  BY NeverAborted
<1> QED BY <1>1, <1>2, <1>3, InvAlways, PTL DEF Spec, ImplementsText, Text!Spec
=============================================================================
