-------------------------- MODULE JsonOutputProofs --------------------------
(***************************************************************************)
(* Proofs about the JSON generator, for every nesting, every indent and    *)
(* every stream of events that its checks let pass.                        *)
(***************************************************************************)
EXTENDS JsonOutput, SequenceTheorems, TLAPS

(* A container that is opened is the innermost one.                        *)
LEMMA OpenedFacts ==
  ASSUME NEW s \in Seq(Containers), NEW type \in Containers
  PROVE  /\ Opened(s, type) \in Seq(Containers)
         /\ Len(Opened(s, type)) = Len(s) + 1
         /\ Peek(Opened(s, type)) = type
<1>1. /\ Append(s, type) \in Seq(Containers)
      /\ Len(Append(s, type)) = Len(s) + 1
      /\ Append(s, type)[Len(s) + 1] = type
  OBVIOUS
<1>2. Append(s, type) # <<>>
  BY <1>1
<1> QED BY <1>1, <1>2 DEF Opened, Peek, Last

(* Closing needs something that is open, and leaves one level less.        *)
LEMMA ClosedFacts ==
  ASSUME NEW s \in Seq(Containers), s # <<>>
  PROVE  /\ Closed(s) \in Seq(Containers)
         /\ Len(Closed(s)) = Len(s) - 1
<1>1. PICK n \in Nat \ {0} : n = Len(s) /\ \A i \in 1..(n - 1) : s[i] \in Containers
  BY EmptySeq, LenProperties
<1>2. /\ SubSeq(s, 1, n - 1) \in Seq(Containers)
      /\ Len(SubSeq(s, 1, n - 1)) = n - 1
  BY <1>1, SubSeqProperties
<1> QED BY <1>1, <1>2 DEF Closed, Front

(* The innermost container is an answer only when there is one.            *)
LEMMA PeekFacts ==
  ASSUME NEW s \in Seq(Containers)
  PROVE  /\ Peek(s) \in Containers \cup {"none"}
         /\ Peek(s) \in Containers => s # <<>>
<1>1. CASE s = <<>>
  BY <1>1 DEF Peek, Containers
<1>2. CASE s # <<>>
  BY <1>2 DEF Peek, Last
<1> QED BY <1>1, <1>2

-----------------------------------------------------------------------------

Streams == [indent : Indents, comma : BOOLEAN, key : BOOLEAN,
            level : 0..(LevelRange - 1), nl : BOOLEAN]

Needed == {"value", "first", "next", "colon", "sep"}
Kinds == {"value", "name", "colon", "comma", "lbrace", "lbracket", "rbrace", "rbracket"}

Readers == [indent : Indents, open : Seq(Containers), need : Needed,
            line : BOOLEAN, spaces : Int, json : BOOLEAN, layout : BOOLEAN, started : BOOLEAN]

(* The generator tracks what is open, and the level can count it.          *)
Counted == 0 < GenSize /\ GenSize < LevelRange

(* The text r, what the output stream j knows of it, and the open          *)
(* containers s and the key_next k of the generator belong together.       *)
Fits(r, j, s, k) ==
  /\ r.json /\ r.layout /\ r.open = s /\ r.indent = j.indent
  /\ j.level = Len(s)
  /\ k => Peek(s) = "object"
  /\ j.key <=> Peek(s) = "object" /\ ~k
  /\ r.need \in {"value", "first", "sep"}
  /\ j.key <=> r.need = "value" /\ s # <<>>
  /\ r.need = "first" => s # <<>> /\ ~j.comma
  /\ r.need = "sep" /\ s # <<>> => j.comma
  /\ r.started <=> r.need # "value" \/ s # <<>>
  /\ ~r.started => ~j.comma /\ ~j.nl
  /\ r.started /\ j.indent > 0 => j.nl
  /\ ~r.line
  /\ r.spaces = IF j.key /\ j.indent > 0 THEN 1 ELSE 0

Inv ==
  /\ TypeOK
  /\ text \in Readers
  /\ Counted /\ ~cut => Fits(text, jos, stack, key_next)

-----------------------------------------------------------------------------
(* What a reader makes of a token and of white space.                      *)
LEMMA ReadType ==
  ASSUME NEW r \in Readers, NEW kind \in Kinds
  PROVE  Read(r, kind) \in Readers
<1>1. CASE ~TokenFits(r, kind)
  BY <1>1 DEF Read, Readers
<1>2. CASE TokenFits(r, kind)
  <2> DEFINE open == CASE IsOpener(kind) -> Opened(r.open, TypeOf(kind))
                       [] IsCloser(kind) -> Closed(r.open)
                       [] OTHER          -> r.open
             need == CASE IsOpener(kind)  -> "first"
                       [] kind = "name"   -> "colon"
                       [] kind = "colon"  -> "value"
                       [] kind = "comma"  -> "next"
                       [] OTHER           -> "sep"
  <2>1. r.open \in Seq(Containers) /\ TypeOf(kind) \in Containers
    BY DEF Readers, TypeOf, Containers
  <2>2. IsCloser(kind) => r.open # <<>>
    BY <1>2, <2>1, PeekFacts DEF TokenFits, IsOpener, IsCloser
  <2>3. open \in Seq(Containers)
    BY <2>1, <2>2, OpenedFacts, ClosedFacts DEF IsOpener, IsCloser
  <2>4. need \in Needed
    BY DEF Needed
  <2> DEFINE layout == r.layout /\ LaidOut(r, kind)
  <2>5. layout \in BOOLEAN
    OBVIOUS
  <2>6. Read(r, kind) = [r EXCEPT !.layout = layout, !.line = FALSE, !.spaces = 0,
                                  !.started = TRUE, !.open = open, !.need = need]
    BY <1>2 DEF Read
  <2> HIDE DEF open, need, layout
  <2>7. Read(r, kind) = [indent |-> r.indent, open |-> open, need |-> need, line |-> FALSE,
                         spaces |-> 0, json |-> r.json, layout |-> layout, started |-> TRUE]
    BY <2>6 DEF Readers
  <2>8. r.indent \in Indents /\ r.json \in BOOLEAN /\ 0 \in Int
    BY DEF Readers
  <2> QED BY <2>3, <2>4, <2>5, <2>7, <2>8 DEF Readers
<1> QED BY <1>1, <1>2

LEMMA ReadFields ==
  ASSUME NEW r \in Readers, NEW kind \in Kinds, TokenFits(r, kind)
  PROVE  /\ Read(r, kind).indent = r.indent /\ Read(r, kind).json = r.json
         /\ Read(r, kind).layout = (r.layout /\ LaidOut(r, kind))
         /\ ~Read(r, kind).line /\ Read(r, kind).spaces = 0 /\ Read(r, kind).started
         /\ kind \in {"value", "name", "colon", "comma"} => Read(r, kind).open = r.open
         /\ IsOpener(kind) => Read(r, kind).open = Opened(r.open, TypeOf(kind))
                              /\ Read(r, kind).need = "first"
         /\ IsCloser(kind) => Read(r, kind).open = Closed(r.open) /\ Read(r, kind).need = "sep"
         /\ kind = "name" => Read(r, kind).need = "colon"
         /\ kind = "colon" => Read(r, kind).need = "value"
         /\ kind = "comma" => Read(r, kind).need = "next"
         /\ kind = "value" => Read(r, kind).need = "sep"
BY DEF Read, Readers, IsOpener, IsCloser, Kinds

LEMMA ReadSpaceFields ==
  ASSUME NEW r \in Readers, NEW newline \in BOOLEAN, NEW n \in Int
  PROVE  /\ ReadSpace(r, newline, n) \in Readers
         /\ ReadSpace(r, newline, n).indent = r.indent /\ ReadSpace(r, newline, n).json = r.json
         /\ ReadSpace(r, newline, n).open = r.open /\ ReadSpace(r, newline, n).need = r.need
         /\ ReadSpace(r, newline, n).started = r.started
         /\ ReadSpace(r, newline, n).layout <=> r.layout /\ ~(newline /\ (r.line \/ r.spaces > 0))
         /\ ReadSpace(r, newline, n).line <=> r.line \/ newline
         /\ ReadSpace(r, newline, n).spaces = r.spaces + n
<1> DEFINE layout == r.layout /\ ~(newline /\ (r.line \/ r.spaces > 0))
           line == r.line \/ newline
           spaces == r.spaces + n
<1>1. layout \in BOOLEAN /\ line \in BOOLEAN /\ spaces \in Int
  BY DEF Readers
<1>2. ReadSpace(r, newline, n) = [r EXCEPT !.layout = layout, !.line = line, !.spaces = spaces]
  BY DEF ReadSpace
<1> HIDE DEF layout, line, spaces
<1>3. /\ ReadSpace(r, newline, n) \in Readers
      /\ ReadSpace(r, newline, n).indent = r.indent /\ ReadSpace(r, newline, n).json = r.json
      /\ ReadSpace(r, newline, n).open = r.open /\ ReadSpace(r, newline, n).need = r.need
      /\ ReadSpace(r, newline, n).started = r.started
      /\ ReadSpace(r, newline, n).layout = layout
      /\ ReadSpace(r, newline, n).line = line
      /\ ReadSpace(r, newline, n).spaces = spaces
  BY <1>1, <1>2 DEF Readers
<1> QED BY <1>3 DEF layout, line, spaces

LEMMA IndentFacts ==
  ASSUME NEW j \in Streams
  PROVE  /\ j.indent \in Nat /\ j.level \in Nat /\ j.nl \in BOOLEAN /\ j.comma \in BOOLEAN
         /\ j.key \in BOOLEAN /\ j.indent * j.level \in Int
<1>1. j.indent \in Indents /\ j.level \in 0..(LevelRange - 1) /\ j.nl \in BOOLEAN /\ j.comma \in BOOLEAN
      /\ j.key \in BOOLEAN
  BY DEF Streams
<1>2. j.indent \in Nat
  <2>1. \A i \in Indents : i \in Nat
    BY JsonOutputAssumption
  <2> QED BY <1>1, <2>1
<1>4. j.level \in Nat
  BY <1>1
<1>3. \A m, n \in Nat : m * n \in Int
  OBVIOUS
<1> QED BY <1>1, <1>2, <1>3, <1>4

LEMMA PrefixType ==
  ASSUME NEW r \in Readers, NEW j \in Streams
  PROVE  Prefix(j, r) \in Readers
<1>1. Read(r, "comma") \in Readers
  BY ReadType DEF Kinds
<1> DEFINE listed == IF j.comma THEN Read(r, "comma") ELSE r
           n == j.indent * j.level
<1>2. listed \in Readers /\ n \in Int /\ j.nl \in BOOLEAN
  BY <1>1, IndentFacts
<1> HIDE DEF n
<1>3. ReadSpace(listed, j.nl, n) \in Readers
  BY <1>2, ReadSpaceFields
<1> QED BY <1>2, <1>3 DEF Prefix, n

LEMMA StreamTypes ==
  ASSUME NEW j \in Streams
  PROVE  /\ Prefixed(j) \in Streams /\ Started(j) \in Streams /\ Ending(j) \in Streams /\ Ended(j) \in Streams
         /\ [j EXCEPT !.key = TRUE] \in Streams
         /\ PrefixFailures(j) \subseteq Streams
<1>1. /\ (j.level + 1) % LevelRange \in 0..(LevelRange - 1)
      /\ (j.level - 1) % LevelRange \in 0..(LevelRange - 1)
  <2>1. LevelRange \in Nat \ {0} /\ j.level + 1 \in Int /\ j.level - 1 \in Int
    BY IndentFacts, JsonOutputAssumption
  <2>2. \A m \in Int, n \in Nat \ {0} : m % n \in 0..(n - 1)
    OBVIOUS
  <2> QED BY <2>1, <2>2
<1>2. Prefixed(j) \in Streams
  <2> DEFINE nl == j.nl \/ (j.indent > 0 /\ ~j.key)
  <2>1. nl \in BOOLEAN
    OBVIOUS
  <2>2. Prefixed(j) = [j EXCEPT !.comma = TRUE, !.key = FALSE, !.nl = nl]
    BY DEF Prefixed
  <2> HIDE DEF nl
  <2> QED BY <2>1, <2>2 DEF Streams
<1>5. Ended(j) \in Streams
  <2> DEFINE comma == j.level > 0
  <2>1. comma \in BOOLEAN
    OBVIOUS
  <2>2. Ended(j) = [j EXCEPT !.comma = comma]
    BY DEF Ended
  <2> HIDE DEF comma
  <2> QED BY <2>1, <2>2 DEF Streams
<1>3. Started(j) \in Streams /\ Ending(j) \in Streams
  BY <1>1 DEF Streams, Started, Ending
<1>4. [j EXCEPT !.nl = TRUE] \in Streams /\ [j EXCEPT !.key = TRUE] \in Streams
  BY DEF Streams
<1> QED BY <1>2, <1>3, <1>4, <1>5 DEF PrefixFailures

LEMMA StreamFields ==
  ASSUME NEW j \in Streams
  PROVE  /\ Prefixed(j).indent = j.indent /\ Prefixed(j).level = j.level
         /\ Prefixed(j).comma /\ ~Prefixed(j).key
         /\ Prefixed(j).nl <=> (j.nl \/ (j.indent > 0 /\ ~j.key))
         /\ Started(j).indent = j.indent /\ Started(j).level = (j.level + 1) % LevelRange
         /\ ~Started(j).comma /\ Started(j).key = j.key /\ Started(j).nl = j.nl
         /\ Ending(j).indent = j.indent /\ Ending(j).level = (j.level - 1) % LevelRange
         /\ ~Ending(j).comma /\ Ending(j).key = j.key /\ Ending(j).nl = j.nl
         /\ Ended(j).indent = j.indent /\ Ended(j).level = j.level
         /\ Ended(j).comma <=> j.level > 0
         /\ Ended(j).key = j.key /\ Ended(j).nl = j.nl
<1>1. /\ Started(j).indent = j.indent /\ Started(j).level = (j.level + 1) % LevelRange
      /\ ~Started(j).comma /\ Started(j).key = j.key /\ Started(j).nl = j.nl
      /\ Ending(j).indent = j.indent /\ Ending(j).level = (j.level - 1) % LevelRange
      /\ ~Ending(j).comma /\ Ending(j).key = j.key /\ Ending(j).nl = j.nl
  BY DEF Streams, Started, Ending
<1>2. /\ Prefixed(j).indent = j.indent /\ Prefixed(j).level = j.level
      /\ Prefixed(j).comma /\ ~Prefixed(j).key
      /\ Prefixed(j).nl <=> (j.nl \/ (j.indent > 0 /\ ~j.key))
  <2> DEFINE nl == j.nl \/ (j.indent > 0 /\ ~j.key)
  <2>1. Prefixed(j) = [j EXCEPT !.comma = TRUE, !.key = FALSE, !.nl = nl]
    BY DEF Prefixed
  <2> HIDE DEF nl
  <2>2. /\ Prefixed(j).indent = j.indent /\ Prefixed(j).level = j.level
        /\ Prefixed(j).comma /\ ~Prefixed(j).key /\ Prefixed(j).nl = nl
    BY <2>1 DEF Streams
  <2> QED BY <2>2 DEF nl
<1>3. /\ Ended(j).indent = j.indent /\ Ended(j).level = j.level
      /\ Ended(j).comma <=> j.level > 0
      /\ Ended(j).key = j.key /\ Ended(j).nl = j.nl
  <2> DEFINE comma == j.level > 0
  <2>1. Ended(j) = [j EXCEPT !.comma = comma]
    BY DEF Ended
  <2> HIDE DEF comma
  <2>2. /\ Ended(j).indent = j.indent /\ Ended(j).level = j.level
        /\ Ended(j).comma = comma /\ Ended(j).key = j.key /\ Ended(j).nl = j.nl
    BY <2>1 DEF Streams
  <2> QED BY <2>2 DEF comma
<1> QED BY <1>1, <1>2, <1>3

(* An opener or a closer is read as a token that opens or closes.          *)
LEMMA ReadFitting ==
  ASSUME NEW r \in Readers, NEW kind \in Kinds, r.json, r.layout, TokenFits(r, kind), LaidOut(r, kind)
  PROVE  /\ Read(r, kind) \in Readers
         /\ Read(r, kind).json /\ Read(r, kind).layout /\ Read(r, kind).indent = r.indent
         /\ ~Read(r, kind).line /\ Read(r, kind).spaces = 0 /\ Read(r, kind).started
BY ReadType, ReadFields

-----------------------------------------------------------------------------
(* What jos_prefix writes is what has to stand before a value or a key.    *)
Places == {"value", "name", "lbrace", "lbracket"}

LEMMA PrefixFits ==
  ASSUME NEW r \in Readers, NEW j \in Streams, NEW s \in Seq(Containers), NEW k \in BOOLEAN,
         Fits(r, j, s, k)
  PROVE  /\ Prefix(j, r).json /\ Prefix(j, r).layout
         /\ Prefix(j, r).open = s /\ Prefix(j, r).indent = j.indent
         /\ Prefix(j, r).need = IF j.comma /\ ~j.key THEN "next" ELSE r.need
         /\ \A kind \in Places : LaidOut(Prefix(j, r), kind)
<1> DEFINE p == Prefix(j, r)
           listed == IF j.comma THEN Read(r, "comma") ELSE r
           n == j.indent * j.level
<1>1. /\ j.indent \in Nat /\ j.level \in Nat /\ j.nl \in BOOLEAN /\ j.comma \in BOOLEAN
      /\ j.key \in BOOLEAN /\ n \in Int /\ Len(s) \in Nat
  BY IndentFacts
<1>2. CASE j.key
  <2>1. p = r
    BY <1>2 DEF Prefix
  <2>2. FollowsKey(r) /\ ~r.line /\ r.spaces = IF r.indent > 0 THEN 1 ELSE 0
    BY <1>2 DEF Fits, FollowsKey
  <2>3. \A kind \in Places : ~StartsLine(r, kind)
    BY <2>2 DEF StartsLine, Places, IsCloser
  <2>4. \A kind \in Places : LaidOut(r, kind)
    BY <2>2, <2>3 DEF LaidOut
  <2> QED BY <1>2, <2>1, <2>4 DEF Fits
<1>3. CASE ~j.key
  <2>1. /\ listed \in Readers /\ listed.json /\ listed.layout /\ listed.open = s
        /\ listed.indent = j.indent /\ ~listed.line /\ listed.spaces = 0
        /\ listed.started = r.started
        /\ listed.need = IF j.comma THEN "next" ELSE r.need
    <3>1. CASE j.comma
      <4>1. r.need = "sep" /\ r.started /\ r.spaces = 0 /\ ~r.line /\ r.json /\ r.layout
        BY <1>3, <3>1 DEF Fits
      <4>2. TokenFits(r, "comma")
        BY <4>1 DEF TokenFits, IsOpener, IsCloser
      <4>3. LaidOut(r, "comma")
        BY <4>1 DEF LaidOut, StartsLine, FollowsKey
      <4>4. "comma" \in Kinds
        BY DEF Kinds
      <4>5. /\ Read(r, "comma") \in Readers
            /\ Read(r, "comma").json /\ Read(r, "comma").layout /\ Read(r, "comma").indent = r.indent
            /\ ~Read(r, "comma").line /\ Read(r, "comma").spaces = 0 /\ Read(r, "comma").started
        BY <4>1, <4>2, <4>3, <4>4, ReadFitting
      <4>6. Read(r, "comma").open = r.open /\ Read(r, "comma").need = "next"
        BY <4>2, <4>4, ReadFields
      <4> QED BY <3>1, <4>1, <4>5, <4>6 DEF Fits, Readers
    <3>2. CASE ~j.comma
      BY <1>3, <3>2 DEF Fits
    <3> QED BY <3>1, <3>2
  <2>2. ~(listed.need = "value" /\ listed.open # <<>>)
    BY <1>3, <2>1 DEF Fits
  <2>3. \A kind \in Places : StartsLine(listed, kind) <=> j.indent > 0 /\ r.started
    BY <2>1, <2>2 DEF StartsLine, FollowsKey, IsCloser, Places
  <2>4. \A kind \in Places : Depth(listed, kind) = j.level
    BY <2>1 DEF Depth, IsCloser, Places, Fits
  <2> HIDE DEF listed, n
  <2>5. CASE j.indent > 0
    <3>1. p = ReadSpace(listed, j.nl, n)
      BY <1>3, <2>5 DEF Prefix, listed, n
    <3> HIDE DEF p
    <3>2. /\ p.indent = listed.indent /\ p.json = listed.json
          /\ p.open = listed.open /\ p.need = listed.need /\ p.started = listed.started
          /\ p.layout <=> listed.layout /\ ~(j.nl /\ (listed.line \/ listed.spaces > 0))
          /\ p.line <=> listed.line \/ j.nl
          /\ p.spaces = listed.spaces + n
      <4>1. listed \in Readers /\ j.nl \in BOOLEAN /\ n \in Int
        BY <1>1, <2>1
      <4>2. /\ ReadSpace(listed, j.nl, n).indent = listed.indent /\ ReadSpace(listed, j.nl, n).json = listed.json
            /\ ReadSpace(listed, j.nl, n).open = listed.open /\ ReadSpace(listed, j.nl, n).need = listed.need
            /\ ReadSpace(listed, j.nl, n).started = listed.started
        BY <4>1 DEF ReadSpace, Readers
      <4>3. ReadSpace(listed, j.nl, n).layout <=> listed.layout /\ ~(j.nl /\ (listed.line \/ listed.spaces > 0))
        BY <4>1, ReadSpaceFields, Zenon
      <4>4. ReadSpace(listed, j.nl, n).line <=> listed.line \/ j.nl
        BY <4>1, ReadSpaceFields, Zenon
      <4>5. ReadSpace(listed, j.nl, n).spaces = listed.spaces + n
        BY <4>1 DEF ReadSpace, Readers
      <4> QED BY <3>1, <4>2, <4>3, <4>4, <4>5
    <3>3. p.layout /\ (p.line <=> j.nl) /\ p.spaces = n
      <4>1. p.layout /\ (p.line <=> j.nl)
        BY <2>1, <3>2
      <4>2. listed.spaces = 0
        BY <2>1
      <4> QED BY <1>1, <3>2, <4>1, <4>2
    <3>4. j.nl <=> r.started
      BY <2>5 DEF Fits, Readers
    <3>5. \A kind \in Places : /\ StartsLine(p, kind) <=> StartsLine(listed, kind)
                               /\ Depth(p, kind) = Depth(listed, kind)
                               /\ ~FollowsKey(p)
      BY <2>2, <3>2 DEF StartsLine, FollowsKey, IsCloser, Depth
    <3>6. ~r.started => n = 0
      <4>1. ~r.started => j.level = 0
        BY EmptySeq DEF Fits
      <4>2. \A m \in Nat : m * 0 = 0
        OBVIOUS
      <4> QED BY <1>1, <4>1, <4>2 DEF n
    <3>7. ASSUME NEW kind \in Places PROVE LaidOut(p, kind)
      <4>1. p.line <=> StartsLine(p, kind)
        BY <2>3, <2>5, <3>3, <3>4, <3>5
      <4>2. StartsLine(p, kind) => p.spaces = p.indent * Depth(p, kind)
        BY <2>1, <2>4, <3>2, <3>3, <3>5 DEF n
      <4>3. ~StartsLine(p, kind) => p.spaces = 0
        BY <2>3, <2>5, <3>3, <3>5, <3>6
      <4> QED BY <3>5, <4>1, <4>2, <4>3 DEF LaidOut
    <3> QED BY <1>3, <2>1, <3>2, <3>3, <3>7 DEF p
  <2>6. CASE ~(j.indent > 0)
    <3>1. p = listed
      BY <1>3, <2>6 DEF Prefix, listed
    <3>2. \A kind \in Places : LaidOut(listed, kind)
      BY <2>1, <2>2, <2>3, <2>6 DEF LaidOut, FollowsKey
    <3> QED BY <1>3, <2>1, <3>1, <3>2
  <2> QED BY <2>5, <2>6
<1> QED BY <1>2, <1>3

-----------------------------------------------------------------------------
(* The generator below the output, as in SaxParserProofs: what an event    *)
(* does to it if its check may holds and it leads to the nesting s and to  *)
(* key_next k.                                                             *)
LEMMA SameNesting ==
  /\ Gen!Containers = Containers
  /\ \A s : Gen!Peek(s) = Peek(s) /\ Gen!Closed(s) = Closed(s)
  /\ \A s, type : Gen!Opened(s, type) = Opened(s, type)
BY DEF Gen!Containers, Containers, Gen!Peek, Peek, Gen!Last, Last, Gen!Closed, Closed,
       Gen!Front, Front, Gen!Opened, Opened

Outcome(e, may, s, k) ==
  /\ \/ ~may /\ status' = "aborted" /\ UNCHANGED <<stack, key_next, error, returned, failed>>
     \/ /\ may /\ status' = "ready" /\ stack' = s /\ key_next' = k
        /\ \/ returned' = TRUE /\ UNCHANGED <<error, failed>>
           \/ returned' = FALSE /\ failed' = "silent" /\ error' = error
           \/ returned' = FALSE /\ failed' = "utf8" /\ error' = "utf8"
  /\ event' = e

GenEvents == {"value", "key", "start_array", "end_array", "start_object", "end_object"}

MayValue == ~(GenSize > 0 /\ Peek(stack) = "object" /\ key_next)

LEMMA ValueOutcome ==
  ASSUME Gen!jsnpg_value, TypeOK
  PROVE  Outcome("value", MayValue, stack, key_next \/ (GenSize > 0 /\ Peek(stack) = "object"))
BY SameNesting
   DEF Gen!jsnpg_value, Gen!Offer, Gen!can_value, Gen!MayValue, Gen!Callback, Gen!Abort,
       Gen!Tracking, Gen!Top, Outcome, MayValue, TypeOK, Gen!TypeOK

LEMMA KeyOutcome ==
  ASSUME Gen!jsnpg_key, TypeOK
  PROVE  Outcome("key", GenSize > 0 => key_next, stack, FALSE)
BY DEF Gen!jsnpg_key, Gen!Offer, Gen!can_key, Gen!MayKey, Gen!Callback, Gen!Abort,
       Gen!Tracking, Outcome

StartedBy(type, e) ==
  Outcome(e, MayValue /\ (GenSize > 0 => Len(stack) < GenSize),
          IF GenSize > 0 THEN Opened(stack, type) ELSE stack,
          IF GenSize > 0 THEN type = "object" ELSE key_next)

LEMMA StartOutcome ==
  ASSUME TypeOK
  PROVE  /\ Gen!jsnpg_start_object => StartedBy("object", "start_object")
         /\ Gen!jsnpg_start_array => StartedBy("array", "start_array")
<1>1. ASSUME Gen!jsnpg_start_object PROVE StartedBy("object", "start_object")
  BY <1>1, SameNesting
     DEF Gen!jsnpg_start_object, Gen!Offer, Gen!can_push, Gen!MayPush, Gen!MayValue,
         Gen!Callback, Gen!Abort, Gen!Tracking, Gen!Top, Outcome, MayValue, StartedBy
<1>2. ASSUME Gen!jsnpg_start_array PROVE StartedBy("array", "start_array")
  BY <1>2, SameNesting
     DEF Gen!jsnpg_start_array, Gen!Offer, Gen!can_push, Gen!MayPush, Gen!MayValue,
         Gen!Callback, Gen!Abort, Gen!Tracking, Gen!Top, Outcome, MayValue, StartedBy
<1> QED BY <1>1, <1>2

EndedBy(type, e) ==
  Outcome(e, GenSize > 0 => Peek(stack) = type /\ (type = "object" => key_next),
          IF GenSize > 0 THEN Closed(stack) ELSE stack,
          IF GenSize > 0 THEN Peek(Closed(stack)) = "object" ELSE key_next)

LEMMA EndOutcome ==
  ASSUME TypeOK
  PROVE  /\ Gen!jsnpg_end_object => EndedBy("object", "end_object")
         /\ Gen!jsnpg_end_array => EndedBy("array", "end_array")
<1>1. ASSUME Gen!jsnpg_end_object PROVE EndedBy("object", "end_object")
  BY <1>1, SameNesting
     DEF Gen!jsnpg_end_object, Gen!Offer, Gen!can_pop, Gen!MayPop,
         Gen!Callback, Gen!Abort, Gen!Tracking, Gen!Top, Outcome, EndedBy
<1>2. ASSUME Gen!jsnpg_end_array PROVE EndedBy("array", "end_array")
  BY <1>2, SameNesting
     DEF Gen!jsnpg_end_array, Gen!Offer, Gen!can_pop, Gen!MayPop,
         Gen!Callback, Gen!Abort, Gen!Tracking, Gen!Top, Outcome, EndedBy
<1> QED BY <1>1, <1>2

-----------------------------------------------------------------------------
(* An event keeps the invariant if the text and the stream it leads to,    *)
(* when nothing fails, fit the nesting it leads to.                        *)
LEMMA PrintKeeps ==
  ASSUME Inv, NEW e \in GenEvents, NEW may, NEW s, NEW k \in BOOLEAN,
         Outcome(e, may, s, k),
         NEW failures, NEW between, NEW written, NEW after,
         IF status' = "aborted" THEN UNCHANGED <<jos, text, cut>>
                                ELSE Written(failures, between, written, after),
         failures \subseteq Streams, between \in Streams, after \in Streams,
         written \in Readers,
         may => s \in Seq(Containers) /\ Len(s) <= GenSize,
         Counted /\ ~cut /\ may => Fits(written, after, s, k)
  PROVE  Inv'
<1>1. /\ event' \in {"none", "value", "key", "start_array", "end_array", "start_object", "end_object"}
      /\ jos \in Streams /\ text \in Readers /\ cut \in BOOLEAN
  BY DEF Outcome, GenEvents, Inv, TypeOK, Streams
<1>2. CASE ~may
  <2>1. /\ status' = "aborted" /\ UNCHANGED <<jos, text, cut>>
        /\ UNCHANGED <<stack, key_next, error, returned, failed>>
    BY <1>2 DEF Outcome
  <2>2. TypeOK'
    BY <1>1, <2>1 DEF Inv, TypeOK, Gen!TypeOK
  <2> QED BY <2>1, <2>2 DEF Inv
<1>3. CASE may
  <2>1. /\ status' = "ready" /\ stack' = s /\ key_next' = k
        /\ \/ returned' = TRUE /\ UNCHANGED <<error, failed>>
           \/ returned' = FALSE /\ failed' = "silent" /\ error' = error
           \/ returned' = FALSE /\ failed' = "utf8" /\ error' = "utf8"
    BY <1>3 DEF Outcome
  <2>2. Gen!TypeOK'
    BY <1>1, <1>3, <2>1, SameNesting DEF Inv, TypeOK, Gen!TypeOK
  <2>3. Written(failures, between, written, after)
    BY <2>1
  <2>4. jos' \in Streams /\ text' \in Readers /\ cut' \in BOOLEAN
    BY <1>1, <2>3 DEF Written
  <2>5. TypeOK'
    <3>1. text'.open \in Seq(Containers)
      BY <2>4 DEF Readers
    <3> QED BY <2>2, <2>4, <3>1 DEF TypeOK, Streams
  <2>6. ~cut' => ~cut /\ jos' = after /\ text' = written
    BY <1>1, <2>3 DEF Written
  <2>7. Counted /\ ~cut' => Fits(text', jos', stack', key_next')
    BY <1>3, <2>1, <2>6
  <2> QED BY <2>4, <2>5, <2>7 DEF Inv
<1> QED BY <1>2, <1>3 DEF Outcome

LEMMA InvFacts ==
  ASSUME Inv
  PROVE  /\ jos \in Streams /\ text \in Readers /\ TypeOK
         /\ stack \in Seq(Containers) /\ Len(stack) \in Nat /\ Len(stack) <= GenSize
         /\ key_next \in BOOLEAN
BY SameNesting DEF Inv, TypeOK, Gen!TypeOK, Streams

(* What the prefix of a value or a key has become when it is wanted.       *)
LEMMA PrintTypes ==
  ASSUME Inv
  PROVE  /\ Prefix(jos, text) \in Readers /\ PrefixFailures(jos) \subseteq Streams
         /\ Prefixed(jos) \in Streams
         /\ \A kind \in Kinds : Read(Prefix(jos, text), kind) \in Readers
BY InvFacts, PrefixType, StreamTypes, ReadType

LEMMA ValueFits ==
  ASSUME Inv, Counted, ~cut, MayValue, NEW kind \in {"value", "lbrace", "lbracket"}
  PROVE  LET p == Prefix(jos, text)
         IN TokenFits(p, kind) /\ LaidOut(p, kind) /\ p.json /\ p.layout
            /\ p.open = stack /\ p.indent = jos.indent
<1> DEFINE p == Prefix(jos, text)
<1>1. Fits(text, jos, stack, key_next)
  BY DEF Inv
<1>2. /\ p.json /\ p.layout
      /\ p.open = stack /\ p.indent = jos.indent
      /\ p.need = IF jos.comma /\ ~jos.key THEN "next" ELSE text.need
      /\ \A place \in Places : LaidOut(p, place)
  BY <1>1, InvFacts, PrefixFits
<1> HIDE DEF p
<1>3. ValueHere(p)
  BY <1>1, <1>2 DEF ValueHere, Fits, MayValue, Counted, Peek
<1>4. TokenFits(p, kind)
  BY <1>3 DEF TokenFits, IsOpener, IsCloser
<1> QED BY <1>2, <1>4 DEF Places, p

LEMMA ValueKeeps == ASSUME Inv, Event(Gen!jsnpg_value, print_value) PROVE Inv'
<1> DEFINE p == Prefix(jos, text)
           written == Read(p, "value")
           after == Prefixed(jos)
           k == key_next \/ (GenSize > 0 /\ Peek(stack) = "object")
<1>1. Gen!jsnpg_value /\ IF status' = "aborted" THEN UNCHANGED <<jos, text, cut>>
                         ELSE Written(PrefixFailures(jos), after, written, after)
  BY DEF Event, print_value
<1>2. Outcome("value", MayValue, stack, k) /\ k \in BOOLEAN /\ "value" \in GenEvents
  BY <1>1, ValueOutcome, InvFacts DEF GenEvents
<1>3. "value" \in Kinds /\ "value" \in {"value", "lbrace", "lbracket"}
  BY DEF Kinds
<1>4. ASSUME Counted, ~cut, MayValue PROVE Fits(written, after, stack, k)
  <2>1. /\ TokenFits(p, "value") /\ LaidOut(p, "value") /\ p.json /\ p.layout
        /\ p.open = stack /\ p.indent = jos.indent /\ p \in Readers
    BY <1>3, <1>4, ValueFits, PrintTypes
  <2> HIDE DEF p
  <2>2. /\ written.json /\ written.layout /\ written.indent = jos.indent
        /\ ~written.line /\ written.spaces = 0 /\ written.started
    BY <1>3, <2>1, ReadFitting
  <2>3. written.open = stack /\ written.need = "sep"
    BY <1>3, <2>1, ReadFields
  <2>4. Fits(text, jos, stack, key_next)
    BY <1>4 DEF Inv
  <2>5. /\ after.indent = jos.indent /\ after.level = jos.level /\ after.comma /\ ~after.key
        /\ after.nl <=> (jos.nl \/ (jos.indent > 0 /\ ~jos.key))
    BY InvFacts, StreamFields
  <2> HIDE DEF written, after
  <2> QED BY <1>4, <2>2, <2>3, <2>4, <2>5 DEF Fits, Counted
<1> HIDE DEF written, after, k, p
<1>5. written \in Readers /\ after \in Streams /\ PrefixFailures(jos) \subseteq Streams
  BY <1>3, PrintTypes DEF p, written, after
<1> QED BY <1>1, <1>2, <1>4, <1>5, InvFacts, PrintKeeps

LEMMA KeyKeeps == ASSUME Inv, Event(Gen!jsnpg_key, print_key) PROVE Inv'
<1> DEFINE p == Prefix(jos, text)
           name == Read(p, "name")
           named == Read(name, "colon")
           n == IF jos.indent > 0 THEN 1 ELSE 0
           written == ReadSpace(named, FALSE, n)
           between == Prefixed(jos)
           after == [between EXCEPT !.key = TRUE]
           may == GenSize > 0 => key_next
           k == FALSE
<1>1. Gen!jsnpg_key /\ IF status' = "aborted" THEN UNCHANGED <<jos, text, cut>>
                       ELSE Written(PrefixFailures(jos), between, written, after)
  BY DEF Event, print_key
<1>2. Outcome("key", may, stack, k) /\ k \in BOOLEAN /\ ~k /\ "key" \in GenEvents
  BY <1>1, KeyOutcome, InvFacts DEF GenEvents
<1>3. "name" \in Kinds /\ "colon" \in Kinds /\ "name" \in Places /\ n \in Int
  BY DEF Kinds, Places
<1>4. name \in Readers /\ named \in Readers
  BY <1>3, PrintTypes, ReadType
<1>5. ASSUME Counted, ~cut, may PROVE Fits(written, after, stack, k)
  <2>1. Fits(text, jos, stack, key_next) /\ key_next /\ Peek(stack) = "object" /\ stack # <<>>
    BY <1>5, InvFacts, PeekFacts DEF Inv, Fits, Counted, Containers
  <2>2. /\ p.json /\ p.layout /\ p.open = stack /\ p.indent = jos.indent /\ p \in Readers
        /\ p.need = IF jos.comma /\ ~jos.key THEN "next" ELSE text.need
        /\ LaidOut(p, "name")
    BY <1>3, <2>1, InvFacts, PrefixFits, PrintTypes
  <2> HIDE DEF p
  <2>3. p.need \in {"first", "next"}
    BY <2>1, <2>2 DEF Fits
  <2>4. TokenFits(p, "name")
    BY <2>1, <2>2, <2>3 DEF TokenFits, IsOpener, IsCloser
  <2>5. /\ name.json /\ name.layout /\ name.indent = jos.indent
        /\ ~name.line /\ name.spaces = 0 /\ name.started
    BY <1>3, <2>2, <2>4, ReadFitting
  <2>6. name.open = stack /\ name.need = "colon"
    BY <1>3, <2>2, <2>4, ReadFields
  <2> HIDE DEF name
  <2>7. TokenFits(name, "colon") /\ LaidOut(name, "colon")
    BY <2>5, <2>6 DEF TokenFits, LaidOut, StartsLine, FollowsKey, IsOpener, IsCloser
  <2>8. /\ named.json /\ named.layout /\ named.indent = jos.indent
        /\ ~named.line /\ named.spaces = 0 /\ named.started
    BY <1>3, <1>4, <2>5, <2>7, ReadFitting
  <2>9. named.open = stack /\ named.need = "value"
    BY <1>3, <1>4, <2>6, <2>7, ReadFields
  <2> HIDE DEF named
  <2>10. /\ written.json /\ written.layout /\ written.indent = jos.indent
         /\ written.open = stack /\ written.need = "value" /\ written.started
         /\ ~written.line /\ written.spaces = n
    <3>1. /\ written.indent = named.indent /\ written.json = named.json
          /\ written.open = named.open /\ written.need = named.need
          /\ written.started = named.started /\ written.spaces = named.spaces + n
      BY <1>4 DEF ReadSpace, Readers
    <3>2. written.layout <=> named.layout /\ ~(FALSE /\ (named.line \/ named.spaces > 0))
      BY <1>3, <1>4, ReadSpaceFields, Zenon
    <3>3. written.line <=> named.line \/ FALSE
      BY <1>3, <1>4, ReadSpaceFields, Zenon
    <3> HIDE DEF written
    <3> QED BY <1>3, <2>8, <2>9, <3>1, <3>2, <3>3
  <2>11. /\ between.indent = jos.indent /\ between.level = jos.level /\ between.comma /\ ~between.key
         /\ between.nl <=> (jos.nl \/ (jos.indent > 0 /\ ~jos.key))
         /\ between \in Streams
    BY InvFacts, StreamFields, PrintTypes
  <2> HIDE DEF between
  <2>12. /\ after.indent = jos.indent /\ after.level = jos.level /\ after.comma /\ after.key
         /\ after.nl = between.nl
    BY <2>11 DEF Streams
  <2> HIDE DEF written, after
  <2> QED BY <1>2, <2>1, <2>10, <2>11, <2>12 DEF Fits
<1>6. written \in Readers
  BY <1>3, <1>4, ReadSpaceFields
<1>7. between \in Streams /\ after \in Streams /\ PrefixFailures(jos) \subseteq Streams
  BY InvFacts, PrintTypes, StreamTypes
<1>8. may => stack \in Seq(Containers) /\ Len(stack) <= GenSize
  BY InvFacts
<1> HIDE DEF written, between, after, may, k
<1> QED BY <1>1, <1>2, <1>5, <1>6, <1>7, <1>8, PrintKeeps

(* The level counts what is open, as long as it does not wrap around.      *)
LEMMA LevelFacts ==
  ASSUME Counted, NEW n \in Nat
  PROVE  /\ n + 1 <= GenSize => (n + 1) % LevelRange = n + 1
         /\ n > 0 /\ n <= GenSize => (n - 1) % LevelRange = n - 1
<1>1. LevelRange \in Nat \ {0} /\ GenSize \in Nat /\ GenSize < LevelRange
  BY JsonOutputAssumption DEF Counted
<1>2. \A m \in Nat, w \in Nat \ {0} : m < w => m % w = m
  OBVIOUS
<1> QED BY <1>1, <1>2

LEMMA StartKeeps ==
  ASSUME Inv, NEW type \in Containers, NEW e \in GenEvents, NEW bracket \in {"lbrace", "lbracket"},
         TypeOf(bracket) = type,
         StartedBy(type, e),
         IF status' = "aborted" THEN UNCHANGED <<jos, text, cut>> ELSE print_start(bracket)
  PROVE  Inv'
<1> DEFINE p == Prefix(jos, text)
           written == Read(p, bracket)
           prefixed == Prefixed(jos)
           after == Started(prefixed)
           may == MayValue /\ (GenSize > 0 => Len(stack) < GenSize)
           s == IF GenSize > 0 THEN Opened(stack, type) ELSE stack
           k == IF GenSize > 0 THEN type = "object" ELSE key_next
<1>1. IF status' = "aborted" THEN UNCHANGED <<jos, text, cut>>
      ELSE Written(PrefixFailures(jos), after, written, after)
  BY DEF print_start
<1>2. Outcome(e, may, s, k) /\ k \in BOOLEAN
  BY InvFacts DEF StartedBy
<1>3. bracket \in Kinds /\ bracket \in {"value", "lbrace", "lbracket"} /\ IsOpener(bracket)
  BY DEF Kinds, IsOpener
<1>4. ASSUME Counted, ~cut, may PROVE Fits(written, after, s, k)
  <2>1. /\ TokenFits(p, bracket) /\ LaidOut(p, bracket) /\ p.json /\ p.layout
        /\ p.open = stack /\ p.indent = jos.indent /\ p \in Readers
    BY <1>3, <1>4, ValueFits, PrintTypes
  <2> HIDE DEF p
  <2>2. /\ written.json /\ written.layout /\ written.indent = jos.indent
        /\ ~written.line /\ written.spaces = 0 /\ written.started
    BY <1>3, <2>1, ReadFitting
  <2>3. written.open = Opened(stack, type) /\ written.need = "first"
    BY <1>3, <2>1, ReadFields
  <2>4. Fits(text, jos, stack, key_next)
    BY <1>4 DEF Inv
  <2>5. /\ prefixed.indent = jos.indent /\ prefixed.level = jos.level /\ ~prefixed.key
        /\ prefixed.nl <=> (jos.nl \/ (jos.indent > 0 /\ ~jos.key))
        /\ prefixed \in Streams
    BY InvFacts, StreamFields, PrintTypes
  <2> HIDE DEF prefixed
  <2>6. /\ after.indent = jos.indent /\ after.level = (jos.level + 1) % LevelRange
        /\ ~after.comma /\ ~after.key /\ after.nl = prefixed.nl
    BY <2>5, StreamFields
  <2>7. s = Opened(stack, type) /\ (k <=> type = "object")
        /\ Len(s) = Len(stack) + 1 /\ Peek(s) = type /\ s # <<>>
    <3>1. Opened(stack, type) # <<>>
      BY InvFacts, OpenedFacts, EmptySeq
    <3> QED BY <1>4, <3>1, InvFacts, OpenedFacts DEF Counted
  <2>8. after.level = Len(s)
    BY <1>4, <2>4, <2>6, <2>7, InvFacts, LevelFacts, JsonOutputAssumption DEF Fits, Counted
  <2> HIDE DEF written, after, s, k
  <2> QED BY <2>2, <2>3, <2>4, <2>5, <2>6, <2>7, <2>8 DEF Fits
<1>5. written \in Readers /\ PrefixFailures(jos) \subseteq Streams
  BY <1>3, PrintTypes
<1>6. after \in Streams
  BY PrintTypes, StreamTypes
<1>7. may => s \in Seq(Containers) /\ Len(s) <= GenSize
  BY InvFacts, OpenedFacts, JsonOutputAssumption
<1> HIDE DEF written, after, may, s, k
<1> QED BY <1>1, <1>2, <1>4, <1>5, <1>6, <1>7, PrintKeeps

(* Before an end there is a line and an indent of one level less, unless   *)
(* the container is empty.                                                 *)
LEMMA EndFits ==
  ASSUME NEW r \in Readers, NEW j \in Streams, NEW s \in Seq(Containers), NEW k \in BOOLEAN,
         Fits(r, j, s, k), NEW bracket \in {"rbrace", "rbracket"},
         Peek(s) = TypeOf(bracket), TypeOf(bracket) = "object" => k,
         Counted, Len(s) <= GenSize,
         NEW q, q = IF j.comma THEN Prefix(Ending(j), r) ELSE r
  PROVE  /\ q \in Readers /\ q.json /\ q.layout /\ q.open = s /\ q.indent = j.indent
         /\ TokenFits(q, bracket) /\ LaidOut(q, bracket)
         /\ ~j.key /\ s # <<>> /\ (j.indent > 0 => j.nl)
         /\ (j.level - 1) % LevelRange = Len(s) - 1
<1>1. /\ s # <<>> /\ Len(s) \in Nat /\ Len(s) > 0
      /\ ~j.key /\ r.need \in {"first", "sep"} /\ (r.need = "sep" <=> j.comma)
      /\ r.started /\ (j.indent > 0 => j.nl) /\ j.level = Len(s)
      /\ ~r.line /\ r.spaces = 0 /\ r.json /\ r.layout /\ r.open = s /\ r.indent = j.indent
  <2>1. s # <<>>
    BY PeekFacts DEF TypeOf, Containers
  <2>2. Len(s) \in Nat /\ Len(s) > 0
    BY <2>1, EmptySeq
  <2>3. ~j.key
    BY DEF Fits, TypeOf
  <2> QED BY <2>1, <2>2, <2>3 DEF Fits
<1>2. (j.level - 1) % LevelRange = Len(s) - 1
  BY <1>1, LevelFacts
<1>3. \A w : w.open = s /\ w.need \in {"first", "sep"} => TokenFits(w, bracket)
  BY DEF TokenFits, IsOpener, IsCloser
<1>4. CASE ~j.comma
  <2>1. ~StartsLine(r, bracket) /\ ~FollowsKey(r)
    BY <1>1, <1>4 DEF StartsLine, FollowsKey, IsCloser
  <2> QED BY <1>1, <1>2, <1>3, <1>4, <2>1 DEF LaidOut
<1>5. CASE j.comma
  <2> DEFINE n == Ending(j).indent * Ending(j).level
  <2>1. /\ Ending(j) \in Streams /\ Ending(j).indent = j.indent /\ Ending(j).level = Len(s) - 1
        /\ ~Ending(j).comma /\ ~Ending(j).key /\ Ending(j).nl = j.nl
    BY <1>1, <1>2, StreamTypes, StreamFields
  <2>2. n = j.indent * (Len(s) - 1) /\ n \in Int /\ j.indent \in Nat /\ j.nl \in BOOLEAN
    BY <2>1, IndentFacts
  <2> HIDE DEF n
  <2>3. \A w : w.open = s /\ w.need = "sep" /\ w.indent = j.indent
               => /\ StartsLine(w, bracket) <=> j.indent > 0
                  /\ Depth(w, bracket) = Len(s) - 1 /\ ~FollowsKey(w)
    BY <1>1 DEF StartsLine, FollowsKey, Depth, IsCloser
  <2>4. CASE j.indent > 0
    <3>1. q = ReadSpace(r, j.nl, n)
      BY <1>5, <2>1, <2>4 DEF Prefix, n
    <3>2. q.indent = r.indent /\ q.json = r.json /\ q.open = r.open /\ q.need = r.need
          /\ q.spaces = r.spaces + n
      BY <3>1 DEF ReadSpace, Readers
    <3>8. r \in Readers /\ j.nl \in BOOLEAN /\ n \in Int
      BY <2>2
    <3>3. q.layout <=> r.layout /\ ~(j.nl /\ (r.line \/ r.spaces > 0))
      <4>1. ReadSpace(r, j.nl, n).layout <=> r.layout /\ ~(j.nl /\ (r.line \/ r.spaces > 0))
        BY <3>8, ReadSpaceFields, Zenon
      <4> QED BY <3>1, <4>1
    <3>4. q.line <=> r.line \/ j.nl
      <4>1. ReadSpace(r, j.nl, n).line <=> r.line \/ j.nl
        BY <3>8, ReadSpaceFields, Zenon
      <4> QED BY <3>1, <4>1
    <3>5. q \in Readers
      BY <2>2, <3>1, ReadSpaceFields
    <3>6. q.layout /\ q.line /\ q.spaces = n /\ q.need = "sep" /\ q.open = s /\ q.indent = j.indent
      BY <1>1, <1>5, <2>2, <2>4, <3>2, <3>3, <3>4
    <3>7. LaidOut(q, bracket)
      BY <2>2, <2>3, <2>4, <3>6 DEF LaidOut
    <3> QED BY <1>1, <1>2, <1>3, <3>2, <3>5, <3>6, <3>7
  <2>5. CASE ~(j.indent > 0)
    <3>1. q = r
      BY <1>5, <2>1, <2>5 DEF Prefix
    <3>2. LaidOut(r, bracket)
      BY <1>1, <1>5, <2>3, <2>5 DEF LaidOut
    <3> QED BY <1>1, <1>2, <1>3, <1>5, <3>1, <3>2
  <2> QED BY <2>4, <2>5
<1> QED BY <1>4, <1>5

LEMMA EndKeeps ==
  ASSUME Inv, NEW type \in Containers, NEW e \in GenEvents, NEW bracket \in {"rbrace", "rbracket"},
         TypeOf(bracket) = type,
         EndedBy(type, e),
         IF status' = "aborted" THEN UNCHANGED <<jos, text, cut>> ELSE print_end(bracket)
  PROVE  Inv'
<1> DEFINE ending == Ending(jos)
           q == IF jos.comma THEN Prefix(ending, text) ELSE text
           written == Read(q, bracket)
           last == IF jos.comma THEN Prefixed(ending) ELSE ending
           after == Ended(last)
           failures == IF jos.comma THEN PrefixFailures(ending) ELSE {}
           may == GenSize > 0 => Peek(stack) = type /\ (type = "object" => key_next)
           s == IF GenSize > 0 THEN Closed(stack) ELSE stack
           k == IF GenSize > 0 THEN Peek(Closed(stack)) = "object" ELSE key_next
<1>1. IF status' = "aborted" THEN UNCHANGED <<jos, text, cut>>
      ELSE Written(failures, after, written, after)
  BY DEF print_end
<1>2. Outcome(e, may, s, k) /\ k \in BOOLEAN
  BY InvFacts DEF EndedBy
<1>3. bracket \in Kinds /\ ~IsOpener(bracket) /\ IsCloser(bracket)
  BY DEF Kinds, IsOpener, IsCloser
<1>4. ASSUME Counted, ~cut, may PROVE Fits(written, after, s, k)
  <2>1. /\ Fits(text, jos, stack, key_next) /\ Peek(stack) = TypeOf(bracket)
        /\ TypeOf(bracket) = "object" => key_next
    BY <1>4 DEF Inv, Counted
  <2>2. /\ q \in Readers /\ q.json /\ q.layout /\ q.open = stack /\ q.indent = jos.indent
        /\ TokenFits(q, bracket) /\ LaidOut(q, bracket)
        /\ ~jos.key /\ stack # <<>> /\ (jos.indent > 0 => jos.nl)
        /\ (jos.level - 1) % LevelRange = Len(stack) - 1
    BY <1>4, <2>1, InvFacts, EndFits
  <2> HIDE DEF q
  <2>3. /\ written.json /\ written.layout /\ written.indent = jos.indent
        /\ ~written.line /\ written.spaces = 0 /\ written.started
    BY <1>3, <2>2, ReadFitting
  <2>4. written.open = Closed(stack) /\ written.need = "sep"
    BY <1>3, <2>2, ReadFields
  <2>5. /\ ending \in Streams /\ ending.indent = jos.indent /\ ending.level = Len(stack) - 1
        /\ ~ending.key /\ ending.nl = jos.nl
    BY <2>2, InvFacts, StreamTypes, StreamFields
  <2> HIDE DEF ending
  <2>6. /\ last \in Streams /\ last.indent = jos.indent /\ last.level = Len(stack) - 1
        /\ ~last.key /\ (jos.indent > 0 => last.nl)
    BY <2>2, <2>5, StreamTypes, StreamFields
  <2> HIDE DEF last
  <2>7. /\ after.indent = jos.indent /\ after.level = Len(stack) - 1
        /\ after.comma <=> Len(stack) - 1 > 0
        /\ ~after.key /\ (jos.indent > 0 => after.nl)
    BY <2>6, StreamFields
  <2>8. s = Closed(stack) /\ s \in Seq(Containers) /\ Len(s) = Len(stack) - 1
        /\ (k <=> Peek(s) = "object")
    BY <1>4, <2>2, InvFacts, ClosedFacts DEF Counted
  <2>9. s # <<>> => Len(s) > 0
    BY <2>8, EmptySeq
  <2> HIDE DEF written, after, s, k
  <2> QED BY <2>3, <2>4, <2>7, <2>8, <2>9 DEF Fits
<1>5. ending \in Streams /\ failures \subseteq Streams
  BY InvFacts, StreamTypes
<1>6. written \in Readers
  <2>1. q \in Readers
    BY <1>5, InvFacts, PrefixType
  <2> QED BY <1>3, <2>1, ReadType
<1>7. after \in Streams
  BY <1>5, StreamTypes
<1>8. may => s \in Seq(Containers) /\ Len(s) <= GenSize
  <2>1. may /\ GenSize > 0 => stack # <<>>
    BY InvFacts, PeekFacts
  <2> QED BY <2>1, InvFacts, ClosedFacts, JsonOutputAssumption
<1> HIDE DEF written, after, failures, may, s, k
<1> QED BY <1>1, <1>2, <1>4, <1>5, <1>6, <1>7, <1>8, PrintKeeps

-----------------------------------------------------------------------------
LEMMA ResetKeeps == ASSUME Inv, generator_reset PROVE Inv'
<1>1. /\ UNCHANGED <<jos, text, cut>> /\ UNCHANGED <<stack, key_next, event, status, returned>>
      /\ error' = "none" /\ failed' = "none"
  BY DEF generator_reset, Gen!generator_reset
<1>2. TypeOK'
  BY <1>1 DEF Inv, TypeOK, Gen!TypeOK
<1> QED BY <1>1, <1>2 DEF Inv

LEMMA StutterKeeps == ASSUME Inv, UNCHANGED vars PROVE Inv'
<1>1. UNCHANGED <<jos, text, cut>> /\ UNCHANGED <<stack, key_next, error, event, status, returned, failed>>
  BY DEF vars, gvars
<1>2. TypeOK'
  BY <1>1 DEF Inv, TypeOK, Gen!TypeOK
<1> QED BY <1>1, <1>2 DEF Inv

LEMMA InitInv == ASSUME Init PROVE Inv
<1>1. PICK indent \in Indents :
        /\ jos = [indent |-> indent, comma |-> FALSE, key |-> FALSE, level |-> 0, nl |-> FALSE]
        /\ text = NewReader(indent)
  BY DEF Init
<1>2. /\ cut = FALSE /\ stack = <<>> /\ key_next = FALSE
      /\ error \in {"none", "garbage"} /\ event = "none" /\ status = "ready"
      /\ returned = TRUE /\ failed = "none"
  BY DEF Init, Gen!Init
<1>3. 0 \in 0..(LevelRange - 1)
  BY JsonOutputAssumption
<1>4. jos \in Streams
  BY <1>1, <1>3 DEF Streams
<1>5. <<>> \in Seq(Containers) /\ Len(<<>>) = 0
  OBVIOUS
<1>6. text \in Readers
  BY <1>1, <1>5 DEF Readers, NewReader, Needed
<1>7. TypeOK
  <2>1. Gen!TypeOK
    <3>1. stack \in Seq(Gen!Containers) /\ Len(stack) <= GenSize
      BY <1>2, <1>5, SameNesting, JsonOutputAssumption
    <3>2. TRUE \in BOOLEAN /\ FALSE \in BOOLEAN
      OBVIOUS
    <3> QED BY <1>2, <3>1, <3>2 DEF Gen!TypeOK
  <2>2. text.open \in Seq(Containers)
    BY <1>6 DEF Readers
  <2> QED BY <1>2, <1>4, <2>1, <2>2 DEF TypeOK, Streams
<1>8. Fits(text, jos, stack, key_next)
  BY <1>1, <1>2, <1>5 DEF Fits, NewReader, Peek
<1> QED BY <1>6, <1>7, <1>8 DEF Inv

LEMMA InvStep == ASSUME Inv, [Next]_vars PROVE Inv'
<1>1. CASE Event(Gen!jsnpg_value, print_value)
  BY <1>1, ValueKeeps
<1>2. CASE Event(Gen!jsnpg_key, print_key)
  BY <1>2, KeyKeeps
<1>3. "object" \in Containers /\ "array" \in Containers
  BY DEF Containers
<1>4. CASE Event(Gen!jsnpg_start_object, print_start("lbrace"))
  <2>1. StartedBy("object", "start_object") /\ "start_object" \in GenEvents
    BY <1>4, StartOutcome, InvFacts DEF Event, GenEvents
  <2>2. TypeOf("lbrace") = "object"
    BY DEF TypeOf
  <2> QED BY <1>3, <1>4, <2>1, <2>2, StartKeeps DEF Event
<1>5. CASE Event(Gen!jsnpg_start_array, print_start("lbracket"))
  <2>1. StartedBy("array", "start_array") /\ "start_array" \in GenEvents
    BY <1>5, StartOutcome, InvFacts DEF Event, GenEvents
  <2>2. TypeOf("lbracket") = "array"
    BY DEF TypeOf
  <2> QED BY <1>3, <1>5, <2>1, <2>2, StartKeeps DEF Event
<1>6. CASE Event(Gen!jsnpg_end_object, print_end("rbrace"))
  <2>1. EndedBy("object", "end_object") /\ "end_object" \in GenEvents
    BY <1>6, EndOutcome, InvFacts DEF Event, GenEvents
  <2>2. TypeOf("rbrace") = "object"
    BY DEF TypeOf
  <2> QED BY <1>3, <1>6, <2>1, <2>2, EndKeeps DEF Event
<1>7. CASE Event(Gen!jsnpg_end_array, print_end("rbracket"))
  <2>1. EndedBy("array", "end_array") /\ "end_array" \in GenEvents
    BY <1>7, EndOutcome, InvFacts DEF Event, GenEvents
  <2>2. TypeOf("rbracket") = "array"
    BY DEF TypeOf
  <2> QED BY <1>3, <1>7, <2>1, <2>2, EndKeeps DEF Event
<1>8. CASE generator_reset
  BY <1>8, ResetKeeps
<1>9. CASE UNCHANGED vars
  BY <1>9, StutterKeeps
<1> QED BY <1>1, <1>2, <1>4, <1>5, <1>6, <1>7, <1>8, <1>9 DEF Next, Events

LEMMA InvAlways == Spec => []Inv
<1>1. Init => Inv
  BY InitInv
<1>2. Inv /\ [Next]_vars => Inv'
  BY InvStep
<1> QED BY <1>1, <1>2, PTL DEF Spec

-----------------------------------------------------------------------------
(* The output stream keeps its types, whatever the generator checks: also  *)
(* with none of its checks, and when a call has failed.                    *)
THEOREM TypeCorrect == Spec => []TypeOK
<1>1. Inv => TypeOK
  BY DEF Inv
<1> QED BY <1>1, InvAlways, PTL

(* What a generator that checks its events has put into the buffer is JSON *)
(* of what the caller has opened, to any depth and after any reset, as     *)
(* long as no call has failed.                                             *)
THEOREM WritesJson == Counted => (Spec => []OutputIsJson)
<1>1. SUFFICES ASSUME Counted PROVE Spec => []OutputIsJson
  OBVIOUS
<1>2. Counted => (Inv => OutputIsJson)
  BY DEF Inv, Fits, OutputIsJson
<1>3. Inv => OutputIsJson
  BY <1>1, <1>2
<1> QED BY <1>3, InvAlways, PTL

(* Its new lines and spaces are those the indent asks for.                 *)
THEOREM LaysOut == Counted => (Spec => []OutputIsLaidOut)
<1>1. SUFFICES ASSUME Counted PROVE Spec => []OutputIsLaidOut
  OBVIOUS
<1>2. Counted => (Inv => OutputIsLaidOut)
  BY DEF Inv, Fits, OutputIsLaidOut
<1>3. Inv => OutputIsLaidOut
  BY <1>1, <1>2
<1> QED BY <1>3, InvAlways, PTL

(* The level that decides on indents and on commas is the nesting, also    *)
(* when nothing is indented and only the commas behind an end show it.     *)
LevelIsNesting == ~cut => jos.level = Len(stack)

(* And level, from which it takes them, never wraps around: it is the      *)
(* number of open containers.                                              *)
THEOREM LevelCounts == Counted => (Spec => []LevelIsNesting)
<1>1. SUFFICES ASSUME Counted PROVE Spec => []LevelIsNesting
  OBVIOUS
<1>2. Counted => (Inv => LevelIsNesting)
  BY DEF Inv, Fits, LevelIsNesting
<1>3. Inv => LevelIsNesting
  BY <1>1, <1>2
<1> QED BY <1>3, InvAlways, PTL
=============================================================================
