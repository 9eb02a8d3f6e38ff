----------------------------- MODULE Lifecycle ------------------------------
(***************************************************************************)
(* What parsers and generators own: how they are made, used and freed by a *)
(* caller, by hand or with jsnpg_parse, when any allocation may fail.  A   *)
(* function that makes one of them is a sequence of steps, one for each    *)
(* thing it allocates.  Of what is parsed and generated only the memory it *)
(* takes is kept.  The caller frees a generator when no parser reads its   *)
(* DOM any more, and has one parser and one generator at a time.           *)
(***************************************************************************)
EXTENDS OutputBuffer, FiniteSets

CONSTANTS TextSize,      \* length of the text to be parsed
          Lengths,       \* of what is put into the buffer at a time
          MaxCount,      \* bound on what is put into one buffer
          MaxLost        \* bound: no call is made when more has been lost

ASSUME LifecycleAssumption ==
  TextSize \in Nat /\ Lengths \subseteq Nat \ {0} /\ MaxCount \in Nat /\ MaxLost \in Nat

(* Who has an allocator: a parser, a generator of the caller, and the one  *)
(* that jsnpg_parse makes for callbacks.                                   *)
Owners == {"parser", "generator", "inner"}

VARIABLES
  heap,
  arena,      \* the allocator of each owner, NoArena while it does not exist
  kind,       \* of the generator of the caller
  mos,        \* its buffer, if it is a "json" one
  opts,       \* the input of the parser, and the output of jsnpg_parse
  at,         \* "caller", what is allocated next, or where jsnpg_parse is
  result,     \* the text as the caller has last been given it
  put,        \* bytes put since the generator was made, as its calls told
  lost        \* what nobody can free any more

vars == <<heap, arena, kind, mos, opts, at, result, put, lost>>
memory == <<heap, arena, lost>>
output == <<kind, mos, result, put>>

Exists(o) == arena[o] # NoArena
With(o, a) == [arena EXCEPT ![o] = a]

(* A table that is too small has been written beyond its end: what happens *)
(* then is undefined.                                                      *)
Overrun == \E o \in Owners : Exists(o) /\ ~InTable(heap, arena[o])
At(step) == at = step /\ ~Overrun

CallerRuns == At("caller") /\ Cardinality(lost) <= MaxLost
Parsing == opts.output # "none"             \* in jsnpg_parse

NoOpts == [input |-> "none", output |-> "none"]
NoResult == [block |-> NULL, count |-> 0, capacity |-> 0]

Init ==
  /\ heap = [a \in {} |-> 0] /\ arena = [o \in Owners |-> NoArena] /\ lost = {}
  /\ kind = "none" /\ mos = NoBuffer /\ result = NoResult /\ put = 0
  /\ opts = NoOpts /\ at = "caller"

(* The memory behind a step that has led to the heap h and the allocators  *)
(* a: the owners freed are freed, and the last pointers to those left are  *)
(* dropped.                                                                *)
Settle(h, a, freed, left) ==
  /\ heap' = allocator_free(h, {a[o] : o \in freed})
  /\ arena' = [o \in Owners |-> IF o \in freed \cup left THEN NoArena ELSE a[o]]
  /\ lost' = lost \cup UNION {Blocks(a[o]) : o \in left}

Kept(o, m) == Settle(m.heap, With(o, m.arena), {}, {})

-----------------------------------------------------------------------------
(* Making a parser.                                                        *)

Inputs == {i \in {"bytes", "dom", "bad"} : i = "dom" => kind = "dom"}
Outputs == {o \in {"callbacks", "generator", "bad"} : o = "generator" => Exists("generator")}

(* jsnpg_parser_new_opt, or jsnpg_parse_opt, which begins with it.         *)
NewParser ==
  /\ CallerRuns /\ ~Exists("parser")
  /\ \E n \in allocator_new(heap) :
       /\ Kept("parser", n)
       /\ IF n.arena = NoArena THEN UNCHANGED <<at, opts>>
          ELSE at' = "parser" /\ opts' \in [input : Inputs, output : {"none"} \cup Outputs]
  /\ UNCHANGED output

(* parser_new: the struct with its stack, then the stream.                 *)
ParserStruct ==
  /\ At("parser") \/ At("stream")
  /\ \E m \in allocator_alloc(heap, arena["parser"], StructSize) :
       IF m.p = NULL
       THEN Settle(m.heap, With("parser", m.arena), {"parser"}, {}) /\ at' = "caller" /\ opts' = NoOpts
       ELSE Kept("parser", m) /\ at' = (IF at = "parser" THEN "stream" ELSE "input") /\ UNCHANGED opts
  /\ UNCHANGED output

Onward == at' = IF Parsing THEN "output" ELSE "caller"

(* parser_set_bytes does not look whether there is a copy to write to.     *)
SetBytes ==
  /\ At("input") /\ opts.input = "bytes"
  /\ \E m \in allocator_alloc(heap, arena["parser"], TextSize + 1) :
       Kept("parser", m) /\ IF m.p = NULL THEN at' = "crashed" ELSE Onward
  /\ UNCHANGED <<output, opts>>

SetDom == At("input") /\ opts.input = "dom" /\ Onward /\ UNCHANGED <<memory, output, opts>>

(* The pull parser is returned with its error, jsnpg_parse_opt returns the *)
(* error without the parser.                                               *)
BadInput ==
  /\ At("input") /\ opts.input = "bad"
  /\ at' = "caller"
  /\ IF Parsing THEN Settle(heap, arena, {}, {"parser"}) /\ opts' = NoOpts
                ELSE UNCHANGED <<memory, opts>>
  /\ UNCHANGED output

jsnpg_parser_free ==
  /\ CallerRuns /\ Exists("parser")
  /\ Settle(heap, arena, {"parser"}, {}) /\ opts' = NoOpts
  /\ UNCHANGED <<output, at>>

-----------------------------------------------------------------------------
(* Making a generator: for the caller or, in jsnpg_parse, for callbacks.   *)

Made == IF Parsing THEN "inner" ELSE "generator"

(* A generator could not be made in a call that has freed the owners freed *)
(* and returns: jsnpg_parse_opt leaves its parser, and the functions that  *)
(* fail behind generator_new leave the generator.                          *)
NoGenerator(h, a, freed, left) ==
  /\ Settle(h, a, freed, left \cup (IF Parsing THEN {"parser"} ELSE {}))
  /\ at' = "caller"
  /\ opts' = IF Parsing THEN NoOpts ELSE opts
  /\ kind' = IF Parsing THEN kind ELSE "none"
  /\ UNCHANGED <<mos, result, put>>

jsnpg_generator_new_opt ==
  /\ CallerRuns /\ ~Exists("generator")
  /\ \E n \in allocator_new(heap) :
       IF n.arena = NoArena THEN NoGenerator(n.heap, arena, {}, {})
       ELSE /\ Kept("generator", n) /\ at' = "generator"
            /\ kind' \in {"json", "dom", "callbacks"}
            /\ UNCHANGED <<mos, result, put, opts>>

(* jsnpg_parse_opt when it has its parser.                                 *)
Output ==
  /\ At("output")
  /\ \/ opts.output = "bad" /\ NoGenerator(heap, arena, {}, {})
     \/ opts.output = "generator" /\ at' = "parse" /\ UNCHANGED <<memory, output, opts>>
     \/ /\ opts.output = "callbacks"
        /\ \E n \in allocator_new(heap) :
             IF n.arena = NoArena THEN NoGenerator(n.heap, arena, {}, {})
             ELSE Kept("inner", n) /\ at' = "generator" /\ UNCHANGED <<output, opts>>

(* generator_new: the struct with its stack.                               *)
GeneratorStruct ==
  /\ At("generator")
  /\ \E m \in allocator_alloc(heap, arena[Made], StructSize) :
       IF m.p = NULL THEN NoGenerator(m.heap, With(Made, m.arena), {Made}, {})
       ELSE /\ Kept(Made, m) /\ UNCHANGED <<output, opts>>
            /\ at' = CASE Parsing -> "parse"
                       [] ~Parsing /\ kind = "callbacks" -> "caller"
                       [] ~Parsing /\ kind # "callbacks" -> kind

(* json_generator: both streams; dom_generator: the first block.           *)
Context ==
  /\ At("json") \/ At("mos") \/ At("dom")
  /\ \E m \in allocator_alloc(heap, arena["generator"], StructSize) :
       IF m.p = NULL THEN NoGenerator(m.heap, With("generator", m.arena), {}, {"generator"})
       ELSE /\ Kept("generator", m) /\ UNCHANGED <<output, opts>>
            /\ at' = IF at = "json" THEN "mos" ELSE "caller"

jsnpg_generator_free ==
  /\ CallerRuns /\ Exists("generator")
  /\ ~(Exists("parser") /\ opts.input = "dom")
  /\ Settle(heap, arena, {"generator"}, {})
  /\ kind' = "none" /\ mos' = NoBuffer /\ result' = NoResult /\ put' = 0
  /\ UNCHANGED <<at, opts>>

-----------------------------------------------------------------------------
(* Using a generator, by hand or in a parse, which a failure ends.         *)

Generates(k) ==
  /\ kind = k
  /\ (CallerRuns /\ Exists("generator")) \/ (At("parse") /\ opts.output = "generator")
Continues(ok) == at' = IF ok \/ at = "caller" THEN at ELSE "ending"

Writes(n) ==
  mos_puts(heap, arena["generator"], mos, n)
    \cup (IF n <= NumberRoom THEN jos_putn(heap, arena["generator"], mos, n) ELSE {})

(* One call of the output stream puts n bytes.                             *)
Put ==
  /\ Generates("json")
  /\ \E n \in Lengths : mos.count + n <= MaxCount /\ \E r \in Writes(n) :
       /\ Kept("generator", r) /\ mos' = r.mos
       /\ put' = IF r.ok THEN put + n ELSE put
       /\ Continues(r.ok)
  /\ UNCHANGED <<kind, result, opts>>

(* An event that needs another block of the DOM.                           *)
Record ==
  /\ Generates("dom")
  /\ \E m \in allocator_alloc(heap, arena["generator"], StructSize) :
       Kept("generator", m) /\ Continues(m.p # NULL)
  /\ UNCHANGED <<output, opts>>

EndParse ==
  /\ At("parse") \/ At("ending")
  /\ Settle(heap, arena, {"parser"} \cup (IF opts.output = "callbacks" THEN {"inner"} ELSE {}), {})
  /\ at' = "caller" /\ opts' = NoOpts
  /\ UNCHANGED output

(* What mos holds, as a pointer of the caller and a length.                *)
Given(m, buffer) == [block |-> buffer, count |-> m.count, capacity |-> m.capacity]

(* Mutant: the buffer is looked up before the NUL is put behind the text.  *)
GivenEarly(m) == Given(m, mos.buffer)
GivenNow(m) == Given(m, m.buffer)

jsnpg_result_string ==
  /\ CallerRuns /\ kind = "json" /\ mos.count < MaxCount
  /\ \E r \in mos_puts(heap, arena["generator"], mos, 1) :
       /\ Kept("generator", r) /\ mos' = r.mos
       /\ put' = IF r.ok THEN put + 1 ELSE put
       /\ result' = IF r.ok THEN GivenNow(r.mos) ELSE result
  /\ UNCHANGED <<kind, at, opts>>

jsnpg_result_bytes ==
  /\ CallerRuns /\ kind = "json"
  /\ result' = GivenNow(mos)
  /\ UNCHANGED <<memory, kind, mos, put, at, opts>>

Next == \/ NewParser \/ ParserStruct \/ SetBytes \/ SetDom \/ BadInput \/ jsnpg_parser_free
        \/ jsnpg_generator_new_opt \/ Output \/ GeneratorStruct \/ Context \/ jsnpg_generator_free
        \/ Put \/ Record \/ EndParse \/ jsnpg_result_string \/ jsnpg_result_bytes

Spec == Init /\ [][Next]_vars
-----------------------------------------------------------------------------
TypeOK ==
  /\ heap \in [DOMAIN heap -> Nat] /\ DOMAIN heap \subseteq Address
  /\ arena \in [Owners -> [self : Nat, allocs : Nat, capacity : Nat, entries : Seq(Address)]]
  /\ mos \in [buffer : Nat, capacity : Nat, count : Nat]
  /\ result \in [block : Nat, count : Nat, capacity : Nat]
  /\ kind \in {"none", "json", "dom", "callbacks"}
  /\ opts \in [input : {"none", "bytes", "dom", "bad"},
               output : {"none", "callbacks", "generator", "bad"}]
  /\ at \in {"caller", "parser", "stream", "input", "output", "generator", "json", "mos", "dom",
             "parse", "ending", "crashed"}
  /\ put \in Nat /\ lost \subseteq Address

(* Every block of the heap h belongs to one of the allocators a, and is    *)
(* noted there once, or it is gone.                                        *)
Owned(h, a, gone) ==
  /\ DOMAIN h = gone \cup UNION {Blocks(a[o]) : o \in Owners}
  /\ \A o \in Owners :
       /\ NotedOnce(a[o])
       /\ Blocks(a[o]) \cap gone = {}
       /\ \A other \in Owners \ {o} : Blocks(a[o]) \cap Blocks(a[other]) = {}

(* Every block of memory belongs to one allocator, of an owner somebody    *)
(* can still free, and is noted there once, or it is one of those that     *)
(* jsnpg_parse_opt, json_generator and dom_generator are known to leave:   *)
(* nothing else is leaked, nothing is freed twice, and nothing that is     *)
(* still noted has been freed or moved, whichever allocation fails.        *)
HeapIsOwned == Owned(heap, arena, lost)

(* The text of a generator is as long as what its calls said they put,     *)
(* also when some of them have failed or have given back what a number did *)
(* not need, and lies in a buffer that is at least that long and is freed  *)
(* with the generator.                                                     *)
BufferHoldsText ==
  /\ mos.count = put /\ put <= mos.capacity
  /\ IF mos.buffer = NULL THEN mos.capacity = 0
     ELSE /\ mos.buffer \in Range(arena["generator"].entries)
          /\ heap[mos.buffer] = mos.capacity

(* A result that was given out points to the text until the buffer grows,  *)
(* whatever is put behind it and fails: the header promises the lifetime   *)
(* of the generator, of which this is what holds.                          *)
ResultsStand ==
  result.capacity = mos.capacity => result.block = mos.buffer /\ result.count <= mos.count

(* "Internally it just keeps track of all allocations so that it can free  *)
(* them when the allocator is freed" (alloc.c:33): the table has room for  *)
(* all of them.                                                            *)
TableHoldsAll == \A o \in Owners : Exists(o) => InTable(heap, arena[o])
=============================================================================
