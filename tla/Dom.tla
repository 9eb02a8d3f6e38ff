-------------------------------- MODULE Dom --------------------------------
(***************************************************************************)
(* The DOM of dom.c: a list of blocks of memory into which the callbacks   *)
(* of a generator write one node after another, and two ways to replay it: *)
(* dom_parse_next, one event per call of the pull parser, and dom_parse,   *)
(* all events into a generator.  Recording may go on between two calls and *)
(* in the callbacks of a replay.  Offsets and sizes are in bytes, and wrap *)
(* around as size_t does.                                                  *)
(***************************************************************************)
EXTENDS Integers, Sequences, SequencesExt, FiniteSets

CONSTANTS NodeSize,      \* NODE_SIZE: 8
          HeaderSize,    \* sizeof(dom)
          MinSize,       \* DOM_MIN_SIZE: 8192
          SizeRange,     \* 2^64: values of size_t
          Counts,        \* lengths of the strings recorded
          MaxEvents,     \* bound on the events recorded
          ReplayNoFirst  \* whether a DOM is replayed into a generator also
                         \* when its first block holds no node

ASSUME DomAssumption ==
  /\ NodeSize \in Nat \ {0} /\ HeaderSize \in Nat
  /\ MinSize \in Nat /\ SizeRange \in Nat \ {0} /\ SizeRange % NodeSize = 0
  /\ Counts \subseteq Nat
  /\ MaxEvents \in Nat
  /\ ReplayNoFirst \in BOOLEAN

VARIABLES
  blocks,     \* the list that begins at root: size and count of each, and
              \* the nodes written into it by their offset
  pull,       \* p->dom_info of a pull parser: block and offset
  pulled,     \* what dom_parse_next returned last
  replay,     \* hdr and offset of dom_parse
  pc,         \* "idle", "read" a node, or "called" the generator with it
  replayed    \* what dom_parse did last

vars == <<blocks, pull, pulled, replay, pc, replayed>>

(* A node is a type, a count, and the value that follows them.  "null"     *)
(* stands for every event without a value, "integer" for both numbers and  *)
(* "string" for strings and keys.                                          *)
Events == [type : {"null"}, count : {0}] \cup [type : {"integer"}, count : {NodeSize}]
          \cup [type : {"string"}, count : Counts]

SizeT(n) == n % SizeRange

dom_size_align(size) == SizeT(NodeSize * (1 + SizeT(size - 1) \div NodeSize))

dom_alloc_size(size) == dom_size_align(IF size < MinSize THEN MinSize ELSE size)

NewBlock(size) ==
  [size |-> dom_alloc_size(size + HeaderSize), count |-> HeaderSize, nodes |-> <<>>]

(* What a reader says that is not an event.                                *)
Says(what) == [type |-> what, count |-> 0]

Start(block) == [block |-> block, offset |-> HeaderSize]

Init ==
  /\ blocks = <<NewBlock(0)>>
  /\ pull = Start(1) /\ pulled = Says("nothing")
  /\ replay = Start(1) /\ pc = "idle" /\ replayed = Says("nothing")

(* A call of the library is made from outside, or from a callback that     *)
(* dom_parse has called.                                                   *)
CallerRuns == pc # "read"

-----------------------------------------------------------------------------
(* Recording.                                                              *)

(* Mutants of the two definitions below: the space for a node is not       *)
(* rounded up, and is compared before it is.                               *)
RequiredUnaligned(count) == count + 2 * NodeSize
FitsCount(block, count) == count <= block.size - block.count

Required(count) == dom_size_align(count + 2 * NodeSize)

Fits(block, count) == Required(count) <= block.size - block.count

WithNode(block, e) ==
  [block EXCEPT !.count = @ + Required(e.count),
                !.nodes = [o \in DOMAIN @ \cup {block.count} |->
                             IF o = block.count THEN e ELSE @[o]]]

(* dom_add_...: the node goes into the last block, or into a new one; when *)
(* that cannot be had nothing is recorded and the callback fails.          *)
dom_add(e) ==
  /\ blocks' = IF Fits(Last(blocks), e.count)
               THEN [blocks EXCEPT ![Len(blocks)] = WithNode(@, e)]
               ELSE Append(blocks, WithNode(NewBlock(Required(e.count)), e))
  /\ UNCHANGED <<pull, pulled, replay, pc, replayed>>

NodeCount(block) == Cardinality(DOMAIN block.nodes)
Recorded == FoldLeft(LAMBDA n, b : n + NodeCount(b), 0, blocks)

Record == CallerRuns /\ Recorded < MaxEvents /\ \E e \in Events : dom_add(e)

-----------------------------------------------------------------------------
(* Replaying.                                                              *)

IsNode(at) == at.offset \in DOMAIN blocks[at.block].nodes
NodeAt(at) == blocks[at.block].nodes[at.offset]
Past(at) == at.offset >= blocks[at.block].count
IsLast(at) == at.block = Len(blocks)

(* Mutant: a string is taken to end where its last byte does.              *)
ExtentUnaligned(e) == 2 * NodeSize + e.count

(* How far the readers advance over a node.                                *)
Extent(e) ==
  SizeT(2 * NodeSize + CASE e.type = "null"    -> 0
                         [] e.type = "integer" -> NodeSize
                         [] e.type = "string"  -> dom_size_align(e.count))

Behind(at) == [at EXCEPT !.offset = SizeT(@ + Extent(NodeAt(at)))]

(* dom_parse_next looks first whether the block is at its end.             *)
Found(at) == IF Past(at) /\ ~IsLast(at) THEN Start(at.block + 1) ELSE at

dom_parse_next ==
  /\ CallerRuns
  /\ LET at == Found(pull) IN
     IF Past(pull) /\ IsLast(pull) THEN pulled' = Says("eof") /\ UNCHANGED pull
     ELSE IF IsNode(at) THEN pulled' = NodeAt(at) /\ pull' = Behind(at)
     ELSE pulled' = Says("garbage") /\ UNCHANGED pull
  /\ UNCHANGED <<blocks, replay, pc, replayed>>

(* jsnpg_parser_new with this DOM as its input.                            *)
jsnpg_parser_new ==
  /\ CallerRuns
  /\ pull' = Start(1) /\ pulled' = Says("nothing")
  /\ UNCHANGED <<blocks, replay, pc, replayed>>

dom_parse ==
  /\ pc = "idle"
  /\ ReplayNoFirst \/ blocks[1].nodes # <<>>
  /\ pc' = "read" /\ replay' = Start(1) /\ replayed' = Says("nothing")
  /\ UNCHANGED <<blocks, pull, pulled>>

(* The node at the position is taken for an event, whether or not one has  *)
(* been written there: what lies in a block that is empty may be any event *)
(* or none, and leads behind the end of the block.                         *)
Deliver ==
  /\ pc = "read" /\ pc' = "called"
  /\ IF IsNode(replay)
     THEN replayed' = NodeAt(replay) /\ replay' = Behind(replay)
     ELSE /\ replayed' = Says("garbage")
          /\ replay' = [replay EXCEPT !.offset = @ + 2 * NodeSize]
  /\ UNCHANGED <<blocks, pull, pulled>>

(* Mutant of the end of the list: a block that is full is taken for the    *)
(* last.                                                                   *)
AtEndOfList == Past(replay)

AtEnd == Past(replay) /\ IsLast(replay)

(* Once the generator has accepted the event, the loop goes on behind it,  *)
(* or in the next block, or ends.                                          *)
Onward ==
  /\ pc = "called"
  /\ IF AtEnd THEN pc' = "idle" /\ replayed' = Says("eof") /\ UNCHANGED replay
     ELSE /\ pc' = "read"
          /\ replay' = Found(replay)
          /\ UNCHANGED replayed
  /\ UNCHANGED <<blocks, pull, pulled>>

(* The generator or a callback has refused the event.                      *)
Stopped ==
  /\ pc = "called"
  /\ pc' = "idle" /\ replayed' = Says("error")
  /\ UNCHANGED <<blocks, pull, pulled, replay>>

Next == Record \/ dom_parse_next \/ jsnpg_parser_new
        \/ dom_parse \/ Deliver \/ Onward \/ Stopped

Spec == Init /\ [][Next]_vars

-----------------------------------------------------------------------------
Positions == [block : DOMAIN blocks, offset : 0..(SizeRange - 1)]

(* Sizes and counts stay multiples of a node, as their alignment requires. *)
TypeOK ==
  /\ \A b \in Range(blocks) :
       /\ b.size % NodeSize = 0 /\ b.count % NodeSize = HeaderSize % NodeSize
       /\ Range(b.nodes) \subseteq Events
  /\ pull \in Positions /\ replay \in Positions
  /\ pulled \in Events \cup {Says(what) : what \in {"nothing", "eof", "garbage"}}
  /\ pc \in {"idle", "read", "called"}
  /\ replayed \in Events \cup {Says(what) : what \in {"nothing", "eof", "error", "garbage"}}

(* Every node lies inside its block, its value included, and none over     *)
(* another.                                                                *)
NodesInBlocks ==
  \A b \in Range(blocks) : \A o \in DOMAIN b.nodes :
    LET end == o + 2 * NodeSize + b.nodes[o].count IN
    /\ end <= b.count /\ b.count <= b.size
    /\ \A other \in DOMAIN b.nodes : other > o => other >= end

(* Both replays give the events that were recorded, in their order and     *)
(* each once, also those recorded since they began, and end only when      *)
(* every event has been given: whatever the sizes, and however the events  *)
(* fall into blocks.                                                       *)
NodesOf(b) == LET offsets == SetToSortSeq(DOMAIN b.nodes, <)
              IN [i \in DOMAIN offsets |-> b.nodes[offsets[i]]]

Log == FlattenSeq([i \in DOMAIN blocks |-> NodesOf(blocks[i])])

NodesBefore(at) ==
  LET earlier(i) == IF i < at.block THEN NodeCount(blocks[i])
                    ELSE IF i > at.block THEN 0
                    ELSE Cardinality({o \in DOMAIN blocks[i].nodes : o < at.offset})
  IN FoldLeft(LAMBDA n, i : n + earlier(i), 0, [i \in DOMAIN blocks |-> i])

Pulling == INSTANCE EventLog WITH
             log <- Log, cursor <- NodesBefore(pull), given <- pulled

PullsTheLog == Pulling!Spec

Replays == INSTANCE EventLog WITH
             log <- Log, cursor <- NodesBefore(replay), given <- replayed

ReplaysTheLog == Replays!Spec
=============================================================================
