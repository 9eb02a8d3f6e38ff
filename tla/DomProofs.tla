----------------------------- MODULE DomProofs ------------------------------
(***************************************************************************)
(* Proofs about the DOM, for every size of a node and of a block and every *)
(* sequence of strings that memory can hold.                               *)
(***************************************************************************)
EXTENDS Dom, SequenceTheorems, TLAPS

(* A block for any string, or the least block, can be counted in a size_t: *)
(* the string lies in memory, and so do the block and its header.          *)
NoWrap ==
  /\ MinSize + 3 * NodeSize <= SizeRange
  /\ \A c \in Counts \cup {NodeSize} : c + HeaderSize + 6 * NodeSize <= SizeRange

IsMultiple(n) == \E k \in Nat : n = NodeSize * k

-----------------------------------------------------------------------------
(* Alignment.                                                              *)
LEMMA Division ==
  ASSUME NEW n \in Nat, NEW d \in Nat \ {0}
  PROVE  /\ n \div d \in Nat
         /\ n % d \in 0..(d - 1)
         /\ n = d * (n \div d) + (n % d)
OBVIOUS

LEMMA MultipleFacts ==
  /\ IsMultiple(0) /\ IsMultiple(NodeSize) /\ IsMultiple(2 * NodeSize) /\ IsMultiple(3 * NodeSize)
  /\ \A a, b : IsMultiple(a) /\ IsMultiple(b) => IsMultiple(a + b)
<1> USE DomAssumption
<1>1. \A k \in Nat : IsMultiple(NodeSize * k)
  BY DEF IsMultiple
<1>2. NodeSize * 0 = 0 /\ NodeSize * 1 = NodeSize /\ NodeSize * 2 = 2 * NodeSize
      /\ NodeSize * 3 = 3 * NodeSize
  OBVIOUS
<1>3. ASSUME NEW a, NEW b, IsMultiple(a), IsMultiple(b) PROVE IsMultiple(a + b)
  <2>1. PICK k \in Nat : a = NodeSize * k
    BY <1>3 DEF IsMultiple
  <2>2. PICK l \in Nat : b = NodeSize * l
    BY <1>3 DEF IsMultiple
  <2>3. a + b = NodeSize * (k + l)
    BY <2>1, <2>2
  <2> QED BY <2>3 DEF IsMultiple
<1>4. 0 \in Nat /\ 1 \in Nat /\ 2 \in Nat /\ 3 \in Nat
  OBVIOUS
<1>5. IsMultiple(0) /\ IsMultiple(NodeSize) /\ IsMultiple(2 * NodeSize) /\ IsMultiple(3 * NodeSize)
  BY <1>1, <1>2, <1>4
<1> QED BY <1>3, <1>5

(* Two multiples less than a node apart are the same.                      *)
LEMMA MultiplesApart ==
  ASSUME NEW a \in Nat, NEW b \in Nat, IsMultiple(a), IsMultiple(b), a < b
  PROVE  a + NodeSize <= b
<1> USE DomAssumption
<1>1. PICK k \in Nat : a = NodeSize * k
  BY DEF IsMultiple
<1>2. PICK l \in Nat : b = NodeSize * l
  BY DEF IsMultiple
<1>3. k < l
  <2>1. SUFFICES ASSUME l <= k PROVE FALSE
    BY <1>1, <1>2
  <2>2. NodeSize * l <= NodeSize * k
    BY <2>1
  <2> QED BY <1>1, <1>2, <2>2
<1>4. NodeSize * (k + 1) <= NodeSize * l
  BY <1>3
<1>5. NodeSize * (k + 1) = NodeSize * k + NodeSize
  OBVIOUS
<1> QED BY <1>1, <1>2, <1>4, <1>5

LEMMA MultipleRemainder ==
  ASSUME NEW n \in Nat, NEW m \in Nat, IsMultiple(m)
  PROVE  (n + m) % NodeSize = n % NodeSize
<1> USE DomAssumption
<1>1. PICK k \in Nat : m = NodeSize * k
  BY DEF IsMultiple
<1> DEFINE q == n \div NodeSize  r == n % NodeSize
           q2 == (n + m) \div NodeSize  r2 == (n + m) % NodeSize
<1>2. q \in Nat /\ r \in 0..(NodeSize - 1) /\ n = NodeSize * q + r
  BY Division
<1>3. q2 \in Nat /\ r2 \in 0..(NodeSize - 1) /\ n + m = NodeSize * q2 + r2
  <2>1. n + m \in Nat
    OBVIOUS
  <2> QED BY <2>1, Division
<1> HIDE DEF q, r, q2, r2
<1>4. NodeSize * (q + k) = NodeSize * q + NodeSize * k /\ q + k \in Nat
  BY <1>2
<1>5. NodeSize * (q + k) \in Nat /\ NodeSize * q2 \in Nat
      /\ IsMultiple(NodeSize * (q + k)) /\ IsMultiple(NodeSize * q2)
  <2>1. \A l \in Nat : NodeSize * l \in Nat /\ IsMultiple(NodeSize * l)
    BY DEF IsMultiple
  <2> QED BY <1>3, <1>4, <2>1
<1>6. NodeSize * (q + k) + r = NodeSize * q2 + r2
  BY <1>1, <1>2, <1>3, <1>4, <1>5
<1>7. ~(NodeSize * (q + k) < NodeSize * q2)
  <2>1. SUFFICES ASSUME NodeSize * (q + k) < NodeSize * q2 PROVE FALSE
    OBVIOUS
  <2>2. NodeSize * (q + k) + NodeSize <= NodeSize * q2
    BY <1>5, <2>1, MultiplesApart
  <2> QED BY <1>2, <1>3, <1>5, <1>6, <2>2
<1>8. ~(NodeSize * q2 < NodeSize * (q + k))
  <2>1. SUFFICES ASSUME NodeSize * q2 < NodeSize * (q + k) PROVE FALSE
    OBVIOUS
  <2>2. NodeSize * q2 + NodeSize <= NodeSize * (q + k)
    BY <1>5, <2>1, MultiplesApart
  <2> QED BY <1>2, <1>3, <1>5, <1>6, <2>2
<1>9. r = r2
  BY <1>2, <1>3, <1>5, <1>6, <1>7, <1>8
<1> QED BY <1>9 DEF r, r2

(* dom_size_align rounds up to the next multiple, also from zero, where    *)
(* it takes one from nothing.                                              *)
LEMMA AlignFacts ==
  ASSUME NEW n \in Nat, n + NodeSize <= SizeRange
  PROVE  /\ dom_size_align(n) \in Nat /\ IsMultiple(dom_size_align(n))
         /\ n <= dom_size_align(n) /\ dom_size_align(n) < n + NodeSize
<1> USE DomAssumption
<1>1. \A m \in Nat : m < SizeRange => SizeT(m) = m
  BY DEF SizeT
<1>2. CASE n > 0
  <2> DEFINE q == (n - 1) \div NodeSize  r == (n - 1) % NodeSize
  <2>1. n - 1 \in Nat /\ SizeT(n - 1) = n - 1
    BY <1>1, <1>2
  <2>2. q \in Nat /\ r \in 0..(NodeSize - 1) /\ n - 1 = NodeSize * q + r
    BY <2>1, Division
  <2>3. dom_size_align(n) = SizeT(NodeSize * (1 + q))
    BY <2>1 DEF dom_size_align
  <2> HIDE DEF q, r
  <2>4. NodeSize * (1 + q) = NodeSize * q + NodeSize /\ NodeSize * (1 + q) \in Nat
    BY <2>2
  <2>5. n <= NodeSize * (1 + q) /\ NodeSize * (1 + q) < n + NodeSize
    BY <2>2, <2>4
  <2>6. dom_size_align(n) = NodeSize * (1 + q)
    BY <1>1, <2>3, <2>4, <2>5
  <2>7. IsMultiple(NodeSize * (1 + q))
    <3>1. 1 + q \in Nat
      BY <2>2
    <3> QED BY <3>1 DEF IsMultiple
  <2> QED BY <2>4, <2>5, <2>6, <2>7
<1>3. CASE n = 0
  <2> DEFINE m == SizeRange \div NodeSize
             q == (SizeRange - 1) \div NodeSize  r == (SizeRange - 1) % NodeSize
  <2>1. m \in Nat /\ SizeRange = NodeSize * m
    BY Division
  <2>2. SizeT(n - 1) = SizeRange - 1
    <3>1. (0 - 1) % SizeRange = SizeRange - 1
      OBVIOUS
    <3> QED BY <1>3, <3>1 DEF SizeT
  <2>3. q \in Nat /\ r \in 0..(NodeSize - 1) /\ SizeRange - 1 = NodeSize * q + r
    <3>1. SizeRange - 1 \in Nat
      OBVIOUS
    <3> QED BY <3>1, Division
  <2>4. dom_size_align(n) = SizeT(NodeSize * (1 + q))
    BY <2>2 DEF dom_size_align
  <2> HIDE DEF m, q, r
  <2>5. NodeSize * (1 + q) = NodeSize * q + NodeSize /\ NodeSize * (1 + q) \in Nat
        /\ NodeSize * m \in Nat
    BY <2>1, <2>3
  <2>6. IsMultiple(NodeSize * (1 + q)) /\ IsMultiple(NodeSize * m)
    <3>1. 1 + q \in Nat
      BY <2>3
    <3> QED BY <2>1, <3>1 DEF IsMultiple
  <2>7. SizeRange <= NodeSize * (1 + q) /\ NodeSize * (1 + q) < SizeRange + NodeSize
    BY <2>3, <2>5
  <2>8. NodeSize * (1 + q) = SizeRange
    <3>1. ~(SizeRange < NodeSize * (1 + q))
      BY <2>1, <2>5, <2>6, <2>7, MultiplesApart
    <3> QED BY <2>5, <2>7, <3>1
  <2>9. SizeT(SizeRange) = 0
    BY DEF SizeT
  <2> QED BY <1>3, <2>4, <2>8, <2>9, MultipleFacts
<1> QED BY <1>2, <1>3

LEMMA AlignUnique ==
  ASSUME NEW n \in Nat, n + NodeSize <= SizeRange, NEW m \in Nat, IsMultiple(m),
         n <= m, m < n + NodeSize
  PROVE  dom_size_align(n) = m
<1> DEFINE a == dom_size_align(n)
<1>1. a \in Nat /\ IsMultiple(a) /\ n <= a /\ a < n + NodeSize
  BY AlignFacts
<1> HIDE DEF a
<1>2. a < m => a + NodeSize <= m
  BY <1>1, MultiplesApart
<1>3. m < a => m + NodeSize <= a
  BY <1>1, MultiplesApart
<1>4. a = m
  BY <1>1, <1>2, <1>3, DomAssumption
<1> QED BY <1>4 DEF a

(* What is set aside for an event is what the readers take it to be: the   *)
(* one rounds up the whole, the others only the string.                    *)
LEMMA EventFacts ==
  ASSUME NoWrap, NEW e \in Events
  PROVE  /\ e.count \in Nat /\ e.count + HeaderSize + 6 * NodeSize <= SizeRange
         /\ Required(e.count) \in Nat /\ IsMultiple(Required(e.count))
         /\ e.count + 2 * NodeSize <= Required(e.count)
         /\ Required(e.count) < e.count + 3 * NodeSize
         /\ Extent(e) = Required(e.count)
<1> USE DomAssumption
<1>1. /\ e.count \in Counts \cup {0, NodeSize}
      /\ e.type \in {"null", "integer", "string"}
      /\ e.type = "null" => e.count = 0
      /\ e.type = "integer" => e.count = NodeSize
  BY DEF Events
<1>2. e.count \in Nat /\ e.count + HeaderSize + 6 * NodeSize <= SizeRange
  <2>1. \A c \in Counts \cup {NodeSize} : c \in Nat /\ c + HeaderSize + 6 * NodeSize <= SizeRange
    BY DEF NoWrap
  <2>2. NodeSize + HeaderSize + 6 * NodeSize <= SizeRange
    BY <2>1
  <2>3. 0 + HeaderSize + 6 * NodeSize <= SizeRange
    BY <2>2
  <2>4. CASE e.count = 0
    BY <2>3, <2>4
  <2>5. CASE e.count \in Counts \cup {NodeSize}
    BY <2>1, <2>5
  <2> QED BY <1>1, <2>4, <2>5
<1> DEFINE c == e.count
<1>3. c + 2 * NodeSize \in Nat /\ c + 2 * NodeSize + NodeSize <= SizeRange
  BY <1>2
<1>4. /\ Required(c) \in Nat /\ IsMultiple(Required(c))
      /\ c + 2 * NodeSize <= Required(c) /\ Required(c) < c + 2 * NodeSize + NodeSize
  BY <1>3, AlignFacts DEF Required
<1>5. \A m \in Nat : m < SizeRange => SizeT(m) = m
  BY DEF SizeT
<1>6. CASE e.type = "null"
  <2>1. Required(c) = 2 * NodeSize
    BY <1>1, <1>3, <1>6, AlignUnique, MultipleFacts DEF Required
  <2>2. Extent(e) = SizeT(2 * NodeSize)
    BY <1>6 DEF Extent
  <2> QED BY <1>2, <1>4, <1>5, <2>1, <2>2
<1>7. CASE e.type = "integer"
  <2>1. Required(c) = 3 * NodeSize
    BY <1>1, <1>3, <1>7, AlignUnique, MultipleFacts DEF Required
  <2>2. Extent(e) = SizeT(3 * NodeSize)
    BY <1>7 DEF Extent
  <2> QED BY <1>2, <1>4, <1>5, <2>1, <2>2
<1>8. CASE e.type = "string"
  <2> DEFINE a == dom_size_align(c)
  <2>1. a \in Nat /\ IsMultiple(a) /\ c <= a /\ a < c + NodeSize
    BY <1>2, AlignFacts
  <2>2. Extent(e) = SizeT(2 * NodeSize + a)
    BY <1>8 DEF Extent
  <2> HIDE DEF a
  <2>3. Required(c) = 2 * NodeSize + a
    <3>1. IsMultiple(2 * NodeSize + a)
      BY <2>1, MultipleFacts
    <3>2. 2 * NodeSize + a \in Nat /\ c + 2 * NodeSize <= 2 * NodeSize + a
          /\ 2 * NodeSize + a < c + 2 * NodeSize + NodeSize
      BY <1>2, <2>1
    <3> QED BY <1>3, <3>1, <3>2, AlignUnique DEF Required
  <2>4. SizeT(2 * NodeSize + a) = 2 * NodeSize + a
    BY <1>2, <1>5, <2>1
  <2> QED BY <1>2, <1>4, <2>2, <2>3, <2>4
<1> QED BY <1>1, <1>6, <1>7, <1>8

-----------------------------------------------------------------------------
(* Blocks.                                                                 *)
Nodes == UNION {[offsets -> Events] : offsets \in SUBSET Nat}
Blocks == [size : Nat, count : Nat, nodes : Nodes]

End(b, o) == o + Required(b.nodes[o].count)

(* The nodes of a block fill it without a gap from the header up to its    *)
(* count, and what is to come may still be counted.                        *)
Tiled(b) ==
  /\ b \in Blocks
  /\ IsMultiple(b.size) /\ b.size + 2 * NodeSize < SizeRange
  /\ HeaderSize <= b.count /\ b.count <= b.size
  /\ IsMultiple(b.count - HeaderSize)
  /\ b.count = HeaderSize <=> DOMAIN b.nodes = {}
  /\ HeaderSize < b.count => HeaderSize \in DOMAIN b.nodes
  /\ \A o \in DOMAIN b.nodes :
       /\ HeaderSize <= o /\ End(b, o) <= b.count
       /\ End(b, o) \in DOMAIN b.nodes \cup {b.count}
       /\ \A other \in DOMAIN b.nodes : other > o => other >= End(b, o)

LEMMA NodesFacts ==
  ASSUME NEW b \in Blocks
  PROVE  /\ b.size \in Nat /\ b.count \in Nat
         /\ DOMAIN b.nodes \subseteq Nat
         /\ \A o \in DOMAIN b.nodes : b.nodes[o] \in Events /\ o \in Nat
BY DEF Blocks, Nodes

LEMMA NewBlockTiled ==
  ASSUME NoWrap, NEW n \in Nat, n + HeaderSize + 3 * NodeSize <= SizeRange
  PROVE  /\ Tiled(NewBlock(n)) /\ NewBlock(n).count = HeaderSize
         /\ DOMAIN NewBlock(n).nodes = {}
         /\ n <= NewBlock(n).size - HeaderSize
<1> USE DomAssumption
<1> DEFINE m == IF n + HeaderSize < MinSize THEN MinSize ELSE n + HeaderSize
           size == dom_alloc_size(n + HeaderSize)
<1>1. m \in Nat /\ m + 3 * NodeSize <= SizeRange /\ n + HeaderSize <= m
  BY DEF NoWrap
<1>2. size = dom_size_align(m)
  BY DEF dom_alloc_size
<1>3. size \in Nat /\ IsMultiple(size) /\ m <= size /\ size < m + NodeSize
  BY <1>1, <1>2, AlignFacts
<1> HIDE DEF m, size
<1>4. NewBlock(n) = [size |-> size, count |-> HeaderSize, nodes |-> <<>>]
  BY DEF NewBlock, size
<1>5. DOMAIN <<>> = {} /\ <<>> \in Nodes
  <2>1. <<>> \in [{} -> Events]
    OBVIOUS
  <2>2. {} \in SUBSET Nat
    OBVIOUS
  <2>3. DOMAIN <<>> = {}
    <3>1. \A f \in [{} -> Events] : DOMAIN f = {}
      OBVIOUS
    <3> QED BY <2>1, <3>1
  <2>4. <<>> \in Nodes
    BY <2>1, <2>2, Zenon DEF Nodes
  <2> QED BY <2>3, <2>4
<1>6. NewBlock(n) \in Blocks /\ NewBlock(n).size = size /\ NewBlock(n).count = HeaderSize
      /\ DOMAIN NewBlock(n).nodes = {}
  BY <1>3, <1>4, <1>5 DEF Blocks
<1> HIDE DEF NewBlock
<1>7. HeaderSize - HeaderSize = 0 /\ HeaderSize <= size /\ size + 2 * NodeSize < SizeRange
      /\ n <= size - HeaderSize
  BY <1>1, <1>3
<1> QED BY <1>3, <1>6, <1>7, MultipleFacts DEF Tiled

(* A node that fits goes behind the others.                                *)
LEMMA WithNodeTiled ==
  ASSUME NoWrap, NEW b, Tiled(b), NEW e \in Events, Required(e.count) <= b.size - b.count
  PROVE  /\ Tiled(WithNode(b, e))
         /\ WithNode(b, e).count = b.count + Required(e.count)
         /\ WithNode(b, e).size = b.size
         /\ DOMAIN WithNode(b, e).nodes = DOMAIN b.nodes \cup {b.count}
         /\ \A o \in DOMAIN b.nodes : WithNode(b, e).nodes[o] = b.nodes[o]
<1> USE DomAssumption
<1> DEFINE w == WithNode(b, e)
           more == Required(e.count)
           offsets == DOMAIN b.nodes \cup {b.count}
           nodes == [o \in offsets |-> IF o = b.count THEN e ELSE b.nodes[o]]
<1>1. /\ b \in Blocks /\ b.size \in Nat /\ b.count \in Nat
      /\ \A o \in DOMAIN b.nodes : b.nodes[o] \in Events /\ o \in Nat
  BY NodesFacts DEF Tiled
<1>2. /\ more \in Nat /\ IsMultiple(more) /\ 2 * NodeSize <= more
  BY EventFacts
<1>3. w = [b EXCEPT !.count = b.count + more, !.nodes = nodes]
  BY DEF WithNode
<1>4. nodes \in [offsets -> Events] /\ offsets \in SUBSET Nat
  BY <1>1
<1>5. nodes \in Nodes
  BY <1>4 DEF Nodes
<1> HIDE DEF more, nodes, w
<1>6. w \in Blocks /\ w.count = b.count + more /\ w.nodes = nodes /\ w.size = b.size
  <2>1. b = [size |-> b.size, count |-> b.count, nodes |-> b.nodes]
    BY <1>1 DEF Blocks
  <2>2. w = [size |-> b.size, count |-> b.count + more, nodes |-> nodes]
    BY <1>3, <2>1
  <2>3. b.count + more \in Nat
    BY <1>1, <1>2
  <2> QED BY <1>1, <1>5, <2>2, <2>3 DEF Blocks
<1>7. ASSUME NEW o \in DOMAIN b.nodes
      PROVE  /\ o < b.count /\ nodes[o] = b.nodes[o] /\ End(w, o) = End(b, o)
             /\ o \in Nat /\ o < End(b, o) /\ End(b, o) \in Nat
  <2>1. Required(b.nodes[o].count) \in Nat /\ Required(b.nodes[o].count) > 0
    BY <1>1, EventFacts
  <2>2. o < End(b, o) /\ End(b, o) <= b.count /\ End(b, o) \in Nat /\ o \in Nat
    BY <1>1, <2>1 DEF Tiled, End
  <2>3. o # b.count
    BY <1>1, <2>2
  <2>4. nodes[o] = b.nodes[o]
    BY <2>3 DEF nodes
  <2> QED BY <1>1, <1>6, <2>2, <2>4 DEF End
<1>8. nodes[b.count] = e /\ DOMAIN nodes = offsets
  BY DEF nodes
<1>9. End(w, b.count) = w.count
  BY <1>6, <1>8 DEF End, more
<1>10. /\ IsMultiple(w.size) /\ w.size + 2 * NodeSize < SizeRange
       /\ HeaderSize < w.count /\ w.count <= w.size
  BY <1>1, <1>2, <1>6 DEF Tiled, more
<1>11. IsMultiple(w.count - HeaderSize)
  <2>1. w.count - HeaderSize = (b.count - HeaderSize) + more
    BY <1>1, <1>2, <1>6
  <2> QED BY <1>2, <2>1, MultipleFacts DEF Tiled
<1>12. HeaderSize \in DOMAIN w.nodes
  <2>1. HeaderSize < b.count \/ HeaderSize = b.count
    BY <1>1 DEF Tiled
  <2> QED BY <1>6, <1>8, <2>1 DEF Tiled
<1>13. ASSUME NEW o \in DOMAIN w.nodes
       PROVE  /\ HeaderSize <= o /\ End(w, o) <= w.count
              /\ End(w, o) \in DOMAIN w.nodes \cup {w.count}
              /\ \A other \in DOMAIN w.nodes : other > o => other >= End(w, o)
  <2>1. CASE o \in DOMAIN b.nodes
    <3>1. HeaderSize <= o /\ End(b, o) <= b.count /\ End(b, o) \in DOMAIN b.nodes \cup {b.count}
      BY <2>1 DEF Tiled
    <3>2. End(w, o) = End(b, o) /\ End(b, o) \in Nat
      BY <1>7, <2>1
    <3>3. End(w, o) <= w.count /\ End(w, o) \in DOMAIN w.nodes \cup {w.count}
      BY <1>1, <1>2, <1>6, <1>8, <3>1, <3>2
    <3>4. ASSUME NEW other \in DOMAIN w.nodes, other > o PROVE other >= End(w, o)
      <4>1. CASE other \in DOMAIN b.nodes
        BY <2>1, <3>2, <3>4, <4>1 DEF Tiled
      <4>2. CASE other = b.count
        BY <3>1, <3>2, <4>2
      <4> QED BY <1>6, <1>8, <4>1, <4>2
    <3> QED BY <3>1, <3>3, <3>4
  <2>2. CASE o = b.count
    <3>1. \A other \in DOMAIN w.nodes : ~(other > o)
      BY <1>1, <1>6, <1>7, <1>8, <2>2
    <3>2. HeaderSize <= b.count
      BY DEF Tiled
    <3>3. End(w, o) = w.count /\ w.count \in Nat
      BY <1>1, <1>2, <1>6, <1>9, <2>2
    <3> QED BY <2>2, <3>1, <3>2, <3>3
  <2> QED BY <1>6, <1>8, <2>1, <2>2
<1>14. DOMAIN w.nodes # {} /\ w.count # HeaderSize
  BY <1>6, <1>8, <1>10
<1>15. HeaderSize <= w.count
  BY <1>1, <1>2, <1>6, <1>10
<1>16. Tiled(w)
  BY <1>6, <1>10, <1>11, <1>12, <1>13, <1>14, <1>15 DEF Tiled
<1> QED BY <1>6, <1>7, <1>8, <1>16 DEF w, more

(* A reader that stands at a node finds the next one behind it, or the end *)
(* of the block, and steps over none.                                      *)
Follows(b, o, next) ==
  /\ next \in DOMAIN b.nodes \cup {b.count}
  /\ o < next
  /\ \A other \in DOMAIN b.nodes : other > o => other >= next

LEMMA BehindFacts ==
  ASSUME NoWrap, NEW b, Tiled(b), NEW o \in DOMAIN b.nodes
  PROVE  /\ SizeT(o + Extent(b.nodes[o])) \in Nat
         /\ Follows(b, o, SizeT(o + Extent(b.nodes[o])))
<1> USE DomAssumption
<1>1. b \in Blocks /\ b.count \in Nat /\ b.size \in Nat /\ b.nodes[o] \in Events /\ o \in Nat
  BY NodesFacts DEF Tiled
<1> DEFINE r == Required(b.nodes[o].count)
<1>2. r \in Nat /\ 0 < r /\ Extent(b.nodes[o]) = r
  BY <1>1, EventFacts
<1>3. End(b, o) = o + r
  BY DEF End
<1> HIDE DEF r
<1>4. End(b, o) \in DOMAIN b.nodes \cup {b.count} /\ o < End(b, o) /\ End(b, o) \in Nat
      /\ End(b, o) < SizeRange
  BY <1>1, <1>2, <1>3 DEF Tiled
<1>5. SizeT(o + Extent(b.nodes[o])) = End(b, o)
  BY <1>2, <1>3, <1>4 DEF SizeT
<1>6. \A other \in DOMAIN b.nodes : other > o => other >= End(b, o)
  BY DEF Tiled
<1> QED BY <1>4, <1>5, <1>6 DEF Follows

-----------------------------------------------------------------------------
(* The list of blocks, and places in it.                                   *)
Stored(bs) ==
  /\ bs \in Seq(Blocks) /\ Len(bs) \in Nat \ {0}
  /\ \A i \in DOMAIN bs : Tiled(bs[i]) /\ (i > 1 => HeaderSize < bs[i].count)

Place == [block : Nat, offset : Nat]

AtNode(bs, at) == at.offset \in DOMAIN bs[at.block].nodes
AtEnding(bs, at) == at.offset = bs[at.block].count

(* Where a reader stands that has met nothing but nodes.                   *)
Sound(bs, at) ==
  /\ at \in Place /\ at.block \in DOMAIN bs
  /\ AtNode(bs, at) \/ AtEnding(bs, at)

(* How far one may have come that has taken an empty block for a node.     *)
Near(bs, at) ==
  /\ at \in Place /\ at.block \in DOMAIN bs
  /\ at.offset <= bs[at.block].count + 2 * NodeSize

LEMMA StoredFacts ==
  ASSUME NoWrap, NEW bs, Stored(bs), NEW i \in DOMAIN bs
  PROVE  /\ i \in Nat /\ 1 <= i /\ i <= Len(bs) /\ bs[i] \in Blocks
         /\ bs[i].count \in Nat /\ bs[i].size \in Nat /\ HeaderSize <= bs[i].count
         /\ bs[i].count <= bs[i].size /\ bs[i].size + 2 * NodeSize < SizeRange
         /\ \A o \in DOMAIN bs[i].nodes :
              o \in Nat /\ bs[i].nodes[o] \in Events /\ HeaderSize <= o /\ o < bs[i].count
         /\ HeaderSize < bs[i].count => HeaderSize \in DOMAIN bs[i].nodes
         /\ bs[i].nodes # <<>> => HeaderSize < bs[i].count
<1> USE DomAssumption
<1>1. Tiled(bs[i]) /\ i \in Nat /\ 1 <= i /\ i <= Len(bs)
  BY DEF Stored
<1>2. bs[i] \in Blocks /\ bs[i].count \in Nat /\ bs[i].size \in Nat
  BY <1>1, NodesFacts DEF Tiled
<1>3. /\ HeaderSize <= bs[i].count /\ bs[i].count <= bs[i].size
      /\ bs[i].size + 2 * NodeSize < SizeRange
      /\ HeaderSize < bs[i].count => HeaderSize \in DOMAIN bs[i].nodes
  BY <1>1 DEF Tiled
<1>4. ASSUME NEW o \in DOMAIN bs[i].nodes
      PROVE  o \in Nat /\ bs[i].nodes[o] \in Events /\ HeaderSize <= o /\ o < bs[i].count
  <2>1. o \in Nat /\ bs[i].nodes[o] \in Events
    BY <1>2, NodesFacts
  <2>2. HeaderSize <= o /\ End(bs[i], o) <= bs[i].count
    BY <1>1 DEF Tiled
  <2>3. Required(bs[i].nodes[o].count) \in Nat /\ 0 < Required(bs[i].nodes[o].count)
    BY <2>1, EventFacts
  <2> QED BY <1>2, <2>1, <2>2, <2>3 DEF End
<1>5. ASSUME bs[i].nodes # <<>> PROVE HeaderSize < bs[i].count
  <2>1. DOMAIN bs[i].nodes # {}
    <3>1. PICK offsets \in SUBSET Nat : bs[i].nodes \in [offsets -> Events]
      BY <1>2 DEF Blocks, Nodes
    <3>2. offsets = {} => bs[i].nodes = <<>>
      BY <3>1
    <3> QED BY <1>5, <3>1, <3>2
  <2>2. bs[i].count # HeaderSize
    BY <1>1, <2>1 DEF Tiled
  <2> QED BY <1>2, <1>3, <2>2
<1> QED BY <1>1, <1>2, <1>3, <1>4, <1>5

LEMMA StartFacts ==
  ASSUME NoWrap, NEW bs, Stored(bs), NEW i \in DOMAIN bs
  PROVE  /\ Sound(bs, Start(i)) /\ Start(i).block = i /\ Start(i).offset = HeaderSize
         /\ i > 1 \/ bs[i].nodes # <<>> => AtNode(bs, Start(i))
<1> USE DomAssumption
<1>1. Start(i) \in Place /\ Start(i).block = i /\ Start(i).offset = HeaderSize
  BY StoredFacts DEF Start, Place
<1>2. HeaderSize < bs[i].count => AtNode(bs, Start(i))
  BY <1>1, StoredFacts DEF AtNode
<1>3. bs[i].count = HeaderSize => AtEnding(bs, Start(i))
  BY <1>1 DEF AtEnding
<1>4. HeaderSize < bs[i].count \/ bs[i].count = HeaderSize
  BY StoredFacts
<1>5. i > 1 \/ bs[i].nodes # <<>> => HeaderSize < bs[i].count
  BY StoredFacts DEF Stored
<1> QED BY <1>1, <1>2, <1>3, <1>4, <1>5 DEF Sound

(* What recording an event does to the list.                               *)
WithEvent(bs, e) ==
  IF Fits(Last(bs), e.count)
  THEN [bs EXCEPT ![Len(bs)] = WithNode(@, e)]
  ELSE Append(bs, WithNode(NewBlock(Required(e.count)), e))

LEMMA RecordedFacts ==
  ASSUME NoWrap, NEW bs, Stored(bs), NEW e \in Events
  PROVE  /\ Stored(WithEvent(bs, e))
         /\ \A i \in DOMAIN bs :
              /\ i \in DOMAIN WithEvent(bs, e)
              /\ DOMAIN bs[i].nodes \subseteq DOMAIN WithEvent(bs, e)[i].nodes
              /\ bs[i].count \in DOMAIN WithEvent(bs, e)[i].nodes \cup {WithEvent(bs, e)[i].count}
              /\ bs[i].count <= WithEvent(bs, e)[i].count
<1> USE DomAssumption
<1> DEFINE n == Len(bs)  new == WithEvent(bs, e)  more == Required(e.count)
<1>1. /\ bs \in Seq(Blocks) /\ n \in Nat \ {0} /\ DOMAIN bs = 1..n /\ Last(bs) = bs[n]
      /\ n \in DOMAIN bs
  BY DEF Stored, Last
<1>2. more \in Nat /\ 2 * NodeSize <= more /\ more + HeaderSize + 3 * NodeSize <= SizeRange
  BY EventFacts
<1>3. CASE Fits(Last(bs), e.count)
  <2> DEFINE w == WithNode(bs[n], e)
  <2>1. Tiled(bs[n]) /\ more <= bs[n].size - bs[n].count
    BY <1>1, <1>3 DEF Fits, Stored
  <2>2. /\ Tiled(w) /\ w.count = bs[n].count + more
        /\ DOMAIN w.nodes = DOMAIN bs[n].nodes \cup {bs[n].count}
    BY <2>1, WithNodeTiled
  <2>3. new = [bs EXCEPT ![n] = w]
    BY <1>3 DEF WithEvent
  <2>4. w \in Blocks
    BY <2>2 DEF Tiled
  <2> HIDE DEF w, new, more
  <2>5. new \in Seq(Blocks) /\ Len(new) = n /\ DOMAIN new = 1..n
    BY <1>1, <2>3, <2>4
  <2>6. \A i \in 1..n : new[i] = IF i = n THEN w ELSE bs[i]
    BY <1>1, <2>3
  <2>7. bs[n].count \in Nat /\ HeaderSize <= bs[n].count
    BY <1>1, StoredFacts
  <2>8. Stored(new)
    <3>1. ASSUME NEW i \in DOMAIN new
          PROVE  Tiled(new[i]) /\ (i > 1 => HeaderSize < new[i].count)
      <4>1. CASE i = n
        <5>1. HeaderSize < w.count
          BY <1>2, <2>2, <2>7 DEF more
        <5> QED BY <2>2, <2>5, <2>6, <4>1, <5>1
      <4>2. CASE i # n
        BY <1>1, <2>5, <2>6, <4>2 DEF Stored
      <4> QED BY <4>1, <4>2
    <3> QED BY <1>1, <2>5, <3>1 DEF Stored
  <2>9. ASSUME NEW i \in DOMAIN bs
        PROVE  /\ i \in DOMAIN new
               /\ DOMAIN bs[i].nodes \subseteq DOMAIN new[i].nodes
               /\ bs[i].count \in DOMAIN new[i].nodes \cup {new[i].count}
               /\ bs[i].count <= new[i].count
    <3>1. CASE i = n
      <4>1. new[i] = w /\ i \in DOMAIN new
        BY <1>1, <2>5, <2>6, <3>1
      <4>2. bs[n].count <= w.count
        BY <1>2, <2>2, <2>7 DEF more
      <4> QED BY <2>2, <3>1, <4>1, <4>2
    <3>2. CASE i # n
      <4>1. new[i] = bs[i]
        BY <1>1, <2>6, <3>2
      <4>2. bs[i].count \in Nat
        BY StoredFacts
      <4> QED BY <1>1, <2>5, <4>1, <4>2
    <3> QED BY <3>1, <3>2
  <2> QED BY <2>8, <2>9 DEF new
<1>4. CASE ~Fits(Last(bs), e.count)
  <2> DEFINE b == NewBlock(more)  w == WithNode(b, e)
  <2>1. Tiled(b) /\ b.count = HeaderSize /\ more <= b.size - b.count
    BY <1>2, NewBlockTiled
  <2>2. Tiled(w) /\ w.count = HeaderSize + more
    BY <2>1, WithNodeTiled
  <2>3. new = Append(bs, w)
    BY <1>4 DEF WithEvent
  <2>4. w \in Blocks
    BY <2>2 DEF Tiled
  <2> HIDE DEF b, w, new, more
  <2>5. new \in Seq(Blocks) /\ Len(new) = n + 1 /\ DOMAIN new = 1..(n + 1)
    BY <1>1, <2>3, <2>4
  <2>6. new[n + 1] = w /\ \A i \in 1..n : new[i] = bs[i]
    BY <1>1, <2>3, <2>4
  <2>7. Stored(new)
    <3>1. ASSUME NEW i \in DOMAIN new
          PROVE  Tiled(new[i]) /\ (i > 1 => HeaderSize < new[i].count)
      <4>1. CASE i = n + 1
        <5>1. HeaderSize < w.count
          BY <1>2, <2>2 DEF more
        <5> QED BY <2>2, <2>6, <4>1, <5>1
      <4>2. CASE i \in 1..n
        BY <1>1, <2>6, <4>2 DEF Stored
      <4> QED BY <1>1, <2>5, <4>1, <4>2
    <3> QED BY <1>1, <2>5, <3>1 DEF Stored
  <2>8. ASSUME NEW i \in DOMAIN bs
        PROVE  /\ i \in DOMAIN new
               /\ DOMAIN bs[i].nodes \subseteq DOMAIN new[i].nodes
               /\ bs[i].count \in DOMAIN new[i].nodes \cup {new[i].count}
               /\ bs[i].count <= new[i].count
    <3>1. new[i] = bs[i] /\ i \in DOMAIN new
      BY <1>1, <2>5, <2>6
    <3>2. bs[i].count \in Nat
      BY StoredFacts
    <3> QED BY <3>1, <3>2
  <2> QED BY <2>7, <2>8 DEF new
<1> QED BY <1>3, <1>4

(* Where a reader stands stays a place while others record.                *)
LEMMA PlacesStay ==
  ASSUME NoWrap, NEW bs, Stored(bs), NEW e \in Events, NEW at
  PROVE  /\ Sound(bs, at) => Sound(WithEvent(bs, e), at)
         /\ Near(bs, at) => Near(WithEvent(bs, e), at)
         /\ at.block \in DOMAIN bs =>
              /\ AtNode(bs, at) => AtNode(WithEvent(bs, e), at)
              /\ bs[at.block].count <= WithEvent(bs, e)[at.block].count
<1> USE DomAssumption
<1> DEFINE new == WithEvent(bs, e)
<1>1. ASSUME at.block \in DOMAIN bs
      PROVE  /\ at.block \in DOMAIN new
             /\ AtNode(bs, at) => AtNode(new, at)
             /\ AtEnding(bs, at) => AtNode(new, at) \/ AtEnding(new, at)
             /\ bs[at.block].count <= new[at.block].count
             /\ bs[at.block].count \in Nat /\ new[at.block].count \in Nat
  <2>1. /\ at.block \in DOMAIN new
        /\ DOMAIN bs[at.block].nodes \subseteq DOMAIN new[at.block].nodes
        /\ bs[at.block].count \in DOMAIN new[at.block].nodes \cup {new[at.block].count}
        /\ bs[at.block].count <= new[at.block].count
    BY <1>1, RecordedFacts
  <2>2. Stored(new)
    BY RecordedFacts
  <2>3. bs[at.block].count \in Nat /\ new[at.block].count \in Nat
    <3> HIDE DEF new
    <3> QED BY <1>1, <2>1, <2>2, StoredFacts
  <2> QED BY <2>1, <2>3 DEF AtNode, AtEnding
<1>2. Sound(bs, at) => Sound(new, at)
  BY <1>1 DEF Sound
<1>3. Near(bs, at) => Near(new, at)
  <2> SUFFICES ASSUME Near(bs, at) PROVE Near(new, at)
    OBVIOUS
  <2> HIDE DEF new
  <2>1. at.offset \in Nat /\ at.offset <= bs[at.block].count + 2 * NodeSize
        /\ at \in Place /\ at.block \in DOMAIN bs
    BY DEF Near, Place
  <2>2. at.offset <= new[at.block].count + 2 * NodeSize
    BY <1>1, <2>1
  <2> QED BY <1>1, <2>1, <2>2 DEF Near
<1> QED BY <1>1, <1>2, <1>3

-----------------------------------------------------------------------------
(* The readers.                                                            *)
LEMMA SoundIsNear ==
  ASSUME NoWrap, NEW bs, Stored(bs), NEW at, Sound(bs, at)
  PROVE  Near(bs, at) /\ at.offset <= bs[at.block].count
<1> USE DomAssumption
<1>1. at \in Place /\ at.block \in DOMAIN bs /\ at.offset \in Nat
  BY DEF Sound, Place
<1>2. bs[at.block].count \in Nat
  BY <1>1, StoredFacts
<1>3. at.offset <= bs[at.block].count
  <2>1. CASE AtNode(bs, at)
    BY <1>1, <1>2, <2>1, StoredFacts DEF AtNode
  <2>2. CASE AtEnding(bs, at)
    BY <1>2, <2>2 DEF AtEnding
  <2> QED BY <2>1, <2>2 DEF Sound
<1> QED BY <1>1, <1>2, <1>3 DEF Near

(* A node is read whole, and the reader goes on to the next one.           *)
LEMMA ReadFacts ==
  ASSUME NoWrap, Stored(blocks), NEW at \in Place, at.block \in DOMAIN blocks, IsNode(at)
  PROVE  /\ NodeAt(at) \in Events
         /\ Sound(blocks, Behind(at)) /\ Behind(at).block = at.block
         /\ Follows(blocks[at.block], at.offset, Behind(at).offset)
<1> DEFINE b == blocks[at.block]  next == SizeT(at.offset + Extent(b.nodes[at.offset]))
<1>1. Tiled(b) /\ at.offset \in DOMAIN b.nodes
  BY DEF Stored, IsNode
<1>2. next \in Nat /\ Follows(b, at.offset, next)
  BY <1>1, BehindFacts
<1>3. NodeAt(at) \in Events
  BY <1>1, StoredFacts DEF NodeAt
<1>4. Behind(at) = [at EXCEPT !.offset = next]
  BY DEF Behind, NodeAt
<1> HIDE DEF next
<1>5. Behind(at) \in Place /\ Behind(at).block = at.block /\ Behind(at).offset = next
  BY <1>2, <1>4 DEF Place
<1>6. AtNode(blocks, Behind(at)) \/ AtEnding(blocks, Behind(at))
  BY <1>2, <1>5 DEF Follows, AtNode, AtEnding
<1> QED BY <1>2, <1>3, <1>5, <1>6 DEF Sound

(* Unless it is at the end of the list a reader finds a node: one that was *)
(* at the end of a block, the first of the next.                           *)
LEMMA FoundFacts ==
  ASSUME NoWrap, Stored(blocks), NEW at \in Place, at.block \in DOMAIN blocks,
         ~(Past(at) /\ IsLast(at))
  PROVE  /\ Found(at) \in Place /\ Found(at).block \in DOMAIN blocks
         /\ Found(at).offset <= blocks[Found(at).block].count
         /\ Sound(blocks, at) => IsNode(Found(at))
<1> USE DomAssumption
<1>1. at.offset \in Nat /\ at.block \in Nat /\ blocks[at.block].count \in Nat
      /\ at.block <= Len(blocks) /\ Len(blocks) \in Nat /\ DOMAIN blocks = 1..Len(blocks)
  BY StoredFacts DEF Place, Stored
<1>2. CASE Past(at)
  <2>1. at.block + 1 \in DOMAIN blocks /\ at.block + 1 > 1
    BY <1>1, <1>2 DEF IsLast
  <2>2. Found(at) = Start(at.block + 1)
    BY <1>2 DEF Found
  <2>3. /\ Sound(blocks, Found(at)) /\ Found(at).block = at.block + 1
        /\ AtNode(blocks, Found(at))
    BY <2>1, <2>2, StartFacts
  <2> QED BY <2>1, <2>3, SoundIsNear DEF Sound, AtNode, IsNode
<1>3. CASE ~Past(at)
  <2>1. Found(at) = at
    BY <1>3 DEF Found
  <2>2. at.offset < blocks[at.block].count
    BY <1>1, <1>3 DEF Past
  <2>3. Sound(blocks, at) => IsNode(at)
    BY <1>1, <2>2 DEF Sound, AtNode, AtEnding, IsNode
  <2> QED BY <1>1, <2>1, <2>2, <2>3
<1> QED BY <1>2, <1>3

PullSays == {Says(what) : what \in {"nothing", "eof"}}
ReplaySays == {Says(what) : what \in {"nothing", "eof", "error"}}

(* Blocks are filled with nodes and nothing else; who reads them stands at *)
(* a node or at the end of a block, unless replays may begin before there  *)
(* is anything to replay.                                                  *)
Inv ==
  /\ Stored(blocks)
  /\ Sound(blocks, pull)
  /\ pulled \in Events \cup PullSays
  /\ Near(blocks, replay)
  /\ ReplayNoFirst \/ Sound(blocks, replay)
  /\ pc \in {"idle", "read", "called"}
  /\ pc = "read" => /\ replay.offset <= blocks[replay.block].count
                    /\ ReplayNoFirst \/ IsNode(replay)
  /\ replayed \in Events \cup ReplaySays \/ (ReplayNoFirst /\ replayed = Says("garbage"))

LEMMA InitInv == ASSUME NoWrap, Init PROVE Inv
<1> USE DomAssumption
<1> DEFINE b == NewBlock(0)
<1>1. Tiled(b) /\ b.count = HeaderSize
  <2>1. 0 \in Nat /\ 0 + HeaderSize + 3 * NodeSize <= SizeRange
    <3>1. NodeSize + HeaderSize + 6 * NodeSize <= SizeRange
      BY DEF NoWrap
    <3> QED BY <3>1
  <2> QED BY <2>1, NewBlockTiled
<1>2. blocks = <<b>>
  BY DEF Init
<1> HIDE DEF b
<1>3. Stored(blocks)
  <2>1. b \in Blocks
    BY <1>1 DEF Tiled
  <2>2. blocks \in Seq(Blocks) /\ Len(blocks) = 1 /\ DOMAIN blocks = {1} /\ blocks[1] = b
    BY <1>2, <2>1
  <2> QED BY <1>1, <2>2 DEF Stored
<1>4. 1 \in DOMAIN blocks
  BY <1>2
<1>5. Sound(blocks, Start(1)) /\ Near(blocks, Start(1))
  BY <1>3, <1>4, StartFacts, SoundIsNear
<1>6. pull = Start(1) /\ replay = Start(1) /\ pc = "idle"
      /\ pulled = Says("nothing") /\ replayed = Says("nothing")
  BY DEF Init
<1> QED BY <1>3, <1>5, <1>6 DEF Inv, PullSays, ReplaySays

LEMMA KeptByRecord == ASSUME NoWrap, Inv, Record PROVE Inv'
<1>1. PICK e \in Events : dom_add(e)
  BY DEF Record
<1>2. blocks' = WithEvent(blocks, e)
  BY <1>1 DEF dom_add, WithEvent
<1>3. UNCHANGED <<pull, pulled, replay, pc, replayed>> /\ pc # "read"
  BY <1>1 DEF dom_add, Record, CallerRuns
<1>4. Stored(blocks')
  BY <1>2, RecordedFacts DEF Inv
<1>5. Sound(blocks', pull) /\ Near(blocks', replay)
      /\ (ReplayNoFirst \/ Sound(blocks', replay))
  BY <1>2, PlacesStay DEF Inv
<1> QED BY <1>3, <1>4, <1>5 DEF Inv

LEMMA KeptByPull == ASSUME NoWrap, Inv, dom_parse_next PROVE Inv'
<1> DEFINE at == Found(pull)
<1>1. UNCHANGED <<blocks, replay, pc, replayed>> /\ pc # "read"
  BY DEF dom_parse_next, CallerRuns
<1>2. Stored(blocks) /\ Sound(blocks, pull) /\ pull \in Place /\ pull.block \in DOMAIN blocks
  BY DEF Inv, Sound
<1>3. Sound(blocks, pull') /\ pulled' \in Events \cup PullSays
  <2>1. CASE Past(pull) /\ IsLast(pull)
    <3>1. pulled' = Says("eof") /\ pull' = pull
      BY <2>1 DEF dom_parse_next
    <3> QED BY <1>2, <3>1 DEF PullSays
  <2>2. CASE ~(Past(pull) /\ IsLast(pull))
    <3>1. at \in Place /\ at.block \in DOMAIN blocks /\ IsNode(at)
      BY <1>2, <2>2, FoundFacts
    <3>2. pulled' = NodeAt(at) /\ pull' = Behind(at)
      BY <2>2, <3>1 DEF dom_parse_next
    <3> HIDE DEF at
    <3> QED BY <1>2, <3>1, <3>2, ReadFacts
  <2> QED BY <2>1, <2>2
<1> QED BY <1>1, <1>3 DEF Inv

LEMMA KeptByReplay == ASSUME NoWrap, Inv, dom_parse \/ Deliver \/ Onward \/ Stopped PROVE Inv'
<1> USE DomAssumption
<1>1. /\ Stored(blocks) /\ Near(blocks, replay) /\ replay \in Place
      /\ replay.block \in DOMAIN blocks
      /\ ReplayNoFirst \/ Sound(blocks, replay)
  BY DEF Inv, Near
<1>2. UNCHANGED <<blocks, pull, pulled>>
  BY DEF dom_parse, Deliver, Onward, Stopped
<1>3. SUFFICES
        /\ Near(blocks, replay')
        /\ ReplayNoFirst \/ Sound(blocks, replay')
        /\ pc' \in {"idle", "read", "called"}
        /\ pc' = "read" => /\ replay'.offset <= blocks[replay'.block].count
                           /\ ReplayNoFirst \/ AtNode(blocks, replay')
        /\ \/ replayed' \in Events \cup ReplaySays
           \/ ReplayNoFirst /\ replayed' = Says("garbage")
  BY <1>2 DEF Inv, IsNode, AtNode
<1>4. CASE dom_parse
  <2>1. /\ pc' = "read" /\ replay' = Start(1) /\ replayed' = Says("nothing")
        /\ ReplayNoFirst \/ blocks[1].nodes # <<>>
    BY <1>4 DEF dom_parse
  <2>2. 1 \in DOMAIN blocks
    BY <1>1 DEF Stored
  <2>3. Sound(blocks, replay') /\ (ReplayNoFirst \/ AtNode(blocks, replay'))
    BY <1>1, <2>1, <2>2, StartFacts
  <2>4. Near(blocks, replay') /\ replay'.offset <= blocks[replay'.block].count
    BY <1>1, <2>3, SoundIsNear
  <2> QED BY <2>1, <2>3, <2>4 DEF ReplaySays
<1>5. CASE Deliver
  <2>1. pc' = "called" /\ pc = "read"
    BY <1>5 DEF Deliver
  <2>2. CASE IsNode(replay)
    <3>1. replayed' = NodeAt(replay) /\ replay' = Behind(replay)
      BY <1>5, <2>2 DEF Deliver
    <3>2. replayed' \in Events /\ Sound(blocks, replay')
      BY <1>1, <2>2, <3>1, ReadFacts
    <3>3. Near(blocks, replay')
      BY <1>1, <3>2, SoundIsNear
    <3> QED BY <2>1, <3>2, <3>3
  <2>3. CASE ~IsNode(replay)
    <3>1. replayed' = Says("garbage") /\ replay' = [replay EXCEPT !.offset = @ + 2 * NodeSize]
      BY <1>5, <2>3 DEF Deliver
    <3>2. ReplayNoFirst /\ replay.offset <= blocks[replay.block].count
      BY <2>1, <2>3 DEF Inv
    <3>3. replay.offset \in Nat /\ blocks[replay.block].count \in Nat
      BY <1>1, StoredFacts DEF Place
    <3>4. replay' \in Place /\ replay'.block = replay.block
          /\ replay'.offset = replay.offset + 2 * NodeSize
      BY <1>1, <3>1, <3>3 DEF Place
    <3>5. Near(blocks, replay')
      BY <1>1, <3>2, <3>3, <3>4 DEF Near
    <3> QED BY <2>1, <3>1, <3>2, <3>5
  <2> QED BY <2>2, <2>3
<1>6. CASE Onward
  <2>1. CASE AtEnd
    <3>1. pc' = "idle" /\ replayed' = Says("eof") /\ replay' = replay
      BY <1>6, <2>1 DEF Onward
    <3> QED BY <1>1, <3>1 DEF ReplaySays
  <2>2. CASE ~AtEnd
    <3>1. pc' = "read" /\ replay' = Found(replay) /\ replayed' = replayed
      BY <1>6, <2>2 DEF Onward
    <3>2. /\ replay' \in Place /\ replay'.block \in DOMAIN blocks
          /\ replay'.offset <= blocks[replay'.block].count
          /\ Sound(blocks, replay) => AtNode(blocks, replay')
      BY <1>1, <2>2, <3>1, FoundFacts DEF AtEnd, IsNode, AtNode
    <3>3. replay'.offset \in Nat /\ blocks[replay'.block].count \in Nat
      BY <1>1, <3>2, StoredFacts DEF Place
    <3>4. Near(blocks, replay') /\ (ReplayNoFirst \/ Sound(blocks, replay'))
      BY <1>1, <3>2, <3>3 DEF Near, Sound
    <3> QED BY <1>1, <3>1, <3>2, <3>4 DEF Inv
  <2> QED BY <2>1, <2>2
<1>7. CASE Stopped
  <2>1. pc' = "idle" /\ replayed' = Says("error") /\ replay' = replay
    BY <1>7 DEF Stopped
  <2> QED BY <1>1, <2>1 DEF ReplaySays
<1> QED BY <1>4, <1>5, <1>6, <1>7

LEMMA StepInv == ASSUME NoWrap, Inv, [Next]_vars PROVE Inv'
<1>1. CASE jsnpg_parser_new
  <2>1. /\ pull' = Start(1) /\ pulled' = Says("nothing")
        /\ UNCHANGED <<blocks, replay, pc, replayed>>
    BY <1>1 DEF jsnpg_parser_new
  <2>2. Sound(blocks, Start(1))
    <3>1. Stored(blocks) /\ 1 \in DOMAIN blocks
      BY DEF Inv, Stored
    <3> QED BY <3>1, StartFacts
  <2>3. IsNode(replay)' <=> IsNode(replay)
    BY <2>1 DEF IsNode
  <2> QED BY <2>1, <2>2, <2>3 DEF Inv, PullSays
<1>2. CASE UNCHANGED vars
  <2>1. IsNode(replay)' <=> IsNode(replay)
    BY <1>2 DEF IsNode, vars
  <2> QED BY <1>2, <2>1 DEF Inv, vars
<1> QED BY <1>1, <1>2, KeptByRecord, KeptByPull, KeptByReplay DEF Next

LEMMA InvHolds == ASSUME NoWrap PROVE Spec => []Inv
BY InitInv, StepInv, PTL DEF Spec

-----------------------------------------------------------------------------
(* Sizes and counts stay multiples of a node, both readers stay in the     *)
(* list, and no offset grows beyond what a size_t holds.                   *)
THEOREM TypeCorrect == NoWrap => (Spec => []TypeOK)
<1> USE DomAssumption
<1>1. SUFFICES ASSUME NoWrap PROVE Spec => []TypeOK
  OBVIOUS
<1>2. ASSUME Inv PROVE TypeOK
  <2>1. ASSUME NEW b \in Range(blocks)
        PROVE  /\ b.size % NodeSize = 0 /\ b.count % NodeSize = HeaderSize % NodeSize
               /\ Range(b.nodes) \subseteq Events
    <3>1. PICK i \in DOMAIN blocks : b = blocks[i]
      BY <2>1 DEF Range
    <3>2. /\ b.size \in Nat /\ b.count \in Nat /\ HeaderSize <= b.count
          /\ \A o \in DOMAIN b.nodes : b.nodes[o] \in Events
      BY <1>1, <1>2, <3>1, StoredFacts DEF Inv
    <3>3. IsMultiple(b.size) /\ IsMultiple(b.count - HeaderSize)
      BY <1>2, <3>1 DEF Inv, Stored, Tiled
    <3>4. (0 + b.size) % NodeSize = 0 % NodeSize
      BY <3>2, <3>3, MultipleRemainder
    <3>5. 0 + b.size = b.size /\ 0 % NodeSize = 0
      BY <3>2
    <3>6. b.count - HeaderSize \in Nat /\ HeaderSize + (b.count - HeaderSize) = b.count
      BY <3>2
    <3>7. (HeaderSize + (b.count - HeaderSize)) % NodeSize = HeaderSize % NodeSize
      BY <3>3, <3>6, MultipleRemainder
    <3> QED BY <3>2, <3>4, <3>5, <3>6, <3>7 DEF Range
  <2>2. ASSUME NEW at, Near(blocks, at) PROVE at \in Positions
    <3>1. at \in Place /\ at.block \in DOMAIN blocks /\ at.offset \in Nat
          /\ at.offset <= blocks[at.block].count + 2 * NodeSize
      BY <2>2 DEF Near, Place
    <3>2. /\ blocks[at.block].count \in Nat /\ blocks[at.block].size \in Nat
          /\ blocks[at.block].count <= blocks[at.block].size
          /\ blocks[at.block].size + 2 * NodeSize < SizeRange
      BY <1>1, <1>2, <3>1, StoredFacts DEF Inv
    <3>3. at.offset \in 0..(SizeRange - 1)
      BY <3>1, <3>2
    <3> QED BY <3>1, <3>3 DEF Positions, Place
  <2>3. pull \in Positions /\ replay \in Positions
    BY <1>1, <1>2, <2>2, SoundIsNear DEF Inv
  <2>4. /\ pulled \in Events \cup {Says(what) : what \in {"nothing", "eof", "garbage"}}
        /\ replayed \in Events \cup
             {Says(what) : what \in {"nothing", "eof", "error", "garbage"}}
    BY <1>2 DEF Inv, PullSays, ReplaySays
  <2>5. pc \in {"idle", "read", "called"}
    BY <1>2 DEF Inv
  <2> QED BY <2>1, <2>3, <2>4, <2>5 DEF TypeOK
<1> QED BY <1>1, <1>2, InvHolds, PTL

(* Every node lies inside its block with its value, and none over another: *)
(* what is rounded up is what is compared with the space left.             *)
THEOREM StaysInBlocks == NoWrap => (Spec => []NodesInBlocks)
<1> USE DomAssumption
<1>1. SUFFICES ASSUME NoWrap PROVE Spec => []NodesInBlocks
  OBVIOUS
<1>2. ASSUME Inv PROVE NodesInBlocks
  <2>1. SUFFICES ASSUME NEW b \in Range(blocks), NEW o \in DOMAIN b.nodes
                 PROVE  LET end == o + 2 * NodeSize + b.nodes[o].count IN
                        /\ end <= b.count /\ b.count <= b.size
                        /\ \A other \in DOMAIN b.nodes : other > o => other >= end
    BY DEF NodesInBlocks
  <2>2. PICK i \in DOMAIN blocks : b = blocks[i]
    BY <2>1 DEF Range
  <2>3. /\ b.size \in Nat /\ b.count \in Nat /\ b.count <= b.size
        /\ \A p \in DOMAIN b.nodes : p \in Nat
        /\ b.nodes[o] \in Events
    BY <1>1, <1>2, <2>2, StoredFacts DEF Inv
  <2>4. End(b, o) <= b.count /\ \A other \in DOMAIN b.nodes : other > o => other >= End(b, o)
    BY <1>2, <2>2 DEF Inv, Stored, Tiled
  <2>5. /\ b.nodes[o].count \in Nat /\ Required(b.nodes[o].count) \in Nat
        /\ b.nodes[o].count + 2 * NodeSize <= Required(b.nodes[o].count)
    BY <1>1, <2>3, EventFacts
  <2>6. o + 2 * NodeSize + b.nodes[o].count <= End(b, o) /\ End(b, o) \in Nat
        /\ o + 2 * NodeSize + b.nodes[o].count \in Nat
    BY <2>3, <2>5 DEF End
  <2>7. \A other \in DOMAIN b.nodes : other > o => other >= o + 2 * NodeSize + b.nodes[o].count
    BY <2>3, <2>4, <2>6
  <2> QED BY <2>3, <2>4, <2>6, <2>7
<1> QED BY <1>1, <1>2, InvHolds, PTL

-----------------------------------------------------------------------------
(* A reader that is given an event is given the node it stands at, or the  *)
(* first of the next block when it has read one to its end, and goes on to *)
(* the next: none is stepped over, and none is given twice.                *)
Gives(at, given, next) ==
  /\ IsNode(Found(at)) /\ given = NodeAt(Found(at))
  /\ Found(at) = at \/ (Past(at) /\ Found(at) = Start(at.block + 1))
  /\ next.block = Found(at).block
  /\ Follows(blocks[next.block], Found(at).offset, next.offset)

(* One that is told of the end has no node left before it.                 *)
NothingAt(at) ==
  /\ IsLast(at)
  /\ \A o \in DOMAIN blocks[at.block].nodes : o < at.offset

PullStep ==
  dom_parse_next => \/ Gives(pull, pulled', pull')
                    \/ pulled' = Says("eof") /\ pull' = pull /\ NothingAt(pull)

(* The pull parser gets the nodes one after another, whatever the sizes    *)
(* and however they fall into blocks, also those recorded meanwhile.       *)
THEOREM PullsEveryNode == NoWrap => (Spec => [][PullStep]_vars)
<1>1. SUFFICES ASSUME NoWrap PROVE Spec => [][PullStep]_vars
  OBVIOUS
<1>2. ASSUME Inv, dom_parse_next PROVE PullStep
  <2>1. Stored(blocks) /\ Sound(blocks, pull) /\ pull \in Place /\ pull.block \in DOMAIN blocks
    BY <1>2 DEF Inv, Sound
  <2>2. CASE Past(pull) /\ IsLast(pull)
    <3>1. pulled' = Says("eof") /\ pull' = pull
      BY <1>2, <2>2 DEF dom_parse_next
    <3>2. NothingAt(pull)
      BY <1>1, <2>1, <2>2, StoredFacts DEF NothingAt, Past, Place
    <3> QED BY <3>1, <3>2 DEF PullStep
  <2>3. CASE ~(Past(pull) /\ IsLast(pull))
    <3> DEFINE at == Found(pull)
    <3>1. at \in Place /\ at.block \in DOMAIN blocks /\ IsNode(at)
      BY <1>1, <2>1, <2>3, FoundFacts
    <3>2. pulled' = NodeAt(at) /\ pull' = Behind(at)
      BY <1>2, <2>3, <3>1 DEF dom_parse_next
    <3>3. at = pull \/ (Past(pull) /\ at = Start(pull.block + 1))
      BY DEF Found
    <3>4. Behind(at).block = at.block /\ Follows(blocks[at.block], at.offset, Behind(at).offset)
      <4> HIDE DEF at
      <4> QED BY <1>1, <2>1, <3>1, ReadFacts
    <3>5. Gives(pull, pulled', pull')
      BY <3>1, <3>2, <3>3, <3>4 DEF Gives
    <3> QED BY <3>5 DEF PullStep
  <2> QED BY <2>2, <2>3
<1>3. Inv /\ [Next]_vars => [PullStep]_vars
  BY <1>2 DEF PullStep
<1> QED BY <1>1, <1>3, InvHolds, PTL DEF Spec

(* So does the replay into a generator, once there is something to replay: *)
(* it delivers the node it stands at and goes on from the one before.      *)
ReplayStep ==
  /\ Deliver => /\ IsNode(replay) /\ replayed' = NodeAt(replay)
                /\ replay'.block = replay.block
                /\ Follows(blocks[replay.block], replay.offset, replay'.offset)
  /\ Onward => \/ pc' = "read" /\ replay' = Found(replay) /\ IsNode(replay)'
               \/ pc' = "idle" /\ replayed' = Says("eof") /\ NothingAt(replay)

THEOREM ReplaysEveryNode ==
  NoWrap /\ ~ReplayNoFirst => (Spec => [][ReplayStep]_vars)
<1>1. SUFFICES ASSUME NoWrap, ~ReplayNoFirst PROVE Spec => [][ReplayStep]_vars
  OBVIOUS
<1>2. ASSUME Inv
      PROVE  /\ Stored(blocks) /\ Sound(blocks, replay) /\ replay \in Place
             /\ replay.block \in DOMAIN blocks
             /\ pc = "read" => IsNode(replay)
  BY <1>1, <1>2 DEF Inv, Sound
<1>3. ASSUME Inv, Deliver PROVE ReplayStep
  <2>1. pc = "read" /\ IsNode(replay) /\ pc' # "read" /\ pc' # "idle"
    BY <1>2, <1>3 DEF Deliver
  <2>2. replayed' = NodeAt(replay) /\ replay' = Behind(replay)
    BY <1>3, <2>1 DEF Deliver
  <2>3. /\ Behind(replay).block = replay.block
        /\ Follows(blocks[replay.block], replay.offset, Behind(replay).offset)
    BY <1>1, <1>2, <1>3, <2>1, ReadFacts
  <2>4. ~Onward
    BY <2>1 DEF Onward
  <2> QED BY <2>1, <2>2, <2>3, <2>4 DEF ReplayStep
<1>4. ASSUME Inv, Onward PROVE ReplayStep
  <2>1. ~Deliver /\ blocks' = blocks
    BY <1>4 DEF Deliver, Onward
  <2>2. CASE AtEnd
    <3>1. pc' = "idle" /\ replayed' = Says("eof")
      BY <1>4, <2>2 DEF Onward
    <3>2. NothingAt(replay)
      BY <1>1, <1>2, <1>4, <2>2, StoredFacts DEF AtEnd, NothingAt, Past, Place
    <3> QED BY <2>1, <3>1, <3>2 DEF ReplayStep
  <2>3. CASE ~AtEnd
    <3>1. pc' = "read" /\ replay' = Found(replay)
      BY <1>4, <2>3 DEF Onward
    <3>2. IsNode(Found(replay))
      BY <1>1, <1>2, <1>4, <2>3, FoundFacts DEF AtEnd
    <3>3. IsNode(replay)'
      BY <2>1, <3>1, <3>2 DEF IsNode
    <3> QED BY <2>1, <3>1, <3>3 DEF ReplayStep
  <2> QED BY <2>2, <2>3
<1>5. Inv /\ [Next]_vars => [ReplayStep]_vars
  BY <1>3, <1>4 DEF ReplayStep
<1> QED BY <1>1, <1>5, InvHolds, PTL DEF Spec
=============================================================================
