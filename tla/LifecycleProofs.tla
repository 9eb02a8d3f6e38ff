-------------------------- MODULE LifecycleProofs ---------------------------
(***************************************************************************)
(* What an allocator owns, whichever of its allocations fail and wherever  *)
(* its blocks move; and who owns what memory, for every heap, size of the  *)
(* table and of the buffer, and every order of calls and failures.         *)
(***************************************************************************)
EXTENDS Lifecycle, TLAPS

Arena == [self : Nat, allocs : Nat, capacity : Nat, entries : Seq(Address)]
IsHeap(h) == h \in [DOMAIN h -> Nat] /\ DOMAIN h \subseteq Address

(* The allocator ar is in order, and all that is noted in it is there.     *)
Lives(h, ar) ==
  /\ IsHeap(h)
  /\ ar \in Arena
  /\ NotedOnce(ar)
  /\ Blocks(ar) \subseteq DOMAIN h

(* From h to h2 the allocator ar has become ar2: it owns what it owned     *)
(* before, or what has been allocated for it, and nothing else differs.    *)
Replaces(h, ar, h2, ar2) ==
  /\ Lives(h2, ar2)
  /\ Blocks(ar2) \cap (DOMAIN h \ Blocks(ar)) = {}
  /\ DOMAIN h2 = (DOMAIN h \ Blocks(ar)) \cup Blocks(ar2)
  /\ \A b \in DOMAIN h \ Blocks(ar) : h2[b] = h[b]

LEMMA NullIsNoAddress == Address \subseteq Nat /\ NULL \notin Address /\ NULL = 0
BY AllocatorAssumption DEF NULL

LEMMA NoArenaIsEmpty ==
  /\ NoArena \in Arena
  /\ NotedOnce(NoArena)
  /\ Blocks(NoArena) = {}
<1>1. NoArena \in Arena /\ DOMAIN NoArena.entries = {}
  BY DEF NoArena, Arena, NULL
<1>2. Range(NoArena.entries) = {}
  BY <1>1 DEF Range
<1>3. NoArena.self = NULL /\ NoArena.allocs = NULL
  BY DEF NoArena
<1> QED BY <1>1, <1>2, <1>3 DEF NotedOnce, Blocks, IsInjective

LEMMA EntriesAreAddresses ==
  ASSUME NEW ar \in Arena
  PROVE  Range(ar.entries) \subseteq Address /\ NULL \notin Range(ar.entries)
<1>1. ar.entries \in Seq(Address)
  BY DEF Arena
<1>2. Range(ar.entries) \subseteq Address
  BY <1>1 DEF Range
<1> QED BY <1>2, NullIsNoAddress

(* What noting one more address adds to those noted.                       *)
LEMMA NotedAddresses ==
  ASSUME NEW entries \in Seq(Address), NEW p \in Address
  PROVE  Range(Append(entries, p)) = Range(entries) \cup {p}
<1> DEFINE longer == Append(entries, p)
<1>1. /\ Len(entries) \in Nat
      /\ DOMAIN entries = 1..Len(entries) /\ DOMAIN longer = 1..(Len(entries) + 1)
      /\ longer[Len(entries) + 1] = p
      /\ \A i \in 1..Len(entries) : longer[i] = entries[i]
  OBVIOUS
<1>2. DOMAIN longer = DOMAIN entries \cup {Len(entries) + 1}
  BY <1>1
<1> QED BY <1>1, <1>2 DEF Range

LEMMA BlocksOfArena ==
  ASSUME NEW ar \in Arena, NotedOnce(ar), ar # NoArena
  PROVE  /\ Blocks(ar) = {ar.self, ar.allocs} \cup Range(ar.entries)
         /\ ar.self # ar.allocs
         /\ ar.self \notin Range(ar.entries) /\ ar.allocs \notin Range(ar.entries)
BY EntriesAreAddresses DEF NotedOnce, Blocks

LEMMA WithEntries ==
  ASSUME NEW ar \in Arena, NEW es \in Seq(Address)
  PROVE  LET ar2 == [ar EXCEPT !.entries = es]
         IN /\ ar2 \in Arena /\ ar2.self = ar.self /\ ar2.allocs = ar.allocs
            /\ ar2.entries = es
BY DEF Arena

LEMMA ReplacesItself ==
  ASSUME NEW h, NEW ar, Lives(h, ar)
  PROVE  Replaces(h, ar, h, ar)
BY DEF Lives, Replaces

LEMMA ReplacesOnward ==
  ASSUME NEW h, NEW ar, NEW h1, NEW ar1, NEW h2, NEW ar2,
         Replaces(h, ar, h1, ar1), Replaces(h1, ar1, h2, ar2)
  PROVE  Replaces(h, ar, h2, ar2)
<1>1. DOMAIN h1 \ Blocks(ar1) = DOMAIN h \ Blocks(ar)
  BY DEF Replaces
<1> QED BY <1>1 DEF Replaces

-----------------------------------------------------------------------------
(* malloc and realloc.                                                     *)
LEMMA AllocatedBlock ==
  ASSUME NEW h, IsHeap(h), NEW size \in Nat, NEW r \in pg_alloc(h, size)
  PROVE  \/ r.p = NULL /\ r.heap = h
         \/ /\ r.p \in Address /\ r.p \notin DOMAIN h
            /\ IsHeap(r.heap) /\ DOMAIN r.heap = DOMAIN h \cup {r.p}
            /\ r.heap[r.p] = size /\ \A b \in DOMAIN h : r.heap[b] = h[b]
<1>1. CASE r = [heap |-> h, p |-> NULL]
  BY <1>1
<1>2. CASE \E a \in Free(h) : r = [heap |-> WithBlock(h, a, size), p |-> a]
  <2>1. PICK a \in Free(h) : r = [heap |-> WithBlock(h, a, size), p |-> a]
    BY <1>2
  <2>2. a \in Address /\ a \notin DOMAIN h
    BY DEF Free
  <2>3. r.p = a /\ r.heap = WithBlock(h, a, size)
    BY <2>1
  <2> QED BY <2>2, <2>3 DEF WithBlock, IsHeap
<1> QED BY <1>1, <1>2 DEF pg_alloc

LEMMA ReallocatedBlock ==
  ASSUME NEW h, IsHeap(h), NEW p \in DOMAIN h, NEW size \in Nat, NEW r \in pg_realloc(h, p, size)
  PROVE  \/ r.p = NULL /\ r.heap = h
         \/ /\ r.p \in Address /\ (r.p = p \/ r.p \notin DOMAIN h)
            /\ IsHeap(r.heap) /\ DOMAIN r.heap = (DOMAIN h \ {p}) \cup {r.p}
            /\ r.heap[r.p] = size /\ \A b \in DOMAIN h \ {p} : r.heap[b] = h[b]
<1>1. CASE r = [heap |-> h, p |-> NULL]
  BY <1>1
<1>2. CASE \E a \in {p} \cup Free(h) :
             r = [heap |-> WithBlock(Without(h, {p}), a, size), p |-> a]
  <2>1. PICK a \in {p} \cup Free(h) :
               r = [heap |-> WithBlock(Without(h, {p}), a, size), p |-> a]
    BY <1>2
  <2>2. a \in Address /\ (a = p \/ a \notin DOMAIN h)
    BY DEF Free, IsHeap
  <2>3. r.p = a /\ r.heap = WithBlock(Without(h, {p}), a, size)
    BY <2>1
  <2> QED BY <2>2, <2>3 DEF WithBlock, Without, IsHeap
<1> QED BY <1>1, <1>2 DEF pg_realloc

LEMMA FreedBlocks ==
  ASSUME NEW h, IsHeap(h), NEW blocks
  PROVE  /\ IsHeap(Without(h, blocks))
         /\ DOMAIN Without(h, blocks) = DOMAIN h \ blocks
         /\ \A b \in DOMAIN h \ blocks : Without(h, blocks)[b] = h[b]
BY DEF Without, IsHeap

-----------------------------------------------------------------------------
(* The operations of the allocator.                                        *)
LEMMA NewArena ==
  ASSUME NEW h, IsHeap(h), NEW r \in allocator_new(h)
  PROVE  Replaces(h, NoArena, r.heap, r.arena)
<1>1. PICK s \in pg_alloc(h, StructSize) :
        r \in IF s.p = NULL THEN {[heap |-> s.heap, arena |-> NoArena]}
              ELSE {IF t.p = NULL THEN [heap |-> Without(t.heap, {s.p}), arena |-> NoArena]
                    ELSE [heap |-> t.heap,
                          arena |-> [self |-> s.p, allocs |-> t.p,
                                     capacity |-> TableSize, entries |-> <<>>]] :
                    t \in pg_alloc(s.heap, TableSize * PointerSize)}
  BY DEF allocator_new
<1>2. CASE s.p = NULL
  <2>1. s.heap = h /\ r = [heap |-> h, arena |-> NoArena]
    BY <1>1, <1>2, AllocatedBlock, NullIsNoAddress DEF StructSize
  <2> QED BY <2>1, NoArenaIsEmpty DEF Replaces, Lives
<1>3. CASE s.p # NULL
  <2>1. /\ s.p \in Address /\ s.p \notin DOMAIN h
        /\ IsHeap(s.heap) /\ DOMAIN s.heap = DOMAIN h \cup {s.p}
        /\ \A b \in DOMAIN h : s.heap[b] = h[b]
    BY <1>3, AllocatedBlock DEF StructSize
  <2>2. PICK t \in pg_alloc(s.heap, TableSize * PointerSize) :
          r = IF t.p = NULL THEN [heap |-> Without(t.heap, {s.p}), arena |-> NoArena]
              ELSE [heap |-> t.heap,
                    arena |-> [self |-> s.p, allocs |-> t.p,
                               capacity |-> TableSize, entries |-> <<>>]]
    BY <1>1, <1>3
  <2>3. TableSize * PointerSize \in Nat /\ TableSize \in Nat
    BY AllocatorAssumption
  <2>4. CASE t.p = NULL
    <3>1. t.heap = s.heap
      BY <2>1, <2>3, <2>4, AllocatedBlock, NullIsNoAddress
    <3>2. r.heap = Without(s.heap, {s.p}) /\ r.arena = NoArena
      BY <2>2, <2>4, <3>1
    <3>3. /\ IsHeap(r.heap) /\ DOMAIN r.heap = DOMAIN h
          /\ \A b \in DOMAIN h : r.heap[b] = h[b]
      <4>1. /\ IsHeap(Without(s.heap, {s.p}))
            /\ DOMAIN Without(s.heap, {s.p}) = DOMAIN s.heap \ {s.p}
            /\ \A b \in DOMAIN s.heap \ {s.p} : Without(s.heap, {s.p})[b] = s.heap[b]
        BY <2>1, FreedBlocks
      <4>2. DOMAIN s.heap \ {s.p} = DOMAIN h
        BY <2>1
      <4> QED BY <2>1, <3>2, <4>1, <4>2
    <3> QED BY <3>2, <3>3, NoArenaIsEmpty DEF Replaces, Lives
  <2>5. CASE t.p # NULL
    <3>1. /\ t.p \in Address /\ t.p \notin DOMAIN s.heap
          /\ IsHeap(t.heap) /\ DOMAIN t.heap = DOMAIN s.heap \cup {t.p}
          /\ \A b \in DOMAIN s.heap : t.heap[b] = s.heap[b]
      BY <2>1, <2>3, <2>5, AllocatedBlock
    <3> DEFINE ar == [self |-> s.p, allocs |-> t.p, capacity |-> TableSize, entries |-> <<>>]
    <3>2. r.heap = t.heap /\ r.arena = ar
      BY <2>2, <2>5
    <3>3. ar \in Arena /\ ar.self = s.p /\ ar.allocs = t.p /\ DOMAIN ar.entries = {}
      <4>1. s.p \in Nat /\ t.p \in Nat /\ TableSize \in Nat
        BY <2>1, <2>3, <3>1, NullIsNoAddress
      <4>2. <<>> \in Seq(Address) /\ DOMAIN <<>> = {}
        OBVIOUS
      <4> QED BY <4>1, <4>2 DEF Arena
    <3> HIDE DEF ar
    <3>4. Range(ar.entries) = {} /\ IsInjective(ar.entries)
      BY <3>3 DEF Range, IsInjective
    <3>5. NotedOnce(ar) /\ Blocks(ar) = {s.p, t.p}
      BY <1>3, <2>1, <2>5, <3>1, <3>3, <3>4 DEF NotedOnce, Blocks
    <3> QED BY <2>1, <3>1, <3>2, <3>3, <3>5, NoArenaIsEmpty DEF Replaces, Lives
  <2> QED BY <2>4, <2>5
<1> QED BY <1>2, <1>3
LEMMA RoomMade ==
  ASSUME NEW h, NEW ar, Lives(h, ar), ar # NoArena, NEW r \in WithRoom(h, ar)
  PROVE  /\ Replaces(h, ar, r.heap, r.arena)
         /\ r.arena.self = ar.self /\ r.arena.entries = ar.entries /\ r.arena # NoArena
         /\ \A b \in Range(ar.entries) : r.heap[b] = h[b]
<1>1. ar.self # NULL /\ NoArena.self = NULL
  BY DEF Lives, NotedOnce, NoArena
<1>2. CASE ~Full(ar)
  <2>1. r.heap = h /\ r.arena = ar
    BY <1>2 DEF WithRoom
  <2> QED BY <1>1, <2>1, ReplacesItself
<1>3. CASE Full(ar)
  <2>1. PICK t \in pg_realloc(h, ar.allocs, 2 * ar.capacity) :
          r = IF t.p = NULL THEN [heap |-> t.heap, arena |-> ar, ok |-> FALSE]
              ELSE [heap |-> t.heap, ok |-> TRUE,
                    arena |-> [ar EXCEPT !.capacity = 2 * @, !.allocs = t.p]]
    BY <1>3 DEF WithRoom
  <2>2. /\ ar \in Arena /\ IsHeap(h) /\ 2 * ar.capacity \in Nat
        /\ ar.allocs \in DOMAIN h /\ Blocks(ar) \subseteq DOMAIN h
        /\ Blocks(ar) = {ar.self, ar.allocs} \cup Range(ar.entries)
        /\ ar.self # ar.allocs
        /\ ar.self \notin Range(ar.entries) /\ ar.allocs \notin Range(ar.entries)
    BY BlocksOfArena DEF Lives, Arena
  <2>3. CASE t.p = NULL
    <3>1. t.heap = h
      BY <2>2, <2>3, ReallocatedBlock, NullIsNoAddress
    <3>2. r.heap = h /\ r.arena = ar
      BY <2>1, <2>3, <3>1
    <3> QED BY <1>1, <3>2, ReplacesItself
  <2>4. CASE t.p # NULL
    <3>1. /\ t.p \in Address /\ (t.p = ar.allocs \/ t.p \notin DOMAIN h)
          /\ IsHeap(t.heap) /\ DOMAIN t.heap = (DOMAIN h \ {ar.allocs}) \cup {t.p}
          /\ \A b \in DOMAIN h \ {ar.allocs} : t.heap[b] = h[b]
      BY <2>2, <2>4, ReallocatedBlock
    <3> DEFINE ar2 == [ar EXCEPT !.capacity = 2 * @, !.allocs = t.p]
    <3>2. r.heap = t.heap /\ r.arena = ar2
      BY <2>1, <2>4
    <3>3. /\ ar2 \in Arena /\ ar2.self = ar.self /\ ar2.allocs = t.p
          /\ ar2.entries = ar.entries
      BY <2>2, <3>1, NullIsNoAddress DEF Arena
    <3> HIDE DEF ar2
    <3>4. ar2 # NoArena
      BY <1>1, <3>3
    <3>5. IsInjective(ar.entries) /\ ar.self \in DOMAIN h
          /\ Range(ar.entries) \subseteq DOMAIN h
      BY <2>2 DEF Lives, NotedOnce
    <3>6. NotedOnce(ar2)
      BY <1>1, <2>2, <2>4, <3>1, <3>3, <3>5 DEF NotedOnce
    <3>7. Blocks(ar2) = {ar.self, t.p} \cup Range(ar.entries)
      BY <3>3, <3>4, <3>6, BlocksOfArena
    <3>8. Lives(t.heap, ar2)
      BY <2>2, <3>1, <3>3, <3>5, <3>6, <3>7 DEF Lives
    <3>9. Replaces(h, ar, t.heap, ar2)
      BY <2>2, <3>1, <3>5, <3>7, <3>8 DEF Replaces
    <3>10. \A b \in Range(ar.entries) : t.heap[b] = h[b]
      BY <2>2, <3>1, <3>5
    <3> QED BY <3>2, <3>3, <3>4, <3>9, <3>10
  <2> QED BY <2>3, <2>4
<1> QED BY <1>2, <1>3

(* allocator_alloc notes the new block, or leaves the entries alone.       *)
LEMMA AllocatorAllocates ==
  ASSUME NEW h, NEW ar, Lives(h, ar), ar # NoArena, NEW size \in Nat,
         NEW r \in allocator_alloc(h, ar, size)
  PROVE  /\ Replaces(h, ar, r.heap, r.arena)
         /\ r.arena.self = ar.self /\ r.arena # NoArena
         /\ \A b \in Range(ar.entries) : b \in Range(r.arena.entries) /\ r.heap[b] = h[b]
         /\ r.p # NULL => /\ r.p \in Range(r.arena.entries) /\ r.heap[r.p] = size
                          /\ r.p \in Address
<1>1. PICK w \in WithRoom(h, ar) :
        r \in IF ~w.ok THEN {[heap |-> w.heap, arena |-> w.arena, p |-> NULL]}
              ELSE {[heap |-> m.heap, p |-> m.p,
                     arena |-> IF m.p = NULL THEN w.arena
                               ELSE [w.arena EXCEPT !.entries = Append(@, m.p)]] :
                    m \in pg_alloc(w.heap, size)}
  BY DEF allocator_alloc
<1>2. /\ Replaces(h, ar, w.heap, w.arena)
      /\ w.arena.self = ar.self /\ w.arena.entries = ar.entries /\ w.arena # NoArena
      /\ \A b \in Range(ar.entries) : w.heap[b] = h[b]
  BY RoomMade
<1>3. CASE ~w.ok
  <2>1. r.heap = w.heap /\ r.arena = w.arena /\ r.p = NULL
    BY <1>1, <1>3
  <2> QED BY <1>2, <2>1
<1>4. CASE w.ok
  <2>1. PICK m \in pg_alloc(w.heap, size) :
          r = [heap |-> m.heap, p |-> m.p,
               arena |-> IF m.p = NULL THEN w.arena
                         ELSE [w.arena EXCEPT !.entries = Append(@, m.p)]]
    BY <1>1, <1>4
  <2>2. /\ w.arena \in Arena /\ IsHeap(w.heap) /\ NotedOnce(w.arena)
        /\ Blocks(w.arena) \subseteq DOMAIN w.heap
    BY <1>2 DEF Replaces, Lives
  <2>3. CASE m.p = NULL
    <3>1. m.heap = w.heap
      BY <2>2, <2>3, AllocatedBlock, NullIsNoAddress
    <3>2. r.heap = w.heap /\ r.arena = w.arena /\ r.p = NULL
      BY <2>1, <2>3, <3>1
    <3> QED BY <1>2, <3>2
  <2>4. CASE m.p # NULL
    <3>1. /\ m.p \in Address /\ m.p \notin DOMAIN w.heap
          /\ IsHeap(m.heap) /\ DOMAIN m.heap = DOMAIN w.heap \cup {m.p}
          /\ m.heap[m.p] = size /\ \A b \in DOMAIN w.heap : m.heap[b] = w.heap[b]
      BY <2>2, <2>4, AllocatedBlock
    <3> DEFINE ar2 == [w.arena EXCEPT !.entries = Append(@, m.p)]
    <3>2. r.heap = m.heap /\ r.arena = ar2 /\ r.p = m.p
      BY <2>1, <2>4
    <3>3. w.arena.entries \in Seq(Address)
      BY <2>2 DEF Arena
    <3>4. /\ ar2 \in Arena /\ ar2.self = w.arena.self /\ ar2.allocs = w.arena.allocs
          /\ ar2.entries = Append(w.arena.entries, m.p)
      <4>1. Append(w.arena.entries, m.p) \in Seq(Address)
        BY <3>1, <3>3
      <4> QED BY <2>2, <4>1, WithEntries
    <3> HIDE DEF ar2
    <3>5. Range(ar2.entries) = Range(w.arena.entries) \cup {m.p}
      BY <3>1, <3>3, <3>4, NotedAddresses
    <3>6. /\ Blocks(w.arena) = {w.arena.self, w.arena.allocs} \cup Range(w.arena.entries)
          /\ w.arena.self # w.arena.allocs
          /\ w.arena.self \notin Range(w.arena.entries)
          /\ w.arena.allocs \notin Range(w.arena.entries)
      BY <1>2, <2>2, BlocksOfArena
    <3>7. m.p \notin Blocks(w.arena)
      BY <2>2, <3>1
    <3>8. IsInjective(ar2.entries)
      <4>1. IsInjective(w.arena.entries) /\ m.p \notin Range(w.arena.entries)
        BY <2>2, <3>6, <3>7 DEF NotedOnce
      <4> QED BY <3>1, <3>3, <3>4, <4>1 DEF IsInjective, Range
    <3>9. ar2 # NoArena /\ ar2.self # NULL /\ ar2.allocs # NULL
      BY <1>2, <2>2, <3>4 DEF NotedOnce, NoArena
    <3>10. NotedOnce(ar2)
      BY <3>4, <3>5, <3>6, <3>7, <3>8, <3>9 DEF NotedOnce
    <3>11. Blocks(ar2) = Blocks(w.arena) \cup {m.p}
      BY <3>4, <3>5, <3>6, <3>9, <3>10, BlocksOfArena
    <3>12. Replaces(w.heap, w.arena, m.heap, ar2)
      BY <2>2, <3>1, <3>4, <3>10, <3>11 DEF Replaces, Lives
    <3>13. Replaces(h, ar, m.heap, ar2)
      BY <1>2, <3>12, ReplacesOnward
    <3>14. \A b \in Range(ar.entries) : b \in Range(ar2.entries) /\ m.heap[b] = h[b]
      <4>1. \A b \in Range(ar.entries) : b \in DOMAIN w.heap
        BY <1>2, <2>2, <3>6
      <4> QED BY <1>2, <3>1, <3>5, <4>1
    <3> QED BY <1>2, <3>1, <3>2, <3>4, <3>5, <3>9, <3>13, <3>14
  <2> QED BY <2>3, <2>4
<1> QED BY <1>3, <1>4
(* allocator_realloc: the entry of a block that moves moves with it.       *)
LEMMA AllocatorReallocates ==
  ASSUME NEW h, NEW ar, Lives(h, ar), ar # NoArena, NEW p \in Range(ar.entries),
         NEW size \in Nat, NEW r \in allocator_realloc(h, ar, p, size)
  PROVE  /\ Replaces(h, ar, r.heap, r.arena)
         /\ r.arena.self = ar.self /\ r.arena # NoArena
         /\ r.p = NULL => r.heap = h /\ r.arena = ar
         /\ r.p # NULL => /\ r.p \in Range(r.arena.entries) /\ r.heap[r.p] = size
                          /\ r.p \in Address
<1>1. PICK m \in pg_realloc(h, p, size) :
        r = [heap |-> m.heap, p |-> m.p,
             arena |-> IF m.p = NULL THEN ar ELSE Entered(ar, p, m.p)]
  BY DEF allocator_realloc
<1>2. /\ ar \in Arena /\ IsHeap(h) /\ NotedOnce(ar) /\ Blocks(ar) \subseteq DOMAIN h
      /\ Blocks(ar) = {ar.self, ar.allocs} \cup Range(ar.entries)
      /\ ar.self # ar.allocs
      /\ ar.self \notin Range(ar.entries) /\ ar.allocs \notin Range(ar.entries)
      /\ ar.self # NULL /\ ar.allocs # NULL
  BY BlocksOfArena DEF Lives, NotedOnce
<1>3. CASE m.p = NULL
  <2>1. m.heap = h
    BY <1>2, <1>3, ReallocatedBlock, NullIsNoAddress
  <2>2. r.heap = h /\ r.arena = ar /\ r.p = NULL
    BY <1>1, <1>3, <2>1
  <2> QED BY <1>2, <2>2, ReplacesItself
<1>4. CASE m.p # NULL
  <2>1. /\ m.p \in Address /\ (m.p = p \/ m.p \notin DOMAIN h)
        /\ IsHeap(m.heap) /\ DOMAIN m.heap = (DOMAIN h \ {p}) \cup {m.p}
        /\ m.heap[m.p] = size /\ \A b \in DOMAIN h \ {p} : m.heap[b] = h[b]
    <3>1. p \in DOMAIN h
      BY <1>2
    <3> QED BY <1>2, <1>4, <3>1, ReallocatedBlock
  <2> DEFINE es == ar.entries
             ns == [i \in DOMAIN es |-> IF es[i] = p THEN m.p ELSE es[i]]
             ar2 == Entered(ar, p, m.p)
  <2>2. r.heap = m.heap /\ r.arena = ar2 /\ r.p = m.p
    BY <1>1, <1>4
  <2>3. es \in Seq(Address)
    BY <1>2 DEF Arena
  <2>4. ns \in Seq(Address) /\ DOMAIN ns = DOMAIN es
    <3>1. es \in [1..Len(es) -> Address] /\ Len(es) \in Nat /\ DOMAIN es = 1..Len(es)
      BY <2>3
    <3>2. ns \in [1..Len(es) -> Address]
      BY <2>1, <3>1
    <3> QED BY <3>1, <3>2
  <2>5. /\ ar2 \in Arena /\ ar2.self = ar.self /\ ar2.allocs = ar.allocs
        /\ ar2.entries = ns
    <3>1. ar2 = [ar EXCEPT !.entries = ns]
      BY DEF Entered
    <3> HIDE DEF ns, ar2
    <3> QED BY <1>2, <2>4, <3>1, WithEntries
  <2> HIDE DEF ar2
  <2>6. IsInjective(es) /\ (m.p = p \/ m.p \notin Range(es))
    BY <1>2, <2>1 DEF NotedOnce
  <2>7. IsInjective(ns)
    BY <2>6 DEF IsInjective, Range
  <2>8. Range(ns) = (Range(es) \ {p}) \cup {m.p}
    <3>1. PICK i \in DOMAIN es : es[i] = p
      BY DEF Range
    <3>2. ns[i] = m.p /\ i \in DOMAIN ns
      BY <3>1
    <3>3. \A j \in DOMAIN es : es[j] # p => ns[j] = es[j]
      OBVIOUS
    <3>4. \A j \in DOMAIN ns : ns[j] = m.p \/ (ns[j] = es[j] /\ es[j] # p)
      OBVIOUS
    <3>5. DOMAIN ns = DOMAIN es
      OBVIOUS
    <3> HIDE DEF ns
    <3> QED BY <3>2, <3>3, <3>4, <3>5 DEF Range
  <2> HIDE DEF ns
  <2>9. m.p # ar.self /\ m.p # ar.allocs
    BY <1>2, <2>1
  <2>10. ar2 # NoArena /\ NotedOnce(ar2)
    <3>1. NoArena.self = NULL
      BY DEF NoArena
    <3> QED BY <1>2, <2>5, <2>7, <2>8, <2>9, <3>1 DEF NotedOnce
  <2>11. Blocks(ar2) = {ar.self, ar.allocs} \cup (Range(es) \ {p}) \cup {m.p}
    BY <2>5, <2>8, <2>10, BlocksOfArena
  <2>12. Lives(m.heap, ar2)
    <3>1. Blocks(ar2) \subseteq DOMAIN m.heap
      BY <1>2, <2>1, <2>11
    <3> QED BY <2>1, <2>5, <2>10, <3>1 DEF Lives
  <2>13. Replaces(h, ar, m.heap, ar2)
    <3>1. DOMAIN h \ Blocks(ar) = DOMAIN h \ ({ar.self, ar.allocs} \cup Range(es))
      BY <1>2
    <3>2. DOMAIN m.heap = (DOMAIN h \ Blocks(ar)) \cup Blocks(ar2)
      BY <1>2, <2>1, <2>11, <3>1
    <3>3. Blocks(ar2) \cap (DOMAIN h \ Blocks(ar)) = {}
      BY <1>2, <2>1, <2>11
    <3>4. \A b \in DOMAIN h \ Blocks(ar) : m.heap[b] = h[b]
      BY <1>2, <2>1
    <3> QED BY <2>12, <3>2, <3>3, <3>4 DEF Replaces
  <2> QED BY <1>4, <2>1, <2>2, <2>5, <2>8, <2>10, <2>13
<1> QED BY <1>3, <1>4

-----------------------------------------------------------------------------
(* The buffer.  It is the first of the following or the second.            *)
IsBuffer(m) == m \in [buffer : Nat, capacity : Nat, count : Nat] /\ m.count <= m.capacity
Holds(h, ar, m) ==
  IF m.buffer = NULL THEN m.capacity = 0
  ELSE m.buffer \in Range(ar.entries) /\ h[m.buffer] = m.capacity

(* What an operation of the stream may do that puts count bytes: the       *)
(* allocator stays in order, the buffer holds what it held, and a block is *)
(* another one only when it is larger.                                     *)
Puts(h, ar, m, count, r) ==
  /\ Replaces(h, ar, r.heap, r.arena)
  /\ r.arena.self = ar.self /\ r.arena # NoArena
  /\ IsBuffer(r.mos) /\ Holds(r.heap, r.arena, r.mos)
  /\ r.mos.count = IF r.ok THEN m.count + count ELSE m.count
  /\ r.mos.capacity >= m.capacity
  /\ r.mos.capacity = m.capacity => r.mos.buffer = m.buffer

LEMMA Grown ==
  ASSUME NEW h, NEW ar, NEW m, Lives(h, ar), ar # NoArena, IsBuffer(m), Holds(h, ar, m),
         NEW incr \in Nat, m.count + incr > m.capacity,
         NEW g \in mos_grow(h, ar, m, incr)
  PROVE  /\ Replaces(h, ar, g.heap, g.arena)
         /\ g.arena.self = ar.self /\ g.arena # NoArena
         /\ g.mos \in [buffer : Nat, capacity : Nat, count : Nat]
         /\ g.mos.count = m.count
         /\ Holds(g.heap, g.arena, g.mos)
         /\ g.p = NULL => g.mos = m
         /\ g.p # NULL => /\ g.mos.buffer = g.p
                          /\ g.mos.capacity >= m.count + incr
<1> DEFINE first == IF m.capacity # 0 THEN 2 * m.capacity ELSE InitialCapacity
           from(size) == IF m.buffer # NULL THEN allocator_realloc(h, ar, m.buffer, size)
                                            ELSE allocator_alloc(h, ar, size)
<1>0. m \in [buffer : Nat, capacity : Nat, count : Nat]
  BY DEF IsBuffer
<1>1. PICK size \in Sizes(first, m.count + incr) :
        g \in {[heap |-> o.heap, arena |-> o.arena, mos |-> WithBuffer(m, o.p, size), p |-> o.p] :
               o \in from(size)}
  BY DEF mos_grow
<1>2. PICK o \in from(size) :
        g = [heap |-> o.heap, arena |-> o.arena, mos |-> WithBuffer(m, o.p, size), p |-> o.p]
  BY <1>1
<1>3. g.heap = o.heap /\ g.arena = o.arena /\ g.mos = WithBuffer(m, o.p, size) /\ g.p = o.p
  BY <1>2
<1>4. size \in Nat /\ size >= m.count + incr
  <2>1. first \in Nat
    BY <1>0, BufferAssumption
  <2> HIDE DEF first
  <2>2. size \in (m.count + incr)..(first + 2 * (m.count + incr))
    BY DEF Sizes
  <2> QED BY <1>0, <2>1, <2>2
<1>5. /\ Replaces(h, ar, o.heap, o.arena)
      /\ o.arena.self = ar.self /\ o.arena # NoArena
      /\ o.p # NULL => /\ o.p \in Range(o.arena.entries) /\ o.heap[o.p] = size
                       /\ o.p \in Address
      /\ o.p = NULL => Holds(o.heap, o.arena, m)
  <2>1. CASE m.buffer # NULL
    <3>1. m.buffer \in Range(ar.entries)
      BY <2>1 DEF Holds
    <3>2. o \in allocator_realloc(h, ar, m.buffer, size)
      BY <2>1
    <3> QED BY <1>4, <3>1, <3>2, AllocatorReallocates
  <2>2. CASE m.buffer = NULL
    <3>1. o \in allocator_alloc(h, ar, size)
      BY <2>2
    <3>2. Holds(o.heap, o.arena, m)
      BY <2>2 DEF Holds
    <3> QED BY <1>4, <3>1, <3>2, AllocatorAllocates
  <2> QED BY <2>1, <2>2
<1> HIDE DEF first, from
<1>6. CASE o.p = NULL
  <2>1. g.mos = m
    BY <1>3, <1>6 DEF WithBuffer
  <2> QED BY <1>0, <1>3, <1>5, <1>6, <2>1
<1>7. CASE o.p # NULL
  <2>1. o.p \in Nat
    BY <1>5, <1>7, NullIsNoAddress
  <2>2. /\ g.mos \in [buffer : Nat, capacity : Nat, count : Nat]
        /\ g.mos.buffer = o.p /\ g.mos.capacity = size /\ g.mos.count = m.count
    BY <1>0, <1>3, <1>4, <1>7, <2>1 DEF WithBuffer
  <2>3. Holds(g.heap, g.arena, g.mos)
    BY <1>3, <1>5, <1>7, <2>2 DEF Holds
  <2> QED BY <1>3, <1>4, <1>5, <1>7, <2>2, <2>3
<1> QED BY <1>6, <1>7

LEMMA Reserved ==
  ASSUME NEW h, NEW ar, NEW m, Lives(h, ar), ar # NoArena, IsBuffer(m), Holds(h, ar, m),
         NEW count \in Nat \ {0}, NEW r \in mos_reserve(h, ar, m, count)
  PROVE  Puts(h, ar, m, count, r)
<1>0. m \in [buffer : Nat, capacity : Nat, count : Nat] /\ m.count <= m.capacity
  BY DEF IsBuffer
<1>1. CASE count > m.capacity - m.count
  <2>1. PICK g \in mos_grow(h, ar, m, count) :
          r = [heap |-> g.heap, arena |-> g.arena, ok |-> g.p # NULL,
               mos |-> IF g.p = NULL THEN g.mos ELSE Taken(g.mos, count)]
    BY <1>1 DEF mos_reserve
  <2>2. m.count + count > m.capacity
    BY <1>0, <1>1
  <2>3. /\ Replaces(h, ar, g.heap, g.arena)
        /\ g.arena.self = ar.self /\ g.arena # NoArena
        /\ g.mos \in [buffer : Nat, capacity : Nat, count : Nat]
        /\ g.mos.count = m.count
        /\ Holds(g.heap, g.arena, g.mos)
        /\ g.p = NULL => g.mos = m
        /\ g.p # NULL => g.mos.buffer = g.p /\ g.mos.capacity >= m.count + count
    BY <2>2, Grown
  <2>4. /\ r.heap = g.heap /\ r.arena = g.arena /\ (r.ok <=> g.p # NULL)
        /\ r.mos = IF g.p = NULL THEN g.mos ELSE Taken(g.mos, count)
    BY <2>1
  <2>5. CASE g.p = NULL
    <3>1. r.mos = m /\ ~r.ok
      BY <2>3, <2>4, <2>5
    <3>2. IsBuffer(r.mos) /\ Holds(r.heap, r.arena, r.mos) /\ r.mos = m
      BY <1>0, <2>3, <2>4, <3>1 DEF IsBuffer
    <3> QED BY <1>0, <2>3, <2>4, <3>1, <3>2 DEF Puts
  <2>6. CASE g.p # NULL
    <3>1. /\ r.mos \in [buffer : Nat, capacity : Nat, count : Nat] /\ r.ok
          /\ r.mos.buffer = g.mos.buffer /\ r.mos.capacity = g.mos.capacity
          /\ r.mos.count = m.count + count
      <4>1. r.ok /\ r.mos = Taken(g.mos, count) /\ g.mos.count + count \in Nat
        BY <2>3, <2>4, <2>6
      <4> QED BY <2>3, <4>1 DEF Taken
    <3>2. r.mos.count <= r.mos.capacity /\ r.mos.capacity > m.capacity
      BY <1>0, <2>2, <2>3, <2>6, <3>1
    <3>3. Holds(r.heap, r.arena, r.mos)
      BY <2>3, <2>4, <3>1 DEF Holds
    <3> QED BY <1>0, <2>3, <2>4, <3>1, <3>2, <3>3 DEF Puts, IsBuffer
  <2> QED BY <2>5, <2>6
<1>2. CASE ~(count > m.capacity - m.count)
  <2>1. r = [heap |-> h, arena |-> ar, ok |-> m.buffer # NULL, mos |-> Taken(m, count)]
    BY <1>2 DEF mos_reserve
  <2>2. /\ r.heap = h /\ r.arena = ar /\ (r.ok <=> m.buffer # NULL)
        /\ r.mos \in [buffer : Nat, capacity : Nat, count : Nat]
        /\ r.mos.buffer = m.buffer /\ r.mos.capacity = m.capacity
        /\ r.mos.count = m.count + count
    <3>1. /\ r.heap = h /\ r.arena = ar /\ (r.ok <=> m.buffer # NULL)
          /\ r.mos = Taken(m, count)
      BY <2>1
    <3>2. m.count + count \in Nat
      BY <1>0
    <3> QED BY <1>0, <3>1, <3>2 DEF Taken
  <2>3. m.buffer # NULL
    BY <1>0, <1>2 DEF Holds
  <2>4. r.mos.count <= r.mos.capacity
    BY <1>0, <1>2, <2>2
  <2>5. Holds(r.heap, r.arena, r.mos)
    BY <2>2 DEF Holds
  <2>6. IsBuffer(r.mos) /\ r.ok
    BY <2>2, <2>3, <2>4 DEF IsBuffer
  <2>7. Replaces(h, ar, r.heap, r.arena)
    BY <2>2, ReplacesItself
  <2>8. r.mos.capacity >= m.capacity
    BY <1>0, <2>2
  <2> QED BY <2>2, <2>5, <2>6, <2>7, <2>8 DEF Puts
<1> QED BY <1>1, <1>2

LEMMA NumbersPut ==
  ASSUME NEW h, NEW ar, NEW m, Lives(h, ar), ar # NoArena, IsBuffer(m), Holds(h, ar, m),
         NEW count \in Nat \ {0}, count <= NumberRoom, NEW r \in jos_putn(h, ar, m, count)
  PROVE  Puts(h, ar, m, count, r)
<1>0. m \in [buffer : Nat, capacity : Nat, count : Nat] /\ NumberRoom \in Nat \ {0}
  BY BufferAssumption DEF IsBuffer
<1>1. PICK s \in mos_reserve(h, ar, m, NumberRoom) :
        r = [s EXCEPT !.mos = IF s.ok THEN mos_adjust(@, NumberRoom - count) ELSE @]
  BY DEF jos_putn
<1>2. Puts(h, ar, m, NumberRoom, s)
  BY <1>0, Reserved
<1>3. r.heap = s.heap /\ r.arena = s.arena /\ r.ok = s.ok
      /\ r.mos = IF s.ok THEN mos_adjust(s.mos, NumberRoom - count) ELSE s.mos
  <2>1. s = [heap |-> s.heap, arena |-> s.arena, ok |-> s.ok, mos |-> s.mos]
    BY DEF mos_reserve, mos_grow
  <2> QED BY <1>1, <2>1
<1>4. CASE ~s.ok
  BY <1>2, <1>3, <1>4 DEF Puts
<1>5. CASE s.ok
  <2>1. /\ s.mos \in [buffer : Nat, capacity : Nat, count : Nat]
        /\ s.mos.count = m.count + NumberRoom /\ s.mos.count <= s.mos.capacity
    BY <1>2, <1>5 DEF Puts, IsBuffer
  <2>2. /\ r.mos \in [buffer : Nat, capacity : Nat, count : Nat]
        /\ r.mos.buffer = s.mos.buffer /\ r.mos.capacity = s.mos.capacity
        /\ r.mos.count = m.count + count
    BY <1>0, <1>3, <1>5, <2>1 DEF mos_adjust
  <2>3. r.mos.count <= r.mos.capacity
    BY <1>0, <2>1, <2>2
  <2>4. Holds(r.heap, r.arena, r.mos)
    BY <1>2, <1>3, <2>2 DEF Puts, Holds
  <2> QED BY <1>2, <1>3, <1>5, <2>2, <2>3, <2>4 DEF Puts, IsBuffer
<1> QED BY <1>4, <1>5
-----------------------------------------------------------------------------

Good(h, a, gone) == IsHeap(h) /\ a \in [Owners -> Arena] /\ Owned(h, a, gone)

(* Owned, block by block.                                                  *)
LEMMA OwnedByBlocks ==
  ASSUME NEW h, NEW a, NEW gone
  PROVE  Owned(h, a, gone) <=>
           /\ \A b : b \in DOMAIN h <=> (b \in gone \/ \E o \in Owners : b \in Blocks(a[o]))
           /\ \A o \in Owners : NotedOnce(a[o])
           /\ \A o \in Owners : \A b \in Blocks(a[o]) :
                b \notin gone /\ \A x \in Owners : x # o => b \notin Blocks(a[x])
<1>1. DOMAIN h = gone \cup UNION {Blocks(a[o]) : o \in Owners}
        <=> \A b : b \in DOMAIN h <=> (b \in gone \/ \E o \in Owners : b \in Blocks(a[o]))
  OBVIOUS
<1> QED BY <1>1 DEF Owned

LEMMA OwnerLives ==
  ASSUME NEW h, NEW a, NEW gone, Good(h, a, gone), NEW o \in Owners
  PROVE  Lives(h, a[o])
<1>1. NotedOnce(a[o]) /\ \A b \in Blocks(a[o]) : b \in DOMAIN h
  BY OwnedByBlocks DEF Good
<1> QED BY <1>1 DEF Good, Lives

LEMMA HeldInBlocks ==
  ASSUME NEW h, NEW h2, NEW ar \in Arena, NEW m, Holds(h, ar, m),
         \A b \in Blocks(ar) : h2[b] = h[b]
  PROVE  Holds(h2, ar, m)
BY EntriesAreAddresses DEF Holds, Blocks

(* One owner has gone on with its allocator: the others own what they did. *)
LEMMA Handed ==
  ASSUME NEW h, NEW a, NEW gone, Good(h, a, gone), NEW o \in Owners,
         NEW h2, NEW ar2, Replaces(h, a[o], h2, ar2)
  PROVE  /\ Good(h2, [a EXCEPT ![o] = ar2], gone)
         /\ \A x \in Owners \ {o} : \A b \in Blocks(a[x]) : h2[b] = h[b]
<1> DEFINE a2 == [a EXCEPT ![o] = ar2]
<1>1. /\ IsHeap(h2) /\ ar2 \in Arena /\ NotedOnce(ar2)
      /\ \A b \in Blocks(ar2) : b \notin DOMAIN h \/ b \in Blocks(a[o])
      /\ \A b : b \in DOMAIN h2 <=> (b \in DOMAIN h /\ b \notin Blocks(a[o])) \/ b \in Blocks(ar2)
      /\ \A b \in DOMAIN h \ Blocks(a[o]) : h2[b] = h[b]
  BY DEF Replaces, Lives
<1>2. /\ a2 \in [Owners -> Arena]
      /\ a2[o] = ar2 /\ \A x \in Owners : x # o => a2[x] = a[x]
  BY <1>1 DEF Good
<1> HIDE DEF a2
<1>3. /\ \A b : b \in DOMAIN h <=> (b \in gone \/ \E x \in Owners : b \in Blocks(a[x]))
      /\ \A x \in Owners : NotedOnce(a[x])
      /\ \A x \in Owners : \A b \in Blocks(a[x]) :
           b \notin gone /\ \A y \in Owners : y # x => b \notin Blocks(a[y])
  BY OwnedByBlocks DEF Good
<1>4. \A x \in Owners : NotedOnce(a2[x])
  BY <1>1, <1>2, <1>3
<1>5. \A x \in Owners : \A b \in Blocks(a2[x]) :
        b \notin gone /\ \A y \in Owners : y # x => b \notin Blocks(a2[y])
  <2> TAKE x \in Owners
  <2> TAKE b \in Blocks(a2[x])
  <2>1. CASE x = o
    <3>1. b \notin DOMAIN h \/ b \in Blocks(a[o])
      BY <1>1, <1>2, <2>1
    <3> QED BY <1>2, <1>3, <2>1, <3>1
  <2>2. CASE x # o
    <3>1. b \in Blocks(a[x]) /\ b \in DOMAIN h /\ b \notin Blocks(a[o]) /\ b \notin Blocks(ar2)
      BY <1>1, <1>2, <1>3, <2>2
    <3> QED BY <1>2, <1>3, <2>2, <3>1
  <2> QED BY <2>1, <2>2
<1>6. \A b : b \in DOMAIN h2 <=> (b \in gone \/ \E x \in Owners : b \in Blocks(a2[x]))
  <2> TAKE b
  <2>1. b \in gone => b \in DOMAIN h /\ b \notin Blocks(a[o])
    BY <1>3
  <2>2. \A x \in Owners : x # o /\ b \in Blocks(a[x]) => b \in DOMAIN h /\ b \notin Blocks(a[o])
    BY <1>3
  <2>3. b \in DOMAIN h /\ b \notin Blocks(a[o])
          => b \in gone \/ \E x \in Owners : x # o /\ b \in Blocks(a[x])
    BY <1>3
  <2>4. (\E x \in Owners : b \in Blocks(a2[x]))
          <=> b \in Blocks(ar2) \/ \E x \in Owners : x # o /\ b \in Blocks(a[x])
    BY <1>2
  <2> QED BY <1>1, <2>1, <2>2, <2>3, <2>4
<1>7. Owned(h2, a2, gone)
  BY <1>4, <1>5, <1>6, OwnedByBlocks
<1>8. \A x \in Owners \ {o} : \A b \in Blocks(a[x]) : h2[b] = h[b]
  BY <1>1, <1>3
<1> QED BY <1>1, <1>2, <1>7, <1>8 DEF Good, a2

(* What is freed is gone from the heap, what is left is lost.              *)
LEMMA Settled ==
  ASSUME NEW h, NEW a, Good(h, a, lost), NEW freed \in SUBSET Owners, NEW left \in SUBSET Owners,
         freed \cap left = {}, Settle(h, a, freed, left)
  PROVE  /\ Good(heap', arena', lost')
         /\ \A o \in Owners : arena'[o] = IF o \in freed \cup left THEN NoArena ELSE a[o]
         /\ \A o \in Owners \ (freed \cup left) : \A b \in Blocks(a[o]) : heap'[b] = h[b]
<1> DEFINE dropped == UNION {Blocks(a[o]) : o \in freed}
<1>1. heap' = Without(h, dropped)
  <2>1. {Blocks(x) : x \in {a[o] : o \in freed}} = {Blocks(a[o]) : o \in freed}
    OBVIOUS
  <2> QED BY <2>1 DEF Settle, allocator_free
<1>2. \A b : b \in dropped <=> \E o \in freed : b \in Blocks(a[o])
  OBVIOUS
<1> HIDE DEF dropped
<1>3. /\ IsHeap(heap') /\ DOMAIN heap' = DOMAIN h \ dropped
      /\ \A b \in DOMAIN h \ dropped : heap'[b] = h[b]
  BY <1>1, FreedBlocks DEF Good
<1>4. \A o \in Owners : arena'[o] = IF o \in freed \cup left THEN NoArena ELSE a[o]
  BY DEF Settle
<1>5. arena' \in [Owners -> Arena]
  <2>1. \A o \in Owners : (IF o \in freed \cup left THEN NoArena ELSE a[o]) \in Arena
    BY NoArenaIsEmpty DEF Good
  <2> QED BY <2>1 DEF Settle
<1>6. \A b : b \in lost' <=> (b \in lost \/ \E o \in left : b \in Blocks(a[o]))
  BY DEF Settle
<1>7. /\ \A b : b \in DOMAIN h <=> (b \in lost \/ \E x \in Owners : b \in Blocks(a[x]))
      /\ \A x \in Owners : NotedOnce(a[x])
      /\ \A x \in Owners : \A b \in Blocks(a[x]) :
           b \notin lost /\ \A y \in Owners : y # x => b \notin Blocks(a[y])
  BY OwnedByBlocks DEF Good
<1>8. \A o \in Owners : /\ o \in freed \cup left => Blocks(arena'[o]) = {}
                        /\ o \notin freed \cup left => arena'[o] = a[o]
  BY <1>4, NoArenaIsEmpty
<1>9. \A o \in Owners : NotedOnce(arena'[o])
  BY <1>4, <1>7, NoArenaIsEmpty
<1>10. \A o \in Owners : \A b \in Blocks(arena'[o]) :
         b \notin lost' /\ \A x \in Owners : x # o => b \notin Blocks(arena'[x])
  BY <1>6, <1>7, <1>8
<1>11. \A b : b \in DOMAIN heap' <=> (b \in lost' \/ \E o \in Owners : b \in Blocks(arena'[o]))
  <2> TAKE b
  <2>1. b \in DOMAIN heap' => (b \in lost' \/ \E o \in Owners : b \in Blocks(arena'[o]))
    BY <1>2, <1>3, <1>6, <1>7, <1>8
  <2>2. b \in lost' => b \in DOMAIN heap'
    BY <1>2, <1>3, <1>6, <1>7
  <2>3. \A o \in Owners : b \in Blocks(arena'[o]) => b \in DOMAIN heap'
    BY <1>2, <1>3, <1>7, <1>8
  <2> QED BY <2>1, <2>2, <2>3
<1>12. Owned(heap', arena', lost')
  BY <1>9, <1>10, <1>11, OwnedByBlocks
<1>13. \A o \in Owners \ (freed \cup left) : \A b \in Blocks(a[o]) : heap'[b] = h[b]
  BY <1>2, <1>3, <1>7
<1> QED BY <1>3, <1>4, <1>5, <1>12, <1>13 DEF Good
-----------------------------------------------------------------------------
(* The inductive invariant: memory is owned, the text is in its buffer,    *)
(* and the place in a function tells what has been made so far.            *)
Places == {"caller", "parser", "stream", "input", "output", "generator", "json", "mos", "dom",
           "parse", "ending", "crashed"}
Kinds == {"none", "json", "dom", "callbacks"}
Options == [input : {"none", "bytes", "dom", "bad"},
            output : {"none", "callbacks", "generator", "bad"}]

Control ==
  /\ at \in Places /\ kind \in Kinds /\ opts \in Options
  /\ at = "caller" => ~Parsing
  /\ at = "output" => Parsing
  /\ at \in {"parser", "stream", "input"} => Exists("parser")
  /\ at = "generator" => Exists(Made) /\ (~Parsing => kind # "none")
  /\ at \in {"json", "mos", "dom"} => ~Parsing /\ Exists("generator")
  /\ kind # "none" => Exists("generator")
  /\ Exists("inner") => at \in {"generator", "parse", "ending"} /\ opts.output = "callbacks"

(* There is no text while a generator is being made, or is of another kind.*)
NoText == kind # "json" \/ at \in {"json", "mos", "dom"} \/ (at = "generator" /\ ~Parsing)

Text ==
  /\ IsBuffer(mos) /\ put = mos.count /\ Holds(heap, arena["generator"], mos)
  /\ NoText => mos = NoBuffer
  /\ result \in [block : Nat, count : Nat, capacity : Nat]
  /\ result.capacity <= mos.capacity
  /\ ResultsStand

Inv == Good(heap, arena, lost) /\ Control /\ Text

text == <<mos, result, put>>

LEMMA ThreeOwners ==
  /\ "parser" \in Owners /\ "generator" \in Owners /\ "inner" \in Owners
  /\ \A o \in Owners : o \in {"parser", "generator", "inner"}
BY DEF Owners

LEMMA NoBufferHolds == \A h, ar : Holds(h, ar, NoBuffer)
BY DEF Holds, NoBuffer

(* A step of the owner o that the text does not depend on.                 *)
LEMMA Aside ==
  ASSUME Inv, NEW o \in Owners, NEW h2, NEW ar2, Replaces(heap, arena[o], h2, ar2),
         NEW freed \in SUBSET Owners, NEW left \in SUBSET Owners, freed \cap left = {},
         Settle(h2, With(o, ar2), freed, left),
         UNCHANGED text,
         NoText' => mos = NoBuffer,
         mos = NoBuffer \/ "generator" \notin {o} \cup freed \cup left
  PROVE  /\ Good(heap', arena', lost') /\ Text'
         /\ \A x \in Owners : arena'[x] = IF x \in freed \cup left THEN NoArena
                                          ELSE IF x = o THEN ar2 ELSE arena[x]
<1> DEFINE a2 == With(o, ar2)
<1>1. Good(h2, a2, lost) /\ \A x \in Owners \ {o} : \A b \in Blocks(arena[x]) : h2[b] = heap[b]
  BY Handed DEF Inv, With
<1>2. \A x \in Owners : a2[x] = IF x = o THEN ar2 ELSE arena[x]
  BY DEF Inv, Good, With
<1>0. Good(h2, a2, lost) /\ Settle(h2, a2, freed, left)
  BY <1>1
<1> HIDE DEF a2
<1>3. /\ Good(heap', arena', lost')
      /\ \A x \in Owners : arena'[x] = IF x \in freed \cup left THEN NoArena ELSE a2[x]
      /\ \A x \in Owners \ (freed \cup left) : \A b \in Blocks(a2[x]) : heap'[b] = h2[b]
  BY <1>0, Settled
<1>4. Holds(heap', arena'["generator"], mos)
  <2>1. CASE mos = NoBuffer
    BY <2>1, NoBufferHolds
  <2>2. CASE "generator" \notin {o} \cup freed \cup left
    <3>1. arena'["generator"] = arena["generator"] /\ a2["generator"] = arena["generator"]
      BY <1>2, <1>3, <2>2, ThreeOwners
    <3>2. \A b \in Blocks(arena["generator"]) : heap'[b] = heap[b]
      BY <1>1, <1>3, <2>2, <3>1, ThreeOwners
    <3>3. arena["generator"] \in Arena /\ Holds(heap, arena["generator"], mos)
      BY ThreeOwners DEF Inv, Good, Text
    <3> QED BY <3>1, <3>2, <3>3, HeldInBlocks
  <2> QED BY <2>1, <2>2
<1>5. Text'
  <2>1. mos' = mos /\ put' = put /\ result' = result
    BY DEF text
  <2> QED BY <1>4, <2>1 DEF Inv, Text, ResultsStand, IsBuffer
<1> QED BY <1>2, <1>3, <1>5

(* The same for a step that allocates nothing.                             *)
LEMMA Aside0 ==
  ASSUME Inv, NEW freed \in SUBSET Owners, NEW left \in SUBSET Owners, freed \cap left = {},
         Settle(heap, arena, freed, left),
         UNCHANGED text,
         NoText' => mos = NoBuffer,
         mos = NoBuffer \/ "generator" \notin freed \cup left
  PROVE  /\ Good(heap', arena', lost') /\ Text'
         /\ \A x \in Owners : arena'[x] = IF x \in freed \cup left THEN NoArena ELSE arena[x]
<1>1. Lives(heap, arena["parser"])
  BY ThreeOwners, OwnerLives DEF Inv
<1>2. Replaces(heap, arena["parser"], heap, arena["parser"])
  BY <1>1, ReplacesItself
<1>3. With("parser", arena["parser"]) = arena
  BY DEF Inv, Good, With
<1>4. "generator" # "parser"
  OBVIOUS
<1> QED BY <1>2, <1>3, <1>4, ThreeOwners, Aside

(* What a new allocator and an allocation of an existing one lead to.      *)
LEMMA MakesArena ==
  ASSUME Inv, NEW o \in Owners, ~Exists(o), NEW n \in allocator_new(heap)
  PROVE  Replaces(heap, arena[o], n.heap, n.arena)
BY NewArena DEF Inv, Good, Exists

LEMMA Allocates ==
  ASSUME Inv, NEW o \in Owners, Exists(o), NEW size \in Nat,
         NEW m \in allocator_alloc(heap, arena[o], size)
  PROVE  Replaces(heap, arena[o], m.heap, m.arena) /\ m.arena # NoArena
<1>1. Lives(heap, arena[o])
  BY OwnerLives DEF Inv
<1> QED BY <1>1, AllocatorAllocates DEF Exists
-----------------------------------------------------------------------------
(* Making and freeing a parser.                                            *)
LEMMA NewParserKeeps == ASSUME Inv, NewParser PROVE Inv'
<1>1. /\ at = "caller" /\ arena["parser"] = NoArena /\ arena["inner"] = NoArena
      /\ kind' = kind /\ UNCHANGED text /\ ~Exists("parser")
  BY DEF NewParser, CallerRuns, At, Exists, Inv, Control, output, text
<1>2. PICK n \in allocator_new(heap) :
        /\ Kept("parser", n)
        /\ IF n.arena = NoArena THEN UNCHANGED <<at, opts>>
           ELSE at' = "parser" /\ opts' \in [input : Inputs, output : {"none"} \cup Outputs]
  BY DEF NewParser
<1>3. Replaces(heap, arena["parser"], n.heap, n.arena)
  BY <1>1, ThreeOwners, MakesArena
<1>4. NoText' => mos = NoBuffer
  BY <1>1, <1>2 DEF NoText, Inv, Text
<1>5. /\ Good(heap', arena', lost') /\ Text'
      /\ \A x \in Owners : arena'[x] = IF x = "parser" THEN n.arena ELSE arena[x]
  BY <1>1, <1>2, <1>3, <1>4, ThreeOwners, Aside DEF Kept
<1>6. Control'
  <2>1. CASE n.arena = NoArena
    BY <1>1, <1>2, <1>5, <2>1, ThreeOwners DEF Inv, Control, Exists, Parsing, Made
  <2>2. CASE n.arena # NoArena
    <3>1. opts' \in Options /\ at' = "parser"
      BY <1>2, <2>2 DEF Options, Inputs, Outputs
    <3> QED BY <1>1, <1>5, <2>2, <3>1, ThreeOwners DEF Inv, Control, Exists, Parsing, Made, Places
  <2> QED BY <2>1, <2>2
<1> QED BY <1>5, <1>6 DEF Inv

LEMMA NoOptsAreOptions == NoOpts \in Options /\ NoOpts.output = "none" /\ NoOpts.input = "none"
BY DEF NoOpts, Options

LEMMA ParserStructKeeps == ASSUME Inv, ParserStruct PROVE Inv'
<1>1. /\ at \in {"parser", "stream"} /\ Exists("parser") /\ arena["inner"] = NoArena
      /\ kind' = kind /\ UNCHANGED text
  BY DEF ParserStruct, At, Exists, Inv, Control, output, text
<1>2. PICK m \in allocator_alloc(heap, arena["parser"], StructSize) :
        IF m.p = NULL
        THEN Settle(m.heap, With("parser", m.arena), {"parser"}, {}) /\ at' = "caller" /\ opts' = NoOpts
        ELSE Kept("parser", m) /\ at' = (IF at = "parser" THEN "stream" ELSE "input") /\ UNCHANGED opts
  BY DEF ParserStruct
<1>3. Replaces(heap, arena["parser"], m.heap, m.arena) /\ m.arena # NoArena
  BY <1>1, ThreeOwners, Allocates DEF StructSize
<1>4. NoText' => mos = NoBuffer
  BY <1>1, <1>2 DEF NoText, Inv, Text
<1>5. CASE m.p = NULL
  <2>1. /\ Good(heap', arena', lost') /\ Text'
        /\ \A x \in Owners : arena'[x] = IF x = "parser" THEN NoArena ELSE arena[x]
    BY <1>1, <1>2, <1>3, <1>4, <1>5, ThreeOwners, Aside
  <2>2. Control'
    BY <1>1, <1>2, <1>5, <2>1, ThreeOwners, NoOptsAreOptions
       DEF Inv, Control, Exists, Parsing, Made, Places
  <2> QED BY <2>1, <2>2 DEF Inv
<1>6. CASE m.p # NULL
  <2>1. /\ Good(heap', arena', lost') /\ Text'
        /\ \A x \in Owners : arena'[x] = IF x = "parser" THEN m.arena ELSE arena[x]
    BY <1>1, <1>2, <1>3, <1>4, <1>6, ThreeOwners, Aside DEF Kept
  <2>2. Control'
    BY <1>1, <1>2, <1>3, <1>6, <2>1, ThreeOwners DEF Inv, Control, Exists, Parsing, Made, Places
  <2> QED BY <2>1, <2>2 DEF Inv
<1> QED BY <1>5, <1>6

LEMMA OnwardGoes == ASSUME Onward PROVE at' = IF Parsing THEN "output" ELSE "caller"
BY DEF Onward

LEMMA SetBytesKeeps == ASSUME Inv, SetBytes PROVE Inv'
<1>1. /\ at = "input" /\ Exists("parser") /\ arena["inner"] = NoArena
      /\ kind' = kind /\ UNCHANGED text /\ opts' = opts
  BY DEF SetBytes, At, Exists, Inv, Control, output, text
<1>2. PICK m \in allocator_alloc(heap, arena["parser"], TextSize + 1) :
        Kept("parser", m) /\ IF m.p = NULL THEN at' = "crashed" ELSE Onward
  BY DEF SetBytes
<1>3. Replaces(heap, arena["parser"], m.heap, m.arena) /\ m.arena # NoArena
  <2>1. TextSize + 1 \in Nat
    BY LifecycleAssumption
  <2> QED BY <1>1, <2>1, ThreeOwners, Allocates
<1>4. at' \in {"crashed", "output", "caller"} /\ (at' = "output" => Parsing) /\ (at' = "caller" => ~Parsing)
  BY <1>2, OnwardGoes
<1>5. NoText' => mos = NoBuffer
  BY <1>1, <1>4 DEF NoText, Inv, Text
<1>6. /\ Good(heap', arena', lost') /\ Text'
      /\ \A x \in Owners : arena'[x] = IF x = "parser" THEN m.arena ELSE arena[x]
  BY <1>1, <1>2, <1>3, <1>5, ThreeOwners, Aside DEF Kept
<1>7. Control'
  BY <1>1, <1>3, <1>4, <1>6, ThreeOwners DEF Inv, Control, Exists, Parsing, Made, Places
<1> QED BY <1>6, <1>7 DEF Inv

LEMMA SetDomKeeps == ASSUME Inv, SetDom PROVE Inv'
<1>1. /\ at = "input" /\ UNCHANGED <<heap, arena, lost, kind, opts>> /\ UNCHANGED text
      /\ arena["inner"] = NoArena
  BY DEF SetDom, At, Exists, Inv, Control, output, text, memory
<1>2. at' \in {"output", "caller"} /\ (at' = "output" => Parsing) /\ (at' = "caller" => ~Parsing)
  BY OnwardGoes DEF SetDom
<1>3. Control'
  BY <1>1, <1>2 DEF Inv, Control, Exists, Parsing, Made, Places
<1>4. Text'
  <2>1. NoText' => NoText
    BY <1>1, <1>2 DEF NoText
  <2> QED BY <1>1, <2>1 DEF Inv, Text, ResultsStand, IsBuffer, text
<1> QED BY <1>1, <1>3, <1>4 DEF Inv, Good

LEMMA BadInputKeeps == ASSUME Inv, BadInput PROVE Inv'
<1>1. /\ at = "input" /\ arena["inner"] = NoArena /\ at' = "caller"
      /\ kind' = kind /\ UNCHANGED text
  BY DEF BadInput, At, Exists, Inv, Control, output, text
<1>2. NoText' => mos = NoBuffer
  BY <1>1 DEF NoText, Inv, Text
<1>3. CASE Parsing
  <2>1. Settle(heap, arena, {}, {"parser"}) /\ opts' = NoOpts
    BY <1>3 DEF BadInput
  <2>2. /\ Good(heap', arena', lost') /\ Text'
        /\ \A x \in Owners : arena'[x] = IF x = "parser" THEN NoArena ELSE arena[x]
    <3>1. /\ {} \in SUBSET Owners /\ {"parser"} \in SUBSET Owners /\ {} \cap {"parser"} = {}
          /\ "generator" \notin {} \cup {"parser"} /\ {} \cup {"parser"} = {"parser"}
      BY ThreeOwners
    <3> QED BY <1>1, <1>2, <2>1, <3>1, Aside0
  <2>3. Control'
    BY <1>1, <2>1, <2>2, ThreeOwners, NoOptsAreOptions
       DEF Inv, Control, Exists, Parsing, Made, Places
  <2> QED BY <2>2, <2>3 DEF Inv
<1>4. CASE ~Parsing
  <2>1. UNCHANGED <<heap, arena, lost, opts>>
    BY <1>4 DEF BadInput, memory
  <2>2. Control'
    BY <1>1, <1>4, <2>1 DEF Inv, Control, Exists, Parsing, Made, Places
  <2>3. Text'
    BY <1>1, <1>2, <2>1 DEF Inv, Text, ResultsStand, IsBuffer, text
  <2> QED BY <2>1, <2>2, <2>3 DEF Inv, Good
<1> QED BY <1>3, <1>4

LEMMA ParserFreeKeeps == ASSUME Inv, jsnpg_parser_free PROVE Inv'
<1>1. /\ at = "caller" /\ at' = "caller" /\ arena["inner"] = NoArena
      /\ kind' = kind /\ UNCHANGED text
      /\ Settle(heap, arena, {"parser"}, {}) /\ opts' = NoOpts
  BY DEF jsnpg_parser_free, CallerRuns, At, Exists, Inv, Control, output, text
<1>2. NoText' => mos = NoBuffer
  BY <1>1 DEF NoText, Inv, Text
<1>3. /\ Good(heap', arena', lost') /\ Text'
      /\ \A x \in Owners : arena'[x] = IF x = "parser" THEN NoArena ELSE arena[x]
  <2>1. /\ {} \in SUBSET Owners /\ {"parser"} \in SUBSET Owners /\ {"parser"} \cap {} = {}
        /\ "generator" \notin {"parser"} \cup {} /\ {"parser"} \cup {} = {"parser"}
    BY ThreeOwners
  <2> QED BY <1>1, <1>2, <2>1, Aside0
<1>4. Control'
  BY <1>1, <1>3, ThreeOwners, NoOptsAreOptions DEF Inv, Control, Exists, Parsing, Made, Places
<1> QED BY <1>3, <1>4 DEF Inv
-----------------------------------------------------------------------------
(* Making and freeing a generator.                                         *)

(* What a function that could not make its generator leaves behind.        *)
LEMMA NoGeneratorKeeps ==
  ASSUME Inv, NEW o \in Owners, NEW h2, NEW ar2, Replaces(heap, arena[o], h2, ar2),
         NEW freed \in SUBSET {o}, NEW left \in SUBSET {"generator"}, freed \cap left = {},
         NoGenerator(h2, With(o, ar2), freed, left),
         o \in {"generator", "inner"},
         Parsing => o = "inner" /\ left = {},
         ~Parsing => mos = NoBuffer,
         o = "inner" => ar2 = NoArena \/ o \in freed,
         arena["inner"] = NoArena \/ o = "inner"
  PROVE  Inv'
<1> DEFINE all == left \cup (IF Parsing THEN {"parser"} ELSE {})
<1>1. /\ Settle(h2, With(o, ar2), freed, all) /\ UNCHANGED text
      /\ at' = "caller"
      /\ opts' = IF Parsing THEN NoOpts ELSE opts
      /\ kind' = IF Parsing THEN kind ELSE "none"
  BY DEF NoGenerator, text
<1>2. /\ freed \in SUBSET Owners /\ all \in SUBSET Owners /\ freed \cap all = {}
      /\ Parsing => freed \subseteq {"inner"} /\ all = {"parser"}
      /\ ~Parsing => all = left
  BY ThreeOwners
<1> HIDE DEF all
<1>3. NoText' => mos = NoBuffer
  BY <1>1, NoOptsAreOptions DEF NoText, Inv, Text, Parsing
<1>4. mos = NoBuffer \/ "generator" \notin {o} \cup freed \cup all
  BY <1>2
<1>5. /\ Good(heap', arena', lost') /\ Text'
      /\ \A x \in Owners : arena'[x] = IF x \in freed \cup all THEN NoArena
                                       ELSE IF x = o THEN ar2 ELSE arena[x]
  BY <1>1, <1>2, <1>3, <1>4, Aside
<1>6. arena'["inner"] = NoArena
  BY <1>2, <1>5, ThreeOwners
<1>7. Parsing => arena'["generator"] = arena["generator"]
  BY <1>2, <1>5, ThreeOwners
<1>8. Control'
  <2>1. CASE Parsing
    BY <1>1, <1>6, <1>7, <2>1, NoOptsAreOptions DEF Inv, Control, Exists, Parsing, Made, Places
  <2>2. CASE ~Parsing
    BY <1>1, <1>6, <2>2, NoOptsAreOptions DEF Inv, Control, Exists, Parsing, Made, Places, Kinds
  <2> QED BY <2>1, <2>2
<1> QED BY <1>5, <1>8 DEF Inv

(* The same when nothing was allocated for it.                             *)
LEMMA NoGenerator0Keeps ==
  ASSUME Inv, NoGenerator(heap, arena, {}, {}), arena["inner"] = NoArena,
         ~Parsing => mos = NoBuffer
  PROVE  Inv'
<1>1. Lives(heap, arena["inner"])
  BY ThreeOwners, OwnerLives DEF Inv
<1>2. Replaces(heap, arena["inner"], heap, arena["inner"])
  BY <1>1, ReplacesItself
<1>3. With("inner", arena["inner"]) = arena
  BY DEF Inv, Good, With
<1> QED BY <1>2, <1>3, ThreeOwners, NoGeneratorKeeps

(* allocator_new fails and leaves the heap as it was.                      *)
LEMMA NoNewArena ==
  ASSUME Inv, NEW n \in allocator_new(heap), n.arena = NoArena, NEW o \in Owners, ~Exists(o)
  PROVE  Replaces(heap, arena[o], n.heap, arena[o]) /\ With(o, arena[o]) = arena
<1>1. Replaces(heap, arena[o], n.heap, arena[o])
  BY MakesArena DEF Exists
<1> QED BY <1>1 DEF Inv, Good, With

LEMMA NewGeneratorKeeps == ASSUME Inv, jsnpg_generator_new_opt PROVE Inv'
<1>1. /\ at = "caller" /\ ~Parsing /\ ~Exists("generator") /\ arena["inner"] = NoArena
      /\ kind = "none" /\ mos = NoBuffer
  BY DEF jsnpg_generator_new_opt, CallerRuns, At, Exists, Inv, Control, Text, NoText
<1>2. PICK n \in allocator_new(heap) :
       IF n.arena = NoArena THEN NoGenerator(n.heap, arena, {}, {})
       ELSE /\ Kept("generator", n) /\ at' = "generator"
            /\ kind' \in {"json", "dom", "callbacks"}
            /\ UNCHANGED <<mos, result, put, opts>>
  BY DEF jsnpg_generator_new_opt
<1>3. CASE n.arena = NoArena
  BY <1>1, <1>2, <1>3, ThreeOwners, NoNewArena, NoGeneratorKeeps
<1>4. CASE n.arena # NoArena
  <2>1. Replaces(heap, arena["generator"], n.heap, n.arena)
    BY <1>1, ThreeOwners, MakesArena
  <2>2. UNCHANGED text /\ opts' = opts /\ at' = "generator" /\ kind' \in {"json", "dom", "callbacks"}
    BY <1>2, <1>4 DEF text
  <2>3. /\ Good(heap', arena', lost') /\ Text'
        /\ \A x \in Owners : arena'[x] = IF x = "generator" THEN n.arena ELSE arena[x]
    BY <1>1, <1>2, <1>4, <2>1, <2>2, ThreeOwners, Aside DEF Kept
  <2>4. Control'
    BY <1>1, <1>4, <2>2, <2>3, ThreeOwners DEF Inv, Control, Exists, Parsing, Made, Places, Kinds
  <2> QED BY <2>3, <2>4 DEF Inv
<1> QED BY <1>3, <1>4

LEMMA OutputKeeps == ASSUME Inv, Output PROVE Inv'
<1>1. at = "output" /\ Parsing /\ arena["inner"] = NoArena
  BY DEF Output, At, Exists, Inv, Control
<1>2. CASE opts.output = "bad" /\ NoGenerator(heap, arena, {}, {})
  BY <1>1, <1>2, NoGenerator0Keeps
<1>3. CASE opts.output = "generator" /\ at' = "parse" /\ UNCHANGED <<memory, output, opts>>
  <2>1. UNCHANGED <<heap, arena, lost, kind, opts>> /\ UNCHANGED text
    BY <1>3 DEF memory, output, text
  <2>2. Control'
    BY <1>1, <1>3, <2>1 DEF Inv, Control, Exists, Parsing, Made, Places
  <2>3. Text'
    <3>1. NoText' => NoText
      BY <1>1, <1>3, <2>1 DEF NoText
    <3> QED BY <2>1, <3>1 DEF Inv, Text, ResultsStand, IsBuffer, text
  <2> QED BY <2>1, <2>2, <2>3 DEF Inv, Good
<1>4. CASE /\ opts.output = "callbacks"
           /\ \E n \in allocator_new(heap) :
                IF n.arena = NoArena THEN NoGenerator(n.heap, arena, {}, {})
                ELSE Kept("inner", n) /\ at' = "generator" /\ UNCHANGED <<output, opts>>
  <2>1. PICK n \in allocator_new(heap) :
                IF n.arena = NoArena THEN NoGenerator(n.heap, arena, {}, {})
                ELSE Kept("inner", n) /\ at' = "generator" /\ UNCHANGED <<output, opts>>
    BY <1>4
  <2>2. ~Exists("inner")
    BY <1>1 DEF Exists
  <2>3. CASE n.arena = NoArena
    BY <1>1, <2>1, <2>2, <2>3, ThreeOwners, NoNewArena, NoGeneratorKeeps
  <2>4. CASE n.arena # NoArena
    <3>1. Replaces(heap, arena["inner"], n.heap, n.arena)
      BY <2>2, ThreeOwners, MakesArena
    <3>2. UNCHANGED text /\ kind' = kind /\ opts' = opts /\ at' = "generator"
      BY <2>1, <2>4 DEF text, output
    <3>3. NoText' => mos = NoBuffer
      BY <1>1, <3>2 DEF NoText, Inv, Text, Parsing
    <3>4. /\ Good(heap', arena', lost') /\ Text'
          /\ \A x \in Owners : arena'[x] = IF x = "inner" THEN n.arena ELSE arena[x]
      BY <2>1, <2>4, <3>1, <3>2, <3>3, ThreeOwners, Aside DEF Kept
    <3>5. Control'
      BY <1>1, <1>4, <2>4, <3>2, <3>4, ThreeOwners
         DEF Inv, Control, Exists, Parsing, Made, Places
    <3> QED BY <3>4, <3>5 DEF Inv
  <2> QED BY <2>3, <2>4
<1> QED BY <1>2, <1>3, <1>4 DEF Output
LEMMA GeneratorStructKeeps == ASSUME Inv, GeneratorStruct PROVE Inv'
<1>1. /\ at = "generator" /\ Exists(Made) /\ Made \in Owners
      /\ Parsing => Made = "inner"
      /\ ~Parsing => Made = "generator" /\ mos = NoBuffer /\ kind # "none"
      /\ Exists("inner") => Parsing
  BY ThreeOwners DEF GeneratorStruct, At, Made, Inv, Control, Text, NoText, Parsing
<1>2. PICK m \in allocator_alloc(heap, arena[Made], StructSize) :
       IF m.p = NULL THEN NoGenerator(m.heap, With(Made, m.arena), {Made}, {})
       ELSE /\ Kept(Made, m) /\ UNCHANGED <<output, opts>>
            /\ at' = CASE Parsing -> "parse"
                       [] ~Parsing /\ kind = "callbacks" -> "caller"
                       [] ~Parsing /\ kind # "callbacks" -> kind
  BY DEF GeneratorStruct
<1>3. Replaces(heap, arena[Made], m.heap, m.arena) /\ m.arena # NoArena
  BY <1>1, Allocates DEF StructSize
<1>4. CASE m.p = NULL
  <2>1. NoGenerator(m.heap, With(Made, m.arena), {Made}, {})
    BY <1>2, <1>4
  <2>2. /\ Made \in {"generator", "inner"} /\ (arena["inner"] = NoArena \/ Made = "inner")
        /\ {Made} \in SUBSET {Made} /\ {} \in SUBSET {"generator"} /\ {Made} \cap {} = {}
    BY <1>1 DEF Made, Exists
  <2> QED BY <1>1, <1>3, <2>1, <2>2, NoGeneratorKeeps
<1>5. CASE m.p # NULL
  <2>1. /\ Kept(Made, m) /\ UNCHANGED text /\ kind' = kind /\ opts' = opts
        /\ Parsing => at' = "parse"
        /\ ~Parsing => at' = IF kind = "callbacks" THEN "caller" ELSE kind
    BY <1>2, <1>5 DEF output, text
  <2>2. NoText' => mos = NoBuffer
    BY <1>1, <2>1 DEF NoText, Inv, Text, Parsing
  <2>3. mos = NoBuffer \/ Made # "generator"
    BY <1>1
  <2>4. /\ Good(heap', arena', lost') /\ Text'
        /\ \A x \in Owners : arena'[x] = IF x = Made THEN m.arena ELSE arena[x]
    BY <1>1, <1>3, <2>1, <2>2, <2>3, Aside DEF Kept
  <2>5. Control'
    <3>1. CASE Parsing
      BY <1>1, <1>3, <2>1, <2>4, <3>1, ThreeOwners DEF Inv, Control, Exists, Parsing, Made, Places
    <3>2. CASE ~Parsing
      BY <1>1, <1>3, <2>1, <2>4, <3>2, ThreeOwners
         DEF Inv, Control, Exists, Parsing, Made, Places, Kinds
    <3> QED BY <3>1, <3>2
  <2> QED BY <2>4, <2>5 DEF Inv
<1> QED BY <1>4, <1>5

LEMMA ContextKeeps == ASSUME Inv, Context PROVE Inv'
<1>1. /\ at \in {"json", "mos", "dom"} /\ ~Parsing /\ Exists("generator")
      /\ arena["inner"] = NoArena
  BY DEF Context, At, Exists, Inv, Control
<1>2. PICK m \in allocator_alloc(heap, arena["generator"], StructSize) :
       IF m.p = NULL THEN NoGenerator(m.heap, With("generator", m.arena), {}, {"generator"})
       ELSE /\ Kept("generator", m) /\ UNCHANGED <<output, opts>>
            /\ at' = IF at = "json" THEN "mos" ELSE "caller"
  BY DEF Context
<1>3. Replaces(heap, arena["generator"], m.heap, m.arena) /\ m.arena # NoArena
  BY <1>1, ThreeOwners, Allocates DEF StructSize
<1>4. CASE mos = NoBuffer
  <2>1. CASE m.p = NULL
    <3>1. NoGenerator(m.heap, With("generator", m.arena), {}, {"generator"})
      BY <1>2, <2>1
    <3> QED BY <1>1, <1>3, <1>4, <3>1, ThreeOwners, NoGeneratorKeeps
  <2>2. CASE m.p # NULL
    <3>1. /\ Kept("generator", m) /\ UNCHANGED text /\ kind' = kind /\ opts' = opts
          /\ at' = IF at = "json" THEN "mos" ELSE "caller"
      BY <1>2, <2>2 DEF output, text
    <3>2. /\ Good(heap', arena', lost') /\ Text'
          /\ \A x \in Owners : arena'[x] = IF x = "generator" THEN m.arena ELSE arena[x]
      BY <1>3, <1>4, <3>1, ThreeOwners, Aside DEF Kept
    <3>3. Control'
      BY <1>1, <1>3, <3>1, <3>2, ThreeOwners DEF Inv, Control, Exists, Parsing, Made, Places
    <3> QED BY <3>2, <3>3 DEF Inv
  <2> QED BY <2>1, <2>2
<1>5. mos = NoBuffer
  BY <1>1 DEF Inv, Text, NoText
<1> QED BY <1>4, <1>5

LEMMA GeneratorFreeKeeps == ASSUME Inv, jsnpg_generator_free PROVE Inv'
<1> DEFINE ends == {"generator"}
<1>1. /\ at = "caller" /\ at' = "caller" /\ opts' = opts /\ arena["inner"] = NoArena
      /\ kind' = "none" /\ mos' = NoBuffer /\ result' = NoResult /\ put' = 0
      /\ Settle(heap, arena, ends, {})
  BY DEF jsnpg_generator_free, CallerRuns, At, Exists, Inv, Control
<1>2. ends \in SUBSET Owners /\ {} \in SUBSET Owners /\ ends \cap {} = {}
  BY ThreeOwners
<1>3. /\ Good(heap', arena', lost')
      /\ \A x \in Owners : arena'[x] = IF x = "generator" THEN NoArena ELSE arena[x]
  <2> HIDE DEF ends
  <2>1. Good(heap, arena, lost) /\ Settle(heap, arena, ends, {})
    BY <1>1 DEF Inv
  <2>2. /\ Good(heap', arena', lost')
        /\ \A x \in Owners : arena'[x] = IF x \in ends \cup {} THEN NoArena ELSE arena[x]
    BY <1>2, <2>1, Settled
  <2> QED BY <2>2 DEF ends
<1>4. Text'
  <2>1. Holds(heap', arena'["generator"], mos')
    BY <1>1, NoBufferHolds
  <2> QED BY <1>1, <2>1 DEF Text, IsBuffer, NoBuffer, NoResult, ResultsStand, NULL
<1>5. Control'
  BY <1>1, <1>3, ThreeOwners DEF Inv, Control, Exists, Parsing, Made, Kinds
<1> QED BY <1>3, <1>4, <1>5 DEF Inv

-----------------------------------------------------------------------------
(* Using a generator.                                                      *)

(* A step of the stream of the generator.                                  *)
LEMMA PutsKeep ==
  ASSUME Inv, kind = "json", at \in {"caller", "parse"}, NEW n \in Nat \ {0}, NEW r,
         Puts(heap, arena["generator"], mos, n, r),
         Kept("generator", r), mos' = r.mos,
         put' = IF r.ok THEN put + n ELSE put,
         kind' = kind, opts' = opts, at' = at \/ (at = "parse" /\ at' = "ending"),
         result' = result \/ result' = GivenNow(r.mos)
  PROVE  Inv'
<1>1. /\ Replaces(heap, arena["generator"], r.heap, r.arena) /\ r.arena # NoArena
      /\ IsBuffer(r.mos) /\ Holds(r.heap, r.arena, r.mos)
      /\ r.mos.count = IF r.ok THEN mos.count + n ELSE mos.count
      /\ r.mos.capacity >= mos.capacity
      /\ r.mos.capacity = mos.capacity => r.mos.buffer = mos.buffer
  BY DEF Puts
<1> DEFINE a2 == With("generator", r.arena)
<1>2. Good(r.heap, a2, lost)
  BY <1>1, ThreeOwners, Handed DEF Inv, With
<1>3. \A x \in Owners : a2[x] = IF x = "generator" THEN r.arena ELSE arena[x]
  BY DEF Inv, Good, With
<1>4. Settle(r.heap, a2, {}, {})
  BY DEF Kept
<1> HIDE DEF a2
<1>5. /\ {} \in SUBSET Owners /\ {} \cap {} = {}
  OBVIOUS
<1>6. /\ Good(heap', arena', lost')
      /\ \A x \in Owners : arena'[x] = IF x = "generator" THEN r.arena ELSE arena[x]
      /\ \A b \in Blocks(r.arena) : heap'[b] = r.heap[b]
  <2>1. {} \in SUBSET Owners
    OBVIOUS
  <2>2. /\ Good(heap', arena', lost')
        /\ \A x \in Owners : arena'[x] = IF x \in {} \cup {} THEN NoArena ELSE a2[x]
        /\ \A x \in Owners \ ({} \cup {}) : \A b \in Blocks(a2[x]) : heap'[b] = r.heap[b]
    BY <1>2, <1>4, <1>5, <2>1, Settled
  <2>3. \A x \in Owners : arena'[x] = a2[x] /\ \A b \in Blocks(a2[x]) : heap'[b] = r.heap[b]
    BY <2>2
  <2> QED BY <1>3, <2>2, <2>3, ThreeOwners
<1>7. Holds(heap', arena'["generator"], mos')
  <2>1. r.arena \in Arena
    BY <1>1 DEF Replaces, Lives
  <2> QED BY <1>1, <1>6, <2>1, ThreeOwners, HeldInBlocks
<1>8. Control'
  BY <1>1, <1>6, ThreeOwners DEF Inv, Control, Exists, Parsing, Made, Places
<1>9. put' = mos'.count /\ IsBuffer(mos')
  BY <1>1 DEF Inv, Text
<1>10. ~NoText'
  <2>1. at' \in {"caller", "parse", "ending"}
    OBVIOUS
  <2> QED BY <2>1 DEF NoText
<1>11. /\ result' \in [block : Nat, count : Nat, capacity : Nat]
       /\ result'.capacity <= mos'.capacity /\ ResultsStand'
  <2>1. /\ mos \in [buffer : Nat, capacity : Nat, count : Nat]
        /\ r.mos \in [buffer : Nat, capacity : Nat, count : Nat]
        /\ r.mos.count >= mos.count
    <3>1. r.mos.count = mos.count + n \/ r.mos.count = mos.count
      BY <1>1
    <3> QED BY <1>1, <3>1 DEF Inv, Text, IsBuffer
  <2>2. CASE result' = GivenNow(r.mos)
    <3>1. /\ result'.block = r.mos.buffer /\ result'.count = r.mos.count
          /\ result'.capacity = r.mos.capacity
      BY <2>2 DEF GivenNow, Given
    <3>2. result' \in [block : Nat, count : Nat, capacity : Nat]
      BY <2>1, <2>2 DEF GivenNow, Given
    <3> QED BY <2>1, <3>1, <3>2 DEF ResultsStand
  <2>3. CASE result' = result
    <3>1. /\ result \in [block : Nat, count : Nat, capacity : Nat]
          /\ result.capacity <= mos.capacity
          /\ result.capacity = mos.capacity => result.block = mos.buffer /\ result.count <= mos.count
      BY DEF Inv, Text, ResultsStand
    <3>2. result.capacity <= r.mos.capacity
      BY <1>1, <2>1, <3>1
    <3>3. result.capacity = r.mos.capacity
            => result.block = r.mos.buffer /\ result.count <= r.mos.count
      BY <1>1, <2>1, <3>1
    <3> QED BY <2>3, <3>1, <3>2, <3>3 DEF ResultsStand
  <2> QED BY <2>2, <2>3
<1>12. Text'
  BY <1>7, <1>9, <1>10, <1>11 DEF Text
<1> QED BY <1>6, <1>8, <1>12 DEF Inv
LEMMA PutKeeps == ASSUME Inv, Put PROVE Inv'
<1>1. /\ kind = "json" /\ at \in {"caller", "parse"} /\ Exists("generator")
      /\ kind' = kind /\ opts' = opts /\ result' = result
  BY DEF Put, Generates, CallerRuns, At, Inv, Control
<1>2. PICK n \in Lengths : \E r \in Writes(n) :
        /\ Kept("generator", r) /\ mos' = r.mos
        /\ put' = IF r.ok THEN put + n ELSE put
        /\ Continues(r.ok)
  BY DEF Put
<1>3. PICK r \in Writes(n) :
        /\ Kept("generator", r) /\ mos' = r.mos
        /\ put' = IF r.ok THEN put + n ELSE put
        /\ Continues(r.ok)
  BY <1>2
<1>4. n \in Nat \ {0}
  BY LifecycleAssumption
<1>5. Puts(heap, arena["generator"], mos, n, r)
  <2>1. /\ Lives(heap, arena["generator"]) /\ arena["generator"] # NoArena
        /\ IsBuffer(mos) /\ Holds(heap, arena["generator"], mos)
    BY <1>1, ThreeOwners, OwnerLives DEF Inv, Text, Exists
  <2>2. CASE r \in mos_puts(heap, arena["generator"], mos, n)
    BY <1>4, <2>1, <2>2, Reserved DEF mos_puts
  <2>3. CASE n <= NumberRoom /\ r \in jos_putn(heap, arena["generator"], mos, n)
    BY <1>4, <2>1, <2>3, NumbersPut
  <2> QED BY <1>3, <2>2, <2>3 DEF Writes
<1>6. at' = at \/ (at = "parse" /\ at' = "ending")
  BY <1>1, <1>3 DEF Continues
<1> QED BY <1>1, <1>3, <1>4, <1>5, <1>6, PutsKeep

LEMMA ResultStringKeeps == ASSUME Inv, jsnpg_result_string PROVE Inv'
<1>1. /\ kind = "json" /\ at = "caller" /\ Exists("generator")
      /\ kind' = kind /\ opts' = opts /\ at' = at
  BY DEF jsnpg_result_string, CallerRuns, At, Inv, Control
<1>2. PICK r \in mos_puts(heap, arena["generator"], mos, 1) :
        /\ Kept("generator", r) /\ mos' = r.mos
        /\ put' = IF r.ok THEN put + 1 ELSE put
        /\ result' = IF r.ok THEN GivenNow(r.mos) ELSE result
  BY DEF jsnpg_result_string
<1>3. Puts(heap, arena["generator"], mos, 1, r)
  <2>1. /\ Lives(heap, arena["generator"]) /\ arena["generator"] # NoArena
        /\ IsBuffer(mos) /\ Holds(heap, arena["generator"], mos)
    BY <1>1, ThreeOwners, OwnerLives DEF Inv, Text, Exists
  <2> QED BY <2>1, Reserved DEF mos_puts
<1>4. result' = result \/ result' = GivenNow(r.mos)
  BY <1>2
<1>5. 1 \in Nat \ {0}
  OBVIOUS
<1> QED BY <1>1, <1>2, <1>3, <1>4, <1>5, PutsKeep

LEMMA ResultBytesKeeps == ASSUME Inv, jsnpg_result_bytes PROVE Inv'
<1>1. /\ UNCHANGED <<heap, arena, lost, kind, mos, put, at, opts>>
      /\ result' = [block |-> mos.buffer, count |-> mos.count, capacity |-> mos.capacity]
  BY DEF jsnpg_result_bytes, memory, GivenNow, Given
<1>2. mos \in [buffer : Nat, capacity : Nat, count : Nat]
  BY DEF Inv, Text, IsBuffer
<1>3. /\ result' \in [block : Nat, count : Nat, capacity : Nat]
      /\ result'.capacity <= mos.capacity /\ result'.capacity = mos.capacity
      /\ result'.block = mos.buffer /\ result'.count <= mos.count
  BY <1>1, <1>2
<1>4. Text'
  BY <1>1, <1>3 DEF Inv, Text, ResultsStand, NoText, Parsing
<1>5. Control'
  BY <1>1 DEF Inv, Control, Exists, Parsing, Made
<1> QED BY <1>1, <1>4, <1>5 DEF Inv, Good

LEMMA RecordKeeps == ASSUME Inv, Record PROVE Inv'
<1>1. /\ kind = "dom" /\ at \in {"caller", "parse"} /\ Exists("generator")
      /\ mos = NoBuffer /\ kind' = kind /\ opts' = opts /\ UNCHANGED text
  BY DEF Record, Generates, CallerRuns, At, Inv, Control, Text, NoText, output, text
<1>2. PICK m \in allocator_alloc(heap, arena["generator"], StructSize) :
        Kept("generator", m) /\ Continues(m.p # NULL)
  BY DEF Record
<1>3. Replaces(heap, arena["generator"], m.heap, m.arena) /\ m.arena # NoArena
  BY <1>1, ThreeOwners, Allocates DEF StructSize
<1>4. at' = at \/ (at = "parse" /\ at' = "ending")
  BY <1>1, <1>2 DEF Continues
<1>5. /\ Good(heap', arena', lost') /\ Text'
      /\ \A x \in Owners : arena'[x] = IF x = "generator" THEN m.arena ELSE arena[x]
  BY <1>1, <1>2, <1>3, ThreeOwners, Aside DEF Kept
<1>6. Control'
  BY <1>1, <1>3, <1>4, <1>5, ThreeOwners DEF Inv, Control, Exists, Parsing, Made, Places
<1> QED BY <1>5, <1>6 DEF Inv

LEMMA EndParseKeeps == ASSUME Inv, EndParse PROVE Inv'
<1> DEFINE ends == {"parser"} \cup (IF opts.output = "callbacks" THEN {"inner"} ELSE {})
<1>1. /\ at \in {"parse", "ending"} /\ at' = "caller" /\ opts' = NoOpts
      /\ kind' = kind /\ UNCHANGED text /\ Settle(heap, arena, ends, {})
  BY DEF EndParse, At, output, text
<1>2. /\ ends \in SUBSET Owners /\ {} \in SUBSET Owners /\ ends \cap {} = {}
      /\ "generator" \notin ends \cup {}
      /\ Exists("inner") => "inner" \in ends
  BY ThreeOwners DEF Inv, Control
<1> HIDE DEF ends
<1>3. NoText' => mos = NoBuffer
  BY <1>1 DEF NoText, Inv, Text
<1>4. /\ Good(heap', arena', lost') /\ Text'
      /\ \A x \in Owners : arena'[x] = IF x \in ends \cup {} THEN NoArena ELSE arena[x]
  BY <1>1, <1>2, <1>3, Aside0
<1>5. arena'["inner"] = NoArena /\ arena'["generator"] = arena["generator"]
  BY <1>2, <1>4, ThreeOwners DEF Exists
<1>6. Control'
  BY <1>1, <1>5, NoOptsAreOptions DEF Inv, Control, Exists, Parsing, Made, Places
<1> QED BY <1>4, <1>6 DEF Inv

-----------------------------------------------------------------------------
LEMMA InitInv == Init => Inv
<1> SUFFICES ASSUME Init PROVE Inv
  OBVIOUS
<1>1. /\ DOMAIN heap = {} /\ IsHeap(heap) /\ lost = {}
      /\ arena \in [Owners -> Arena] /\ \A o \in Owners : arena[o] = NoArena
  BY NoArenaIsEmpty DEF Init, IsHeap
<1>2. Owned(heap, arena, lost)
  BY <1>1, NoArenaIsEmpty, OwnedByBlocks
<1>3. Holds(heap, arena["generator"], mos)
  BY NoBufferHolds DEF Init
<1>4. Text
  BY <1>3 DEF Init, Text, IsBuffer, NoBuffer, NoResult, ResultsStand, NULL
<1>5. Control
  BY <1>1, NoOptsAreOptions, ThreeOwners DEF Init, Control, Exists, Parsing, Made, Places, Kinds
<1> QED BY <1>1, <1>2, <1>4, <1>5 DEF Inv, Good

LEMMA InvHolds == Spec => []Inv
<1>1. Inv /\ [Next]_vars => Inv'
  <2> SUFFICES ASSUME Inv, [Next]_vars PROVE Inv'
    OBVIOUS
  <2>1. CASE UNCHANGED vars
    <3>1. UNCHANGED <<heap, arena, kind, mos, opts, at, result, put, lost>>
      BY <2>1 DEF vars
    <3>2. Control'
      BY <3>1 DEF Inv, Control, Exists, Parsing, Made
    <3>3. Text'
      BY <3>1 DEF Inv, Text, ResultsStand, NoText, Parsing
    <3> QED BY <3>1, <3>2, <3>3 DEF Inv, Good
  <2>2. CASE NewParser \/ ParserStruct \/ SetBytes \/ SetDom \/ BadInput \/ jsnpg_parser_free
    BY <2>2, NewParserKeeps, ParserStructKeeps, SetBytesKeeps, SetDomKeeps, BadInputKeeps,
       ParserFreeKeeps
  <2>3. CASE jsnpg_generator_new_opt \/ Output \/ GeneratorStruct \/ Context \/ jsnpg_generator_free
    BY <2>3, NewGeneratorKeeps, OutputKeeps, GeneratorStructKeeps, ContextKeeps, GeneratorFreeKeeps
  <2>4. CASE Put \/ Record \/ EndParse \/ jsnpg_result_string \/ jsnpg_result_bytes
    BY <2>4, PutKeeps, RecordKeeps, EndParseKeeps, ResultStringKeeps, ResultBytesKeeps
  <2> QED BY <2>1, <2>2, <2>3, <2>4 DEF Next
<1> QED BY <1>1, InitInv, PTL DEF Spec

(* The variables are what they are declared to be.                         *)
THEOREM TypeCorrect == Spec => []TypeOK
<1>1. Inv => TypeOK
  <2> SUFFICES ASSUME Inv PROVE TypeOK
    OBVIOUS
  <2>1. heap \in [DOMAIN heap -> Nat] /\ DOMAIN heap \subseteq Address
    BY DEF Inv, Good, IsHeap
  <2>2. lost \subseteq Address
    BY <2>1, OwnedByBlocks DEF Inv, Good
  <2>3. mos \in [buffer : Nat, capacity : Nat, count : Nat] /\ put \in Nat
    BY DEF Inv, Text, IsBuffer
  <2>4. /\ result \in [block : Nat, count : Nat, capacity : Nat]
        /\ arena \in [Owners -> [self : Nat, allocs : Nat, capacity : Nat, entries : Seq(Address)]]
    BY DEF Inv, Text, Good, Arena
  <2>5. at \in Places /\ kind \in Kinds /\ opts \in Options
    BY DEF Inv, Control
  <2> QED BY <2>1, <2>2, <2>3, <2>4, <2>5 DEF TypeOK, Places, Kinds, Options
<1> QED BY <1>1, InvHolds, PTL

(* Whatever allocation fails and whatever the caller does in which order:  *)
(* every block belongs to one owner and is noted there once, or it is one  *)
(* that a failed creation is known to leave.                               *)
THEOREM OwnsTheHeap == Spec => []HeapIsOwned
<1>1. Inv => HeapIsOwned
  BY DEF Inv, Good, HeapIsOwned
<1> QED BY <1>1, InvHolds, PTL

(* The text is what the calls said they put, in a buffer that is its own.  *)
THEOREM BufferKeepsText == Spec => []BufferHoldsText
<1>1. Inv => BufferHoldsText
  BY DEF Inv, Text, IsBuffer, Holds, BufferHoldsText
<1> QED BY <1>1, InvHolds, PTL

(* A result names the text until the buffer grows.                         *)
THEOREM ResultsStay == Spec => []ResultsStand
<1>1. Inv => ResultsStand
  BY DEF Inv, Text
<1> QED BY <1>1, InvHolds, PTL
=============================================================================
