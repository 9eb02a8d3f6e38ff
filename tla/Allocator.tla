----------------------------- MODULE Allocator ------------------------------
(***************************************************************************)
(* The allocator of alloc.c: everything that is allocated for one parser   *)
(* or generator is noted in a table, and freed with it.                    *)
(*                                                                         *)
(* The heap is a function from the addresses in use to the sizes in bytes  *)
(* of what is there.  An operation that allocates may end in several ways: *)
(* its operator is the set of the outcomes, records of the heap and of     *)
(* what the operation changes and returns.  Any allocation may fail.       *)
(***************************************************************************)
EXTENDS Naturals, Sequences, SequencesExt

CONSTANTS Address,       \* where something may be allocated
          TableSize,     \* ALLOCATOR_DEFAULT_ALLOCS: 1024 entries
          PointerSize    \* sizeof(void *): 8

ASSUME AllocatorAssumption ==
  /\ Address \subseteq Nat \ {0}
  /\ TableSize \in Nat \ {0}
  /\ PointerSize \in Nat \ {0}

NULL == 0
StructSize == 1          \* of any struct: its size makes no difference

(* malloc takes the lowest address there is, so that one that was freed is *)
(* soon in use again; realloc stays there or moves.                        *)
Free(heap) == {a \in Address \ DOMAIN heap : \A b \in Address \ DOMAIN heap : a <= b}
WithBlock(heap, a, size) == [b \in DOMAIN heap \cup {a} |-> IF b = a THEN size ELSE heap[b]]
Without(heap, blocks) == [b \in DOMAIN heap \ blocks |-> heap[b]]

pg_alloc(heap, size) ==
  {[heap |-> heap, p |-> NULL]}
  \cup {[heap |-> WithBlock(heap, a, size), p |-> a] : a \in Free(heap)}

pg_realloc(heap, p, size) ==
  {[heap |-> heap, p |-> NULL]}
  \cup {[heap |-> WithBlock(Without(heap, {p}), a, size), p |-> a] : a \in {p} \cup Free(heap)}

(* struct allocator, at address self.  The entries in use are those of the *)
(* table allocs, whether or not it has room for them.                      *)
NoArena == [self |-> NULL, allocs |-> NULL, capacity |-> 0, entries |-> <<>>]

(* Everything that is freed with the allocator.                            *)
Blocks(arena) == ({arena.self, arena.allocs} \cup Range(arena.entries)) \ {NULL}

allocator_new(heap) ==
  UNION {IF s.p = NULL THEN {[heap |-> s.heap, arena |-> NoArena]}
         ELSE {IF t.p = NULL THEN [heap |-> Without(t.heap, {s.p}), arena |-> NoArena]
               ELSE [heap |-> t.heap,
                     arena |-> [self |-> s.p, allocs |-> t.p,
                                capacity |-> TableSize, entries |-> <<>>]] :
               t \in pg_alloc(s.heap, TableSize * PointerSize)} :
         s \in pg_alloc(heap, StructSize)}

(* allocator_free of each of the allocators.                               *)
allocator_free(heap, arenas) == Without(heap, UNION {Blocks(a) : a \in arenas})

Used(arena) == Len(arena.entries)
Full(arena) == Used(arena) = arena.capacity

(* The table with room for one more entry.  It is asked for as many bytes  *)
(* as it is to have entries.                                               *)
WithRoom(heap, arena) ==
  IF ~Full(arena) THEN {[heap |-> heap, arena |-> arena, ok |-> TRUE]}
  ELSE {IF t.p = NULL THEN [heap |-> t.heap, arena |-> arena, ok |-> FALSE]
        ELSE [heap |-> t.heap, ok |-> TRUE,
              arena |-> [arena EXCEPT !.capacity = 2 * @, !.allocs = t.p]] :
        t \in pg_realloc(heap, arena.allocs, 2 * arena.capacity)}

allocator_alloc(heap, arena, size) ==
  UNION {IF ~r.ok THEN {[heap |-> r.heap, arena |-> r.arena, p |-> NULL]}
         ELSE {[heap |-> m.heap, p |-> m.p,
                arena |-> IF m.p = NULL THEN r.arena
                          ELSE [r.arena EXCEPT !.entries = Append(@, m.p)]] :
               m \in pg_alloc(r.heap, size)} :
         r \in WithRoom(heap, arena)}

(* Mutant of Entered: the table keeps the address from before.             *)
EnteredNowhere(arena, p, np) == arena

Entered(arena, p, np) ==
  [arena EXCEPT !.entries = [i \in DOMAIN @ |-> IF @[i] = p THEN np ELSE @[i]]]

(* The entries differ, so that the first one found is the only one.        *)
allocator_realloc(heap, arena, p, size) ==
  IF p \notin Range(arena.entries) THEN {[heap |-> heap, arena |-> arena, p |-> NULL]}
  ELSE {[heap |-> m.heap, p |-> m.p,
         arena |-> IF m.p = NULL THEN arena ELSE Entered(arena, p, m.p)] :
        m \in pg_realloc(heap, p, size)}

(* The entries lie within what was allocated for the table.                *)
InTable(heap, arena) == Used(arena) * PointerSize <= heap[arena.allocs]

(* No block is noted twice: the struct and its table are there, and differ *)
(* from each other and from the entries, and the entries differ.           *)
NotedOnce(arena) ==
  /\ arena # NoArena => arena.self # arena.allocs /\ NULL \notin {arena.self, arena.allocs}
  /\ {arena.self, arena.allocs} \cap Range(arena.entries) = {}
  /\ IsInjective(arena.entries)
=============================================================================
