---------------------------- MODULE OutputBuffer ----------------------------
(***************************************************************************)
(* The memory output stream of output.c: a buffer that doubles until what  *)
(* is put fits.  Of the text only its length is kept.                      *)
(***************************************************************************)
EXTENDS Allocator

CONSTANTS InitialCapacity,    \* MOS_DEFAULT_CAPACITY: 4096
          NumberRoom          \* the longest number: 22 for a long, 64 for a double

ASSUME BufferAssumption == InitialCapacity \in Nat \ {0} /\ NumberRoom \in Nat \ {0}

NoBuffer == [buffer |-> NULL, capacity |-> 0, count |-> 0]      \* mos_new

(* Mutants: the capacity is that of a buffer that could not be had; what   *)
(* is not needed of a reservation is given back twice.                     *)
WithBufferAnyway(mos, p, size) == [mos EXCEPT !.buffer = p, !.capacity = size]
GivenBackTwice(mos, n) == [mos EXCEPT !.count = @ - 2 * n]

WithBuffer(mos, p, size) ==
  IF p = NULL THEN mos ELSE [mos EXCEPT !.buffer = p, !.capacity = size]

(* Doubled from size until it is required or more.                         *)
Sizes(size, required) ==
  {s \in required..(size + 2 * required) :
     (\E k \in 0..required : s = size * 2 ^ k) /\ (s > size => s < 2 * required)}

mos_grow(heap, arena, mos, incr) ==
  UNION {{[heap |-> m.heap, arena |-> m.arena, mos |-> WithBuffer(mos, m.p, size), p |-> m.p] :
            m \in IF mos.buffer # NULL THEN allocator_realloc(heap, arena, mos.buffer, size)
                                       ELSE allocator_alloc(heap, arena, size)} :
         size \in Sizes(IF mos.capacity # 0 THEN 2 * mos.capacity ELSE InitialCapacity,
                        mos.count + incr)}

Taken(mos, count) == [mos EXCEPT !.count = @ + count]

(* ok: what is returned is not NULL.                                       *)
mos_reserve(heap, arena, mos, count) ==
  IF count > mos.capacity - mos.count
  THEN {[heap |-> g.heap, arena |-> g.arena, ok |-> g.p # NULL,
         mos |-> IF g.p = NULL THEN g.mos ELSE Taken(g.mos, count)] :
        g \in mos_grow(heap, arena, mos, count)}
  ELSE {[heap |-> heap, arena |-> arena, ok |-> mos.buffer # NULL, mos |-> Taken(mos, count)]}

(* mos_put, mos_putn and mos_puts of count bytes.                          *)
mos_puts(heap, arena, mos, count) == mos_reserve(heap, arena, mos, count)

mos_adjust(mos, n) == [mos EXCEPT !.count = @ - n]

(* jos_puti, jos_putr: room for any number is reserved, and what the       *)
(* number does not need of it given back.                                  *)
jos_putn(heap, arena, mos, count) ==
  {[r EXCEPT !.mos = IF r.ok THEN mos_adjust(@, NumberRoom - count) ELSE @] :
   r \in mos_reserve(heap, arena, mos, NumberRoom)}
=============================================================================
