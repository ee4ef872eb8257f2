------------------------------- MODULE Alloc -------------------------------
(***************************************************************************)
(* The global allocator (axalloc): pages from a bitmap, bytes from one of  *)
(* three allocators, which gets its memory from the bitmap and is given    *)
(* more when it runs out.  The slab allocator keeps a list of free blocks  *)
(* for each size and takes a set of blocks at a time from a buddy heap.    *)
(* Addresses and sizes are in units of the smallest block.  The crates     *)
(* bitmap_allocator, buddy_system_allocator and rlsf are external.         *)
(***************************************************************************)
EXTENDS Integers, Sequences, FiniteSets, FiniteSetsExt, SequencesExt

CONSTANTS AL_PAGE_SIZE, MIN_HEAP_SIZE, SET_SIZE,
          BlkSizes,          \* the block sizes of the slabs
          AlStart, AlSize,   \* the memory given to global_init
          AlKinds,           \* the byte allocators: "slab", "buddy", "tlsf"
          AlLayouts,         \* <<size, alignment>>
          AlPages,           \* <<pages, alignment>>
          MaxAlCalls

VARIABLES al_kind, al_h, al_live, al_calls
al_vars == <<al_kind, al_h, al_live, al_calls>>

al_align_down(pos, align) == pos - (pos % align)
al_align_up(pos, align) == al_align_down(pos + align - 1, align)
next_power_of_two(n) == CHOOSE p \in {2^k : k \in 0..16} : p >= n /\ (p = 1 \/ p \div 2 < n)
AlUnits(a, n) == a..(a + n - 1)

\* The bitmap: the pages taken, by number, and the counters beside it.
bitmap_init(start, size) ==
  LET base == al_align_up(start, AL_PAGE_SIZE)
  IN [base |-> base, total_pages |-> (al_align_down(start + size, AL_PAGE_SIZE) - base) \div AL_PAGE_SIZE,
      used_pages |-> 0, taken |-> {}]
bit_alloc_contiguous(p, n, align) ==
  LET fits == {i \in 0..(p.total_pages - n) : i % align = 0 /\ (i..(i + n - 1)) \cap p.taken = {}}
  IN IF fits = {} THEN {} ELSE {Min(fits)}

\* alloc_pages: the address if there is room, and the allocator after it.
alloc_pages(p, n, align) ==
  IF (align % AL_PAGE_SIZE) # 0 \/ n < 1 THEN [at |-> {}, p |-> p]
  ELSE LET at == bit_alloc_contiguous(p, n, IF n = 1 THEN 1 ELSE align \div AL_PAGE_SIZE)
       IN [at |-> {i * AL_PAGE_SIZE + p.base : i \in at},
           p |-> IF at = {} THEN p
                 ELSE [p EXCEPT !.taken = @ \cup UNION {i..(i + n - 1) : i \in at}, !.used_pages = @ + n]]

\* Only the first page of a block goes back to the bitmap.
bitmap_dealloc_pages(p, pos, n) ==
  [p EXCEPT !.used_pages = @ - n, !.taken = @ \ {(pos - p.base) \div AL_PAGE_SIZE}]

-----------------------------------------------------------------------------
\* The buddy heap: free blocks, as <<address, power of two>>.
RECURSIVE add_to_heap(_, _, _)
add_to_heap(free, start, end) ==
  IF start >= end THEN free
  ELSE LET s == Max({x \in {2^k : k \in 0..16} : start % x = 0 /\ start + x <= end})
       IN add_to_heap(free \cup {<<start, s>>}, start + s, end)
buddy_size(layout) == next_power_of_two(Max({layout[1], layout[2]}))
buddy_alloc(free, s) ==
  LET fit == {b \in free : b[2] >= s}
      of == {b \in fit : \A c \in fit : b[2] <= c[2]}
  IN {[at |-> b[1], free |-> (free \ {b}) \cup {<<b[1] + h, h>> : h \in {x \in {2^k : k \in 0..16} : x >= s /\ 2 * x <= b[2]}}] : b \in of}
RECURSIVE buddy_dealloc(_, _, _)
buddy_dealloc(free, a, s) ==
  LET buddy == IF (a \div s) % 2 = 0 THEN a + s ELSE a - s
  IN IF <<buddy, s>> \in free THEN buddy_dealloc(free \ {<<buddy, s>>}, Min({a, buddy}), 2 * s)
     ELSE free \cup {<<a, s>>}

\* FreeBlockList: the blocks from start_addr on, the first at the head.
mut_free_block_list(start_addr, block_size, num_of_blocks) ==
  [i \in 1..(num_of_blocks + 1) |-> start_addr + (i - 1) * block_size]
free_block_list(start_addr, block_size, num_of_blocks) ==
  [i \in 1..num_of_blocks |-> start_addr + (i - 1) * block_size]
\* The blocks are popped from the new list and pushed on the old: they come out last first.
slab_grow(slab, start_addr, blk, slab_size) ==
  [list |-> Reverse(free_block_list(start_addr, blk, slab_size \div blk)) \o slab.list,
   total |-> slab.total + (slab_size \div blk)]
slab_allocate(h, blk) ==
  IF h.slabs[blk].list # <<>>
  THEN {[at |-> Head(h.slabs[blk].list), h |-> [h EXCEPT !.slabs[blk].list = Tail(@)]]}
  ELSE {LET slab == slab_grow(h.slabs[blk], r.at, blk, SET_SIZE * blk)
        IN [at |-> Head(slab.list), h |-> [h EXCEPT !.free = r.free, !.slabs[blk] = [slab EXCEPT !.list = Tail(@)]]]
          : r \in buddy_alloc(h.free, next_power_of_two(Max({SET_SIZE * blk, AL_PAGE_SIZE})))}

\* The block size that serves a layout; none for what the buddy heap serves.
layout_to_allocator(layout) ==
  LET big == Max(BlkSizes)
      fit == {b \in BlkSizes : layout[1] <= b /\ layout[2] <= b}
  IN IF layout[1] > big THEN {} ELSE IF fit = {} THEN {big} ELSE {Min(fit)}

\* Everything a call may answer; {} if there is no memory.
heap_allocate(h, layout) ==
  LET blk == layout_to_allocator(layout)
  IN IF blk = {} THEN {[at |-> r.at, h |-> [h EXCEPT !.free = r.free]] : r \in buddy_alloc(h.free, buddy_size(layout))}
     ELSE slab_allocate(h, Min(blk))
heap_deallocate(h, a, layout) ==
  LET blk == layout_to_allocator(layout)
  IN IF blk = {} THEN [h EXCEPT !.free = buddy_dealloc(@, a, buddy_size(layout))]
     ELSE [h EXCEPT !.slabs[Min(blk)].list = <<a>> \o @]
heap_total_bytes(h) ==
  MapThenSumSet(LAMBDA b : h.slabs[b].total * b, BlkSizes) + h.total

\* The two others; a block of the TLSF allocator has its header before it.
buddy_byte_alloc(h, layout) == {[at |-> r.at, h |-> [h EXCEPT !.free = r.free]] : r \in buddy_alloc(h.free, buddy_size(layout))}
tlsf_alloc(h, layout) ==
  {[at |-> a, h |-> [h EXCEPT !.gaps = @ \ AlUnits(a - 1, layout[1] + 1), !.used = @ + layout[1]]]
    : a \in {x \in h.gaps : x % layout[2] = 0 /\ AlUnits(x - 1, layout[1] + 1) \subseteq h.gaps}}
tlsf_dealloc(h, a, layout) == [h EXCEPT !.gaps = @ \cup AlUnits(a - 1, layout[1] + 1), !.used = @ - layout[1]]

balloc_alloc(h, layout) ==
  CASE al_kind = "slab" -> heap_allocate(h, layout)
    [] al_kind = "buddy" -> buddy_byte_alloc(h, layout)
    [] al_kind = "tlsf" -> tlsf_alloc(h, layout)
balloc_dealloc(h, a, layout) ==
  CASE al_kind = "slab" -> heap_deallocate(h, a, layout)
    [] al_kind = "buddy" -> [h EXCEPT !.free = buddy_dealloc(@, a, buddy_size(layout))]
    [] al_kind = "tlsf" -> tlsf_dealloc(h, a, layout)
balloc_total_bytes(h) == IF al_kind = "slab" THEN heap_total_bytes(h) ELSE h.total
\* add_memory, and init, which is the same on an empty allocator.
balloc_add_memory(kind, h, start, size) ==
  IF kind = "tlsf" THEN [h EXCEPT !.gaps = @ \cup AlUnits(start, size), !.total = @ + size]
  ELSE [h EXCEPT !.free = add_to_heap(@, start, start + size), !.total = @ + size]

-----------------------------------------------------------------------------
al_init ==
  /\ al_kind = "none"
  /\ \E kind \in AlKinds :
       LET got == alloc_pages(bitmap_init(AlStart, AlSize), MIN_HEAP_SIZE \div AL_PAGE_SIZE, AL_PAGE_SIZE)
           empty == [p |-> got.p, free |-> {}, gaps |-> {}, used |-> 0, total |-> 0,
                     slabs |-> [b \in BlkSizes |-> [list |-> <<>>, total |-> 0]]]
       IN al_kind' = kind /\ al_h' = balloc_add_memory(kind, empty, Min(got.at), MIN_HEAP_SIZE)
  /\ UNCHANGED <<al_live, al_calls>>

\* The loop of alloc: as long as the byte allocator fails, it gets as much
\* memory again as it has, or as the call wants.
RECURSIVE expanded(_, _)
expanded(h, layout) ==
  IF balloc_alloc(h, layout) # {} THEN h
  ELSE LET expand_size == Max({next_power_of_two(Max({balloc_total_bytes(h), layout[1]})), AL_PAGE_SIZE})
           got == alloc_pages(h.p, expand_size \div AL_PAGE_SIZE, AL_PAGE_SIZE)
       IN IF got.at = {} THEN h
          ELSE expanded(balloc_add_memory(al_kind, [h EXCEPT !.p = got.p], Min(got.at), expand_size), layout)

AlCalls == al_kind # "none" /\ al_calls < MaxAlCalls /\ al_calls' = al_calls + 1 /\ UNCHANGED al_kind

al_alloc ==
  /\ AlCalls
  /\ \E layout \in AlLayouts :
       LET h == expanded(al_h, layout) IN
       IF balloc_alloc(h, layout) = {} THEN al_h' = h /\ UNCHANGED al_live
       ELSE \E r \in balloc_alloc(h, layout) :
              /\ al_h' = r.h
              /\ al_live' = al_live \cup {[a |-> r.at, layout |-> layout, pages |-> 0]}
al_dealloc ==
  /\ AlCalls
  /\ \E b \in al_live :
       /\ b.pages = 0
       /\ al_h' = balloc_dealloc(al_h, b.a, b.layout) /\ al_live' = al_live \ {b}

global_page_alloc ==
  /\ AlCalls
  /\ \E n \in AlPages :
       LET got == alloc_pages(al_h.p, n[1], n[2]) IN
       /\ al_h' = [al_h EXCEPT !.p = got.p]
       /\ al_live' = al_live \cup {[a |-> a, layout |-> <<n[1] * AL_PAGE_SIZE, n[2]>>, pages |-> n[1]] : a \in got.at}
global_page_drop ==
  /\ AlCalls
  /\ \E b \in al_live :
       /\ b.pages > 0
       /\ al_h' = [al_h EXCEPT !.p = bitmap_dealloc_pages(@, b.a, b.pages)] /\ al_live' = al_live \ {b}

AlInit == al_kind = "none" /\ al_h = <<>> /\ al_live = {} /\ al_calls = 0
AlNext == al_init \/ al_alloc \/ al_dealloc \/ global_page_alloc \/ global_page_drop

-----------------------------------------------------------------------------
SlabFree == UNION {UNION {AlUnits(al_h.slabs[b].list[i], b) : i \in DOMAIN al_h.slabs[b].list} : b \in BlkSizes}
HeapFree == (UNION {AlUnits(b[1], b[2]) : b \in al_h.free}) \cup al_h.gaps

\* What has been handed out and not given back is apart: no two of the live
\* blocks and pages overlap, none overlaps memory a free list still has, and
\* each is inside memory the bitmap counts as taken and aligned as asked for.
AllocationsApart ==
  al_kind # "none" =>
    /\ \A b, c \in al_live : b # c => AlUnits(b.a, b.layout[1]) \cap AlUnits(c.a, c.layout[1]) = {}
    /\ \A b \in al_live :
         /\ b.a % b.layout[2] = 0
         /\ AlUnits(b.a, b.layout[1]) \cap (SlabFree \cup HeapFree) = {}
         /\ {(u - al_h.p.base) \div AL_PAGE_SIZE : u \in AlUnits(b.a, b.layout[1])} \subseteq al_h.p.taken
    /\ SlabFree \cap HeapFree = {}

\* available_pages counts the pages that can still be handed out (the doc of
\* dealloc_pages: it gives back the pages from pos on).
AvailableIsFree ==
  al_kind # "none" => al_h.p.used_pages = Cardinality(al_h.p.taken)
=============================================================================
