-------------------------------- MODULE Mmap --------------------------------
(***************************************************************************)
(* mmap, munmap, mprotect, msync, mremap and the page fault, over the map  *)
(* of areas (VMA_MAP), the pages in memory (MEM_MAP), the pages in the     *)
(* swap file (SWAPED_MAP), its free slots (BITMAP_FREE) and the page table.*)
(* Every call but msync holds VMA_MAP from the first look to the end, so   *)
(* it is one step; a fault that has to evict a page first is two, because  *)
(* a store of another CPU may come between the copy and the unmapping.     *)
(*                                                                         *)
(* Addresses count pages.  VMA_MAP is a set of areas with their keys: the  *)
(* key under which the code stores an area is not always its start.        *)
(***************************************************************************)
EXTENDS Integers, Sequences, FiniteSets, FiniteSetsExt, SequencesExt

CONSTANTS VMA_START, VMA_END,   \* the range of mmap
          Frames,               \* the physical pages it may use
          Slots,                \* the places of the swap file
          FileLen,              \* the pages of the one file
          SMP,                  \* whether another CPU runs during a fault
          Programs,             \* the calls that are made, and with what
          MaxCalls

VARIABLES vma, mem, swap, pool, pte, ram, disk, file,
          evicting,   \* the page that a fault is writing out
          given,      \* the pages the answers of the calls have given the program
          program, calls
vars == <<vma, mem, swap, pool, pte, ram, disk, file, evicting, given, program, calls>>

\* Some pages above VMA_END, where areas can come to lie.
Pages == VMA_START..(VMA_END + 2)
None == 0
FileData(o) == 100 + o
\* A program stores the number of the page in it, in the pages program.marks.
Values == {0} \cup Pages \cup {FileData(o) : o \in 0..(FileLen - 1)}

Without(f, S) == [p \in DOMAIN f \ S |-> f[p]]
With(f, p, x) == [q \in DOMAIN f \cup {p} |-> IF q = p THEN x ELSE f[q]]
Used == {pte[p].frame : p \in DOMAIN pte}

-----------------------------------------------------------------------------
(* The map of areas, a BTreeMap.                                           *)

Keys(m) == {v.key : v \in m}
Area(m, k) == CHOOSE v \in m : v.key = k
insert(m, v) == {w \in m : w.key # v.key} \cup {v}
insert_all(m, new) == {w \in m : w.key \notin Keys(new)} \cup new
remove(m, ks) == {w \in m : w.key \notin ks}

\* upper_bound: the last key up to a, and lower_bound: the first from a on.
Upto(m, a) == {k \in Keys(m) : k <= a}
From(m, a) == {k \in Keys(m) : k >= a}
upper_bound(m, a) == IF Upto(m, a) = {} THEN None ELSE Max(Upto(m, a))
lower_bound(m, a) == IF From(m, a) = {} THEN VMA_END ELSE Min(From(m, a))

\* A copy of an area.  Its flags are the prot of the original: MAP_PRIVATE and
\* PROT_WRITE are the same bit.  Its offset is that of the whole.
clone_from(v, start, end) ==
  [v EXCEPT !.key = start, !.start = start, !.end = end, !.private = "w" \in v.prot]

\* The areas a loop from the one at or below start visits until one begins at
\* end or later, and those of them that overlap the range.
Visited(m, start, end, stop(_)) ==
  LET first == upper_bound(m, start)
      after == {k \in Keys(m) : first # None /\ k >= first} IN
  {k \in after : \A j \in after : j <= k => ~stop(Area(m, j).start)}
Larger(a, b) == IF a > b THEN a ELSE b
Smaller(a, b) == IF a < b THEN a ELSE b
get_overlap(v, start, end) == <<Larger(v.start, start), Smaller(v.end, end)>>
Overlaps(v, start, end) == get_overlap(v, start, end)[1] < get_overlap(v, start, end)[2]
Touched(m, start, end) ==
  LET stop(a) == a >= end IN
  {v \in m : v.key \in Visited(m, start, end, stop) /\ Overlaps(v, start, end)}
Counter(m, start, end) ==
  MapThenSumSet(LAMBDA v : get_overlap(v, start, end)[2] - get_overlap(v, start, end)[1], Touched(m, start, end))

\* As if the part of a split area behind the range were dropped.
mut_Cut(m, start, end) ==
  LET T == Touched(m, start, end) IN
  remove(m, Keys(T)) \cup {[v EXCEPT !.end = start] : v \in {w \in T : w.start < start}}

\* The map without a range: areas are shortened, removed and split.
Cut(m, start, end) ==
  LET T == Touched(m, start, end)
      lefts == {[v EXCEPT !.end = start] : v \in {w \in T : w.start < start}}
      rights == {clone_from(v, end, v.end) : v \in {w \in T : w.end > end}} IN
  insert_all(remove(m, Keys(T)) \cup lefts, rights)

\* As if a search did not look at the area below the hint.
mut_find_free_region(m, hint, len) ==
  LET top == IF m = {} THEN VMA_START ELSE Area(m, Max(Keys(m))).end + 1 IN
  IF hint # None /\ lower_bound(m, hint) - hint >= len THEN hint ELSE top

\* The room above the last area is a difference of unsigned numbers: with an
\* area that ends at VMA_END it wraps, and the answer is beyond VMA_END.
find_free_region(m, hint, len) ==
  LET below == upper_bound(m, hint)
      floor == IF below = None THEN VMA_START ELSE Area(m, below).end
      top == IF m = {} THEN VMA_START ELSE Area(m, Max(Keys(m))).end + 1
      room == VMA_END - top
      lefts == {VMA_START} \cup {v.end : v \in m}
      gaps == {l \in lefts : /\ l < VMA_END /\ From(m, l) # {} /\ lower_bound(m, l) - l >= len
                             /\ \A v \in m : ~(v.start <= l /\ l < v.end)} IN
  IF hint # None /\ lower_bound(m, hint) - hint >= len /\ floor <= hint THEN hint
  ELSE IF room < 0 \/ room >= len THEN top
  ELSE IF gaps # {} THEN Min(gaps) ELSE None

-----------------------------------------------------------------------------
(* Pages in memory and in the swap file.                                   *)

InRange(f, start, end) == {p \in DOMAIN f : start <= p /\ p < end}

\* The pages of a range that belong to a file, and the file once they are
\* written to it.
Backed(start, end) == {p \in InRange(mem, start, end) : mem[p] # None}
written(S) ==
  [o \in DOMAIN file |-> LET W == {p \in S : mem[p] = o + 1} IN
                         IF W = {} THEN file[o] ELSE ram[pte[Max(W)].frame]]

\* As if the pages were only removed from MEM_MAP.
mut_release_pages_mapped(start, end, writeback) ==
  /\ file' = IF writeback THEN written(Backed(start, end)) ELSE file
  /\ mem' = Without(mem, InRange(mem, start, end))
  /\ pte' = pte

release_pages_mapped(start, end, writeback) ==
  LET gone == InRange(mem, start, end) IN
  /\ file' = IF writeback THEN written(Backed(start, end)) ELSE file
  /\ mem' = Without(mem, gone)
  /\ pte' = Without(pte, gone)

\* As if the slots were not given back.
mut_release_pages_swaped(start, end) ==
  /\ swap' = Without(swap, InRange(swap, start, end))
  /\ pool' = pool

release_pages_swaped(start, end) ==
  LET gone == InRange(swap, start, end) IN
  /\ swap' = Without(swap, gone)
  /\ pool' = pool \o [i \in 1..Cardinality(gone) |-> swap[SetToSortSeq(gone, <)[i]]]

Releases(start, end) ==
  /\ release_pages_mapped(start, end, TRUE)
  /\ release_pages_swaped(start, end)
  /\ UNCHANGED <<ram, disk>>

\* shift_mapped_page without copy: the frames stay, the addresses change.
Shifted(f, start, end, d) ==
  LET S == InRange(f, start, end) IN
  [p \in (DOMAIN f \ S) \cup {q + d : q \in S} |-> IF p - d \in S THEN f[p - d] ELSE f[p]]
shift_mapped_page(start, end, d) ==
  /\ mem' = Shifted(mem, start, end, d)
  /\ pte' = Shifted(pte, start, end, d)
  /\ swap' = Shifted(swap, start, end, d)
  /\ UNCHANGED <<pool, ram, disk, file>>

\* With copy, a page in the swap file is recorded with the slot of the
\* original, and the slot its copy was written to is lost.
FreeFrames == Frames \ Used
shift_copied_page(start, end, d) ==
  LET S == InRange(mem, start, end)
      W == InRange(swap, start, end)
      n == Cardinality(W)
      g == CHOOSE h \in [S -> FreeFrames] : \A p, q \in S : p # q => h[p] # h[q] IN
  /\ Cardinality(S) <= Cardinality(FreeFrames) /\ n <= Len(pool)
  /\ ram' = [f \in Frames |-> IF \E p \in S : g[p] = f THEN ram[pte[CHOOSE p \in S : g[p] = f].frame] ELSE ram[f]]
  /\ mem' = [p \in DOMAIN mem \cup {q + d : q \in S} |-> IF p - d \in S THEN mem[p - d] ELSE mem[p]]
  /\ pte' = [p \in DOMAIN pte \cup {q + d : q \in S} |-> IF p - d \in S THEN [pte[p - d] EXCEPT !.frame = g[p - d]] ELSE pte[p]]
  /\ swap' = [p \in DOMAIN swap \cup {q + d : q \in W} |-> IF p - d \in W THEN swap[p - d] ELSE swap[p]]
  /\ pool' = SubSeq(pool, 1, Len(pool) - n)
  /\ disk' = [s \in Slots |-> LET I == {i \in 1..n : pool[Len(pool) + 1 - i] = s} IN
                IF I = {} THEN disk[s] ELSE disk[swap[SetToSortSeq(W, <)[Max(I)]]]]
  /\ UNCHANGED file

-----------------------------------------------------------------------------
(* The calls.                                                              *)

Calls(op) == op \in program.ops /\ evicting = {} /\ calls < MaxCalls /\ calls' = calls + 1 /\ UNCHANGED <<evicting, program>>
KeepsPages == UNCHANGED <<mem, swap, pool, pte, ram, disk, file>>

NewArea(start, len, a) ==
  [key |-> start, start |-> start, end |-> start + len, file |-> a.file, off |-> 0, prot |-> a.prot, private |-> a.private]

\* A file is mapped at one place at a time, by the programs that are run.
Elsewhere(a) == a.file /\ \E v \in vma : v.file

sys_mmap ==
  /\ Calls("mmap")
  /\ \E len \in program.lens, a \in program.areas, hint \in program.hints :
       LET at == find_free_region(vma, hint, len) IN
       /\ ~Elsewhere(a)
       /\ at # None /\ at + len - 1 \in Pages
       /\ vma' = insert(vma, NewArea(at, len, a))
       /\ given' = given \cup at..(at + len - 1)
  /\ KeepsPages

\* MAP_FIXED: whatever was there is cut out first.
snatch_fixed_region(start, len) ==
  /\ start + len <= VMA_END
  /\ Releases(start, start + len)

sys_mmap_fixed ==
  /\ Calls("fixed")
  /\ \E len \in program.lens, a \in program.areas, start \in VMA_START..(VMA_END - 1) :
       /\ ~Elsewhere(a) /\ upper_bound(vma, start) >= program.above
       /\ snatch_fixed_region(start, len)
       /\ given' = given \cup start..(start + len - 1)
       /\ vma' = insert(Cut(vma, start, start + len), NewArea(start, len, a))

\* A range that is not mapped throughout is refused.
sys_munmap ==
  /\ Calls("munmap")
  /\ \E len \in program.lens, start \in Pages :
       /\ Counter(vma, start, start + len) = len
       /\ given' = given \ start..(start + len - 1)
       /\ vma' = Cut(vma, start, start + len)
       /\ Releases(start, start + len)

\* The pages of the range in memory change at once, the others when they come.
sys_mprotect ==
  /\ Calls("mprotect")
  /\ \E len \in program.lens, start \in Pages, prot \in {{"r"}, {"r", "w"}} :
       LET end == start + len
           T == Touched(vma, start, end)
           whole == {[v EXCEPT !.end = Smaller(v.end, end), !.prot = prot] : v \in {w \in T : w.start >= start}}
           middle == {[clone_from(v, start, Smaller(v.end, end)) EXCEPT !.prot = prot] : v \in {w \in T : w.start < start}}
           lefts == {[v EXCEPT !.end = start] : v \in {w \in T : w.start < start}}
           rights == {clone_from(v, end, v.end) : v \in {w \in T : w.end > end}} IN
       /\ Counter(vma, start, end) = len
       /\ vma' = insert_all(insert_all(vma, middle \cup rights), lefts \cup whole)
       /\ pte' = [p \in DOMAIN pte |-> IF p \in InRange(mem, start, end) THEN [pte[p] EXCEPT !.w = "w" \in prot] ELSE pte[p]]
  /\ UNCHANGED <<mem, swap, pool, ram, disk, file, given>>

sys_msync ==
  /\ Calls("msync")
  /\ \E start \in Pages : file' = written(Backed(start, start + 2))
  /\ UNCHANGED <<vma, mem, swap, pool, pte, ram, disk, given>>

-----------------------------------------------------------------------------
(* mremap.  The areas of the range must follow each other and agree; the   *)
(* code works on a copy of their union.                                    *)

Consistent(m, start, end) ==
  LET stop(a) == a > end
      K == Visited(m, start, end, stop)
      V == {v \in m : v.key \in K} IN
  /\ V # {}
  /\ \A v, w \in V : v.key < w.key /\ ~(\E x \in V : v.key < x.key /\ x.key < w.key)
       => /\ v.end = w.start /\ v.prot = w.prot /\ v.file = w.file
          /\ w.private = (IF v.key = Min(K) THEN "w" \in v.prot ELSE v.private)
          /\ v.file => v.off + (v.end - v.start) = w.off
Union(m, start, end) ==
  LET stop(a) == a > end
      V == {v \in m : v.key \in Visited(m, start, end, stop)}
      first == Area(m, upper_bound(m, start)) IN
  [area |-> clone_from(first, first.start, Max({v.end : v \in V})), keys |-> {v.start : v \in V}]

Remappable(start, end) ==
  /\ program.whole => \E v \in vma : v.start = start /\ v.end = end
  /\ Consistent(vma, start, end)
  /\ Union(vma, start, end).area.end >= end

\* MREMAP_DONTUNMAP: the old area stays, with a copy of its pages.
remap_copy(u, start, end, n) ==
  LET at == find_free_region(vma, None, n) IN
  /\ n = end - start /\ at # None /\ at + n - 1 \in Pages
  /\ vma' = insert(remove(insert(vma, clone_from(u.area, at, at + n)), u.keys), u.area)
  /\ given' = given \cup at..(at + n - 1)
  /\ shift_copied_page(u.area.start, u.area.end, at - u.area.start)

\* Shrinking changes the copy: the map keeps the old end, and gets an area for
\* what is behind the range although the old one still covers it.
remap_shrink(u, start, end, n) ==
  /\ end - start > n
  /\ given' = given \ (start + n)..(end - 1)
  /\ vma' = IF u.area.end > end THEN insert(vma, clone_from(u.area, end, u.area.end)) ELSE vma
  /\ release_pages_mapped(start + n, end, FALSE)
  /\ release_pages_swaped(start + n, end)
  /\ UNCHANGED <<ram, disk>>

\* Growing in place only replaces the first area of the range.
Grows(start, end, n) == n > end - start /\ lower_bound(vma, end) - end >= n - (end - start)
remap_grow(u, start, end, n) ==
  /\ Grows(start, end, n)
  /\ given' = given \cup start..(start + n - 1)
  /\ vma' = insert(vma, [u.area EXCEPT !.end = start + n])
  /\ KeepsPages

\* Moving: the part in front of the range is stored under the end of the range,
\* and all the pages of the union move.
remap_move(u, start, end, n) ==
  LET at == find_free_region(vma, None, n)
      front == [clone_from(u.area, u.area.start, start) EXCEPT !.key = end]
      back == clone_from(u.area, end, u.area.end)
      fronts == IF u.area.start < start THEN {front} ELSE {}
      backs == IF u.area.end > end THEN {back} ELSE {} IN
  /\ n >= end - start /\ ~Grows(start, end, n)
  /\ at # None /\ at + n - 1 \in Pages /\ at + (u.area.end - u.area.start) - 1 \in Pages
  /\ vma' = insert_all(insert_all(remove(insert_all(vma, {clone_from(u.area, at, at + n)} \cup backs), u.keys), fronts), backs)
  /\ given' = (given \ start..(end - 1)) \cup at..(at + n - 1)
  /\ shift_mapped_page(u.area.start, u.area.end, at - u.area.start)

sys_mremap ==
  \E op \in {"dontunmap", "shrink", "mremap"}, start \in Pages, len \in program.lens, n \in program.lens :
    /\ Calls(op)
    /\ Remappable(start, start + len)
    /\ LET u == Union(vma, start, start + len)
           end == start + len IN
       \/ op = "dontunmap" /\ remap_copy(u, start, end, n)
       \/ op = "shrink" /\ remap_shrink(u, start, end, n)
       \/ op = "mremap" /\ remap_grow(u, start, end, n)
       \/ op = "mremap" /\ remap_move(u, start, end, n)

-----------------------------------------------------------------------------
(* Stores and page faults.                                                 *)

store ==
  /\ evicting = {} \/ SMP
  /\ \E p \in DOMAIN pte \cap program.marks : pte[p].w /\ ram' = [ram EXCEPT ![pte[p].frame] = p]
  /\ UNCHANGED <<vma, mem, swap, pool, pte, disk, file, evicting, given, program, calls>>

\* An access faults where there is no page; it is in order if the area allows
\* it.  Every area can be read.
Faults(p, w) ==
  /\ p \notin DOMAIN pte
  /\ LET k == upper_bound(vma, p) IN
     k # None /\ Area(vma, k).end > p /\ (w => "w" \in Area(vma, k).prot)

\* As if a page that comes back were filled like a new one.
mut_Filled(p, f, a, ram_, disk_, file_, swap_) ==
  IF a.file /\ a.off + (p - a.start) < FileLen THEN file_[a.off + (p - a.start)] ELSE 0

\* What the new page is filled with: its copy in the swap file, the file as far
\* as it goes (behind its end the frame is left as it was), or zeros.
Filled(p, f, a, ram_, disk_, file_, swap_) ==
  IF p \in DOMAIN swap_ THEN disk_[swap_[p]]
  ELSE IF a.file THEN LET o == a.off + (p - a.start) IN IF o < FileLen THEN file_[o] ELSE ram_[f]
  ELSE 0

\* The page p gets the frame f; the rest is what the eviction has left.
Arrives(p, f, mem_, swap_, pool_, pte_, disk_, file_) ==
  LET a == Area(vma, upper_bound(vma, p)) IN
  /\ ram' = [ram EXCEPT ![f] = Filled(p, f, a, ram, disk_, file_, swap_)]
  /\ swap' = Without(swap_, {p})
  /\ pool' = IF p \in DOMAIN swap_ THEN Append(pool_, swap_[p]) ELSE pool_
  /\ mem' = With(mem_, p, IF "w" \in a.prot /\ ~a.private /\ a.file THEN a.off + (p - a.start) + 1 ELSE None)
  /\ pte' = With(pte_, p, [frame |-> f, w |-> "w" \in a.prot])
  /\ disk' = disk_ /\ file' = file_

handle_page_fault ==
  /\ evicting = {} /\ FreeFrames # {}
  /\ \E p \in Pages, w \in BOOLEAN :
       /\ Faults(p, w)
       /\ Arrives(p, Min(FreeFrames), mem, swap, pool, pte, disk, file)
  /\ UNCHANGED <<vma, evicting, given, program, calls>>

\* No frame is free: the page with the lowest address is written out ...
preload_page_with_swap ==
  /\ evicting = {} /\ FreeFrames = {} /\ DOMAIN mem # {}
  /\ \E p \in Pages, w \in BOOLEAN :
       /\ Faults(p, w)
       /\ LET victim == Min(DOMAIN mem) IN
          /\ mem[victim] = None => pool # <<>>
          /\ evicting' = {[page |-> p, victim |-> victim, copy |-> ram[pte[victim].frame]]}
  /\ UNCHANGED <<vma, mem, swap, pool, pte, ram, disk, file, given, program, calls>>

\* ... and then unmapped, and its frame used.
pte_swap_preload ==
  /\ \E e \in evicting :
       LET q == e.victim
           slot == pool[Len(pool)]
           rest == [mem |-> Without(mem, {q}), pte |-> Without(pte, {q})] IN
       IF mem[q] # None
       THEN Arrives(e.page, pte[q].frame, rest.mem, swap, pool, rest.pte, disk,
                    [o \in DOMAIN file |-> IF o = mem[q] - 1 THEN e.copy ELSE file[o]])
       ELSE Arrives(e.page, pte[q].frame, rest.mem, With(swap, q, slot), Front(pool), rest.pte,
                    [disk EXCEPT ![slot] = e.copy], file)
  /\ evicting' = {}
  /\ UNCHANGED <<vma, given, program, calls>>

-----------------------------------------------------------------------------
Empty == [p \in {} |-> 0]

Init ==
  /\ program \in Programs
  /\ vma = {} /\ mem = Empty /\ swap = Empty /\ pte = Empty
  /\ pool = SetToSortSeq(Slots, <)
  /\ ram = [f \in Frames |-> 0] /\ disk = [s \in Slots |-> 0]
  /\ file = [o \in 0..(FileLen - 1) |-> FileData(o)]
  /\ evicting = {} /\ given = {} /\ calls = 0

Next ==
  \/ sys_mmap \/ sys_mmap_fixed \/ sys_munmap \/ sys_mprotect \/ sys_msync \/ sys_mremap
  \/ store \/ handle_page_fault \/ preload_page_with_swap \/ pte_swap_preload

Spec == Init /\ [][Next]_vars

-----------------------------------------------------------------------------
\* A page is recorded in MEM_MAP exactly while the page table maps it, no two
\* pages share a frame, and a page is not in memory and in the swap file at
\* once: what the calls release is neither kept nor used twice.
PagesMatch ==
  /\ DOMAIN mem = DOMAIN pte
  /\ \A p, q \in DOMAIN pte : p # q => pte[p].frame # pte[q].frame
  /\ DOMAIN mem \cap DOMAIN swap = {}

\* Every slot of the swap file is free once, or holds one page.
SlotsOnce ==
  /\ \A p, q \in DOMAIN swap : p # q => swap[p] # swap[q]
  /\ Cardinality(DOMAIN swap) + Len(pool) = Cardinality(Slots)
  /\ ToSet(pool) = Slots \ {swap[p] : p \in DOMAIN swap}

\* The areas do not overlap, and each is stored under its start.
AreasApart == \A v, w \in vma : v.key = v.start /\ (v # w => v.end <= w.start \/ w.end <= v.start)

\* Every page a call has given the program is in an area, where a fault finds it.
GivenIsMapped == \A p \in given : upper_bound(vma, p) # None /\ Area(vma, upper_bound(vma, p)).end > p

\* The areas, MEM_MAP, the page table and the swap file agree on every page.
MapsAgree == PagesMatch /\ SlotsOnce /\ AreasApart /\ GivenIsMapped

\* What a page holds, wherever the kernel keeps it.
ContentOf(p) ==
  LET k == upper_bound(vma, p)
      a == Area(vma, k)
      o == a.off + (p - a.start) IN
  CASE p \in DOMAIN pte -> ram[pte[p].frame]
    [] p \notin DOMAIN pte /\ p \in DOMAIN swap -> disk[swap[p]]
    [] p \notin DOMAIN pte /\ p \notin DOMAIN swap ->
         IF k # None /\ a.end > p /\ a.file /\ o < FileLen THEN file[o] ELSE 0
Content == [p \in Pages |-> ContentOf(p)]

VM == INSTANCE VirtualMemory WITH mapped <- given, content <- Content

\* Faults, eviction, mprotect and msync change nothing a program can see, a
\* call on a range of pages leaves the others alone, and only a store changes
\* what is in a page: the areas, the page table and the swap file are a memory.
MemoryImplemented == VM!Spec /\ [][VM!Replace => VM!Map \/ store \/ sys_mmap_fixed]_<<given, Content>>
=============================================================================
