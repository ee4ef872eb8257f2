------------------------------ MODULE PageTable ------------------------------
(***************************************************************************)
(* PageTable64, the multi-level page table with pages of three sizes, over *)
(* the entry formats of x86-64, AArch64 and RISC-V.  A table is walked     *)
(* from the root; level 0 is the last.  An entry is its set of bits and    *)
(* its address; addresses count small pages, a table is its frame.         *)
(***************************************************************************)
EXTENDS Integers, Sequences, FiniteSets, FiniteSetsExt, SequencesExt

CONSTANTS ENTRY_COUNT,   \* the entries of a table
          PtArchs,       \* the machines: [name, LEVELS]
          PtFrames,      \* the frames the tables are allocated from
          PtCalls,       \* the calls that are made
          PtAddrs,       \* the addresses they pass
          PtFlags,       \* the flags they pass
          MaxPtCalls

VARIABLES pt_arch,     \* {} until the table is created
          pt_mem,      \* the entries of each table
          pt_intrm,    \* intrm_tables
          pt_free,     \* the frames that are free
          pt_flat,     \* the pages the calls have mapped, with address and flags
          pt_calls
pt_vars == <<pt_arch, pt_mem, pt_intrm, pt_free, pt_flat, pt_calls>>

PtName == (CHOOSE a \in pt_arch : TRUE).name
LEVELS == (CHOOSE a \in pt_arch : TRUE).LEVELS
Indices == 0..(ENTRY_COUNT - 1)
SizeOf(l) == ENTRY_COUNT^l
pn_index(v, l) == (v \div SizeOf(l)) % ENTRY_COUNT
align_down(a, l) == a - (a % SizeOf(l))
VPages == 0..(SizeOf(LEVELS) - 1)
root_paddr == pt_intrm[1]

-----------------------------------------------------------------------------
(* The entries of the three machines.                                      *)

\* MappingFlags as bits, and back.
a64_attr(f) ==
  (CASE "DEVICE" \in f -> {}
     [] "DEVICE" \notin f /\ "UNCACHED" \in f -> {"ATTR2", "SH"}
     [] "DEVICE" \notin f /\ "UNCACHED" \notin f -> {"ATTR1", "SH"})
  \cup (IF "READ" \in f THEN {"VALID"} ELSE {})
  \cup (IF "WRITE" \in f THEN {} ELSE {"AP_RO"})
  \cup (IF "USER" \in f THEN {"AP_EL0", "PXN"} ELSE {"UXN"})
  \cup (IF "EXECUTE" \in f THEN {} ELSE IF "USER" \in f THEN {"UXN"} ELSE {"PXN"})
a64_flags(b) ==
  (IF "VALID" \in b THEN {"READ"} ELSE {})
  \cup (IF "AP_RO" \in b THEN {} ELSE {"WRITE"})
  \cup (IF "AP_EL0" \in b THEN {"USER"} ELSE {})
  \cup (IF (IF "AP_EL0" \in b THEN "UXN" ELSE "PXN") \in b THEN {} ELSE {"EXECUTE"})
  \cup (IF "ATTR2" \in b THEN {"UNCACHED"} ELSE IF "ATTR1" \in b THEN {} ELSE {"DEVICE"})
x64_attr(f) ==
  IF f = {} THEN {}
  ELSE {"PRESENT"} \cup {"WRITABLE" : x \in f \cap {"WRITE"}} \cup {"NO_EXECUTE" : x \in {"EXECUTE"} \ f}
       \cup {"USER_ACCESSIBLE" : x \in f \cap {"USER"}} \cup {"NO_CACHE" : x \in f \cap {"DEVICE", "UNCACHED"}}
x64_flags(b) ==
  IF b = {} THEN {}
  ELSE {"READ"} \cup {"WRITE" : x \in b \cap {"WRITABLE"}} \cup {"EXECUTE" : x \in {"NO_EXECUTE"} \ b}
       \cup {"USER" : x \in b \cap {"USER_ACCESSIBLE"}} \cup {"UNCACHED" : x \in b \cap {"NO_CACHE"}}
rv_attr(f) ==
  IF f = {} THEN {}
  ELSE {"V"} \cup {"R" : x \in f \cap {"READ"}} \cup {"W" : x \in f \cap {"WRITE"}}
       \cup {"X" : x \in f \cap {"EXECUTE"}} \cup {"U" : x \in f \cap {"USER"}}
rv_flags(b) ==
  {"READ" : x \in b \cap {"R"}} \cup {"WRITE" : x \in b \cap {"W"}}
  \cup {"EXECUTE" : x \in b \cap {"X"}} \cup {"USER" : x \in b \cap {"U"}}

\* The bits of a leaf; a bit says that it is a huge page, or on AArch64 that it
\* is not, and on RISC-V every leaf looks the same.
a64_page(f, huge) == a64_attr(f) \cup {"AF"} \cup (IF huge THEN {} ELSE {"NON_BLOCK"})
x64_page(f, huge) == x64_attr(f) \cup (IF huge THEN {"HUGE_PAGE"} ELSE {})
rv_page(f, huge) == rv_attr(f) \cup {"A", "D"}
PageBits(f, huge) ==
  CASE PtName = "aarch64" -> a64_page(f, huge)
    [] PtName = "x86_64" -> x64_page(f, huge)
    [] PtName = "riscv" -> rv_page(f, huge)

Unused == [bits |-> {}, pa |-> 0]
new_page(pa, f, huge) == [bits |-> PageBits(f, huge), pa |-> pa]
new_table(t) ==
  [bits |-> CASE PtName = "aarch64" -> {"NON_BLOCK", "VALID"}
              [] PtName = "x86_64" -> {"PRESENT", "WRITABLE", "USER_ACCESSIBLE"}
              [] PtName = "riscv" -> {"V"},
   pa |-> t]
flags(e) ==
  CASE PtName = "aarch64" -> a64_flags(e.bits)
    [] PtName = "x86_64" -> x64_flags(e.bits \ {"HUGE_PAGE"})
    [] PtName = "riscv" -> rv_flags(e.bits)
is_unused(e) == e = Unused
is_present(e) == e.bits \cap {"VALID", "PRESENT", "V"} # {}
is_huge(e) ==
  CASE PtName = "aarch64" -> "NON_BLOCK" \notin e.bits
    [] PtName = "x86_64" -> "HUGE_PAGE" \in e.bits
    [] PtName = "riscv" -> e.bits \cap {"R", "X"} # {}

-----------------------------------------------------------------------------
(* Walking down.  s has the tables, the table reached, the error and, for a *)
(* region, the pages done.                                                 *)

At(s, i) == s.mem[s.t][i]
Now == [mem |-> pt_mem, intrm |-> pt_intrm, free |-> pt_free, t |-> root_paddr, l |-> LEVELS - 1, err |-> "", n |-> 0]
Failed(s, e) == [s EXCEPT !.err = e]

next_table_mut(s, i) ==
  CASE ~is_present(At(s, i)) -> Failed(s, "NotMapped")
    [] is_present(At(s, i)) /\ is_huge(At(s, i)) -> Failed(s, "MappedToHugePage")
    [] is_present(At(s, i)) /\ ~is_huge(At(s, i)) -> [s EXCEPT !.t = At(s, i).pa, !.l = s.l - 1]

\* As if the new table were not recorded.
mut_alloc_table(s, i) ==
  IF s.free = {} THEN Failed(s, "NoMemory")
  ELSE LET n == Min(s.free) IN
       [s EXCEPT !.free = s.free \ {n}, !.t = n, !.l = s.l - 1,
                 !.mem = [t \in DOMAIN s.mem \cup {n} |->
                            IF t = n THEN [j \in Indices |-> Unused]
                            ELSE IF t = s.t THEN [s.mem[t] EXCEPT ![i] = new_table(n)] ELSE s.mem[t]]]
alloc_table(s, i) ==
  IF s.free = {} THEN Failed(s, "NoMemory")
  ELSE LET n == Min(s.free) IN
       [s EXCEPT !.free = s.free \ {n}, !.intrm = Append(s.intrm, n), !.t = n, !.l = s.l - 1,
                 !.mem = [t \in DOMAIN s.mem \cup {n} |->
                            IF t = n THEN [j \in Indices |-> Unused]
                            ELSE IF t = s.t THEN [s.mem[t] EXCEPT ![i] = new_table(n)] ELSE s.mem[t]]]
next_table_mut_or_create(s, i) == IF is_unused(At(s, i)) THEN alloc_table(s, i) ELSE next_table_mut(s, i)

\* An empty entry counts as huge on AArch64: it is returned as it is.
RECURSIVE get_entry_mut(_, _)
get_entry_mut(s, v) ==
  LET i == pn_index(v, s.l) IN
  IF s.err # "" \/ s.l = 0 \/ (s.l <= 2 /\ is_huge(At(s, i))) THEN s ELSE get_entry_mut(next_table_mut(s, i), v)

RECURSIVE get_entry_mut_or_create(_, _, _)
get_entry_mut_or_create(s, v, l) ==
  IF s.err # "" \/ s.l = l THEN s ELSE get_entry_mut_or_create(next_table_mut_or_create(s, pn_index(v, s.l)), v, l)

Put(s, v, e) == [s EXCEPT !.mem = [s.mem EXCEPT ![s.t] = [s.mem[s.t] EXCEPT ![pn_index(v, s.l)] = e]]]

-----------------------------------------------------------------------------
(* The calls.                                                              *)

\* As if a huge page were put over a table that is there.
mut_map(s, v, pa, l, f) ==
  LET d == get_entry_mut_or_create([s EXCEPT !.t = root_paddr, !.l = LEVELS - 1], v, l) IN
  IF d.err # "" THEN d ELSE Put(d, v, new_page(align_down(pa, l), f, l > 0))

map(s, v, pa, l, f) ==
  LET d == get_entry_mut_or_create([s EXCEPT !.t = root_paddr, !.l = LEVELS - 1], v, l) IN
  IF d.err # "" THEN d
  ELSE IF ~is_unused(At(d, pn_index(v, l))) THEN Failed(d, "AlreadyMapped")
  ELSE Put(d, v, new_page(align_down(pa, l), f, l > 0))

region_level(v, pa, n, huge) ==
  IF ~huge THEN 0 ELSE Max({l \in 0..2 : v % SizeOf(l) = 0 /\ pa % SizeOf(l) = 0 /\ n >= SizeOf(l)})

\* Stops at the first page that cannot be mapped; the pages before stay.
RECURSIVE map_region(_, _, _, _, _, _)
map_region(s, v, pa, n, f, huge) ==
  IF n = 0 \/ s.err # "" THEN s
  ELSE LET l == region_level(v, pa, n, huge)
           d == map(s, v, pa, l, f) IN
       IF d.err # "" THEN d ELSE map_region([d EXCEPT !.n = d.n + SizeOf(l)], v + SizeOf(l), pa + SizeOf(l), n - SizeOf(l), f, huge)

unmap(s, v) ==
  LET d == get_entry_mut([s EXCEPT !.t = root_paddr, !.l = LEVELS - 1], v) IN
  IF d.err # "" THEN d
  ELSE IF is_unused(At(d, pn_index(v, d.l))) THEN Failed(d, "NotMapped") ELSE Put(d, v, Unused)

RECURSIVE unmap_region(_, _, _)
unmap_region(s, v, n) ==
  IF n = 0 \/ s.err # "" THEN s
  ELSE LET d == unmap(s, v) IN
       IF d.err # "" THEN d ELSE unmap_region(d, v + SizeOf(d.l), n - SizeOf(d.l))

query(s, v) ==
  LET d == get_entry_mut(s, v)
      e == At(d, pn_index(v, d.l)) IN
  IF d.err # "" \/ is_unused(e) THEN {} ELSE {[pa |-> e.pa + (v % SizeOf(d.l)), f |-> flags(e), l |-> d.l]}

update(s, v, f) ==
  LET d == get_entry_mut(s, v)
      e == At(d, pn_index(v, d.l)) IN
  IF d.err # "" THEN d ELSE Put(d, v, [e EXCEPT !.bits = PageBits(f, d.l > 0)])

\* The leaves a walk from the root reports: their level and address.
RECURSIVE walk_recursive(_, _, _)
walk_recursive(t, l, start) ==
  UNION {LET e == pt_mem[t][i]
             v == start + i * SizeOf(l) IN
         IF ~is_present(e) THEN {}
         ELSE IF l > 0 /\ ~is_huge(e) THEN walk_recursive(e.pa, l - 1, v)
         ELSE {[v |-> v + o, pa |-> e.pa + o, f |-> flags(e)] : o \in 0..(SizeOf(l) - 1)} : i \in Indices}
walk == walk_recursive(root_paddr, LEVELS - 1, 0)

-----------------------------------------------------------------------------
PtCall(op) ==
  /\ op \in PtCalls /\ pt_intrm # <<>> /\ pt_calls < MaxPtCalls
  /\ pt_calls' = pt_calls + 1 /\ UNCHANGED pt_arch
Becomes(s) == pt_mem' = s.mem /\ pt_intrm' = s.intrm /\ pt_free' = s.free
FlatWithout(A) == {m \in pt_flat : m.v \notin A}
Block(v, l) == align_down(v, l)..(align_down(v, l) + SizeOf(l) - 1)

try_new ==
  /\ pt_arch = {}
  /\ \E a \in PtArchs : pt_arch' = {a}
  /\ pt_intrm' = <<Min(pt_free)>> /\ pt_free' = pt_free \ {Min(pt_free)}
  /\ pt_mem' = [t \in {Min(pt_free)} |-> [i \in Indices |-> Unused]]
  /\ UNCHANGED <<pt_flat, pt_calls>>

pt_map ==
  /\ PtCall("map")
  /\ \E v \in PtAddrs, l \in 0..2, f \in PtFlags :
       LET pa == v + 5
           d == map(Now, v, pa, l, f) IN
       /\ Becomes(d)
       /\ pt_flat' = IF d.err # "" THEN pt_flat
                     ELSE pt_flat \cup {[v |-> w, pa |-> align_down(pa, l) + (w % SizeOf(l)), f |-> f] : w \in Block(v, l)}

\* Regions begin and end with a page; the physical one is as far from a
\* boundary, or not.
pt_map_region ==
  /\ PtCall("map_region")
  /\ \E v \in PtAddrs, n \in 1..4, off \in {0, 1}, huge \in BOOLEAN, f \in PtFlags :
       LET d == map_region(Now, v, v + off, n, f, huge) IN
       /\ v + n - 1 \in VPages
       /\ Becomes(d)
       /\ pt_flat' = pt_flat \cup {[v |-> w, pa |-> w + off, f |-> f] : w \in v..(v + d.n - 1)}

pt_unmap ==
  /\ PtCall("unmap")
  /\ \E v \in PtAddrs :
       LET d == unmap(Now, v) IN
       Becomes(d) /\ pt_flat' = IF d.err # "" THEN pt_flat ELSE FlatWithout(Block(v, d.l))

\* The region was mapped before by map_region, or part of it page by page.
pt_unmap_region ==
  /\ PtCall("unmap_region")
  /\ \E v \in PtAddrs, n \in 1..4 :
       /\ v + n - 1 \in VPages
       /\ \A w \in v..(v + n - 1) : \E q \in query(Now, w) : Block(w, q.l) \subseteq v..(v + n - 1)
       /\ Becomes(unmap_region(Now, v, n)) /\ pt_flat' = FlatWithout(v..(v + n - 1))

\* Only the flags of pages that are mapped are changed: the callers look first.
pt_update ==
  /\ PtCall("update")
  /\ \E m \in pt_flat, f \in PtFlags :
       LET d == update(Now, m.v, f) IN
       /\ Becomes(d)
       /\ pt_flat' = {IF x.v \in Block(m.v, d.l) THEN [x EXCEPT !.f = f] ELSE x : x \in pt_flat}

\* Drop gives back every table.
pt_drop ==
  /\ PtCall("drop")
  /\ pt_free' = pt_free \cup ToSet(pt_intrm)
  /\ pt_mem' = [t \in {} |-> 0] /\ pt_intrm' = <<>> /\ pt_flat' = {}

PtInit ==
  /\ pt_arch = {} /\ pt_mem = [t \in {} |-> 0] /\ pt_intrm = <<>> /\ pt_free = PtFrames
  /\ pt_flat = {} /\ pt_calls = 0
PtNext == try_new \/ pt_map \/ pt_map_region \/ pt_unmap \/ pt_unmap_region \/ pt_update \/ pt_drop

-----------------------------------------------------------------------------
\* What the table says is what the calls have asked for, for every page, in a
\* query and in a walk: huge pages, tables that stay behind and failed calls
\* neither hide nor add a page.
TranslationMatches ==
  pt_intrm # <<>> =>
    /\ walk = pt_flat
    /\ \A v \in VPages : {[v |-> v, pa |-> q.pa, f |-> q.f] : q \in query(Now, v)} = {m \in pt_flat : m.v = v}

\* Every frame is free or one table of the tree: a table is reached from one
\* entry, and dropping the page table gives each back once.
TablesOnce ==
  LET refs == {<<t, i>> \in (DOMAIN pt_mem) \X Indices : pt_mem[t][i].pa \in PtFrames} IN
  /\ IsInjective(pt_intrm) /\ ToSet(pt_intrm) = DOMAIN pt_mem
  /\ pt_free \cup ToSet(pt_intrm) = PtFrames /\ pt_free \cap ToSet(pt_intrm) = {}
  /\ pt_intrm # <<>> => Cardinality(refs) = Len(pt_intrm) - 1

-----------------------------------------------------------------------------
(***************************************************************************)
(* Unmapping and changing pages on x86-64 with several CPUs: the page      *)
(* table entry, the frame, the TLB of the CPU itself, the queue of         *)
(* addresses of every other CPU (FLUSHING_ADDRESSES) and the interrupt     *)
(* that makes it look there.  The calls come from mmap and the page fault, *)
(* which hold MEM_MAP, so one thread at a time is between the entry and    *)
(* the interrupt; the CPUs it runs beside go on using their TLBs.          *)
(***************************************************************************)
CONSTANTS Cpus,        \* 1..SMP
          TlbPages, TlbFrames,
          MaxFlushes

VARIABLES tlb_pte,     \* frame and permission of each page, {} if it is not mapped
          tlb_frames,  \* the frames that are free
          tlb,         \* the translations each CPU has cached
          tlb_queue,   \* FLUSHING_ADDRESSES
          tlb_lock,    \* the holder of each queue: 0, the thread, or the CPU's handler
          tlb_ipi,     \* the CPUs with a pending interrupt
          tlb_irq,     \* where the handler of each CPU is
          flusher,     \* the thread: its CPU, what it does, and where it is
          flushes
tlb_vars == <<tlb_pte, tlb_frames, tlb, tlb_queue, tlb_lock, tlb_ipi, tlb_irq, flusher, flushes>>

NoFlusher == [op |-> "none", cpu |-> 1, pc |-> "idle", v |-> 0, f |-> 0, i |-> 0]
NoneHeld == 0
ByThread == -1

\* pte_swap_preload keeps the page table locked, with interrupts off.
IrqsOff(c) == flusher.op = "swap" /\ flusher.cpu = c
CpuRuns(c) == tlb_irq[c] = "none"
FlusherAt(pc) == flusher.pc = pc /\ CpuRuns(flusher.cpu)
FlusherGoes(pc) == flusher' = [flusher EXCEPT !.pc = pc]

\* A CPU uses a page: a translation that is not cached is fetched.
tlb_access ==
  /\ \E c \in Cpus, v \in TlbPages :
       /\ CpuRuns(c) /\ tlb_pte[v] # {} /\ ~\E e \in tlb[c] : e.v = v
       /\ tlb' = [tlb EXCEPT ![c] = @ \cup {[v |-> v, to |-> tlb_pte[v]]}]
  /\ UNCHANGED <<tlb_pte, tlb_frames, tlb_queue, tlb_lock, tlb_ipi, tlb_irq, flusher, flushes>>

\* A page fault maps the page.
do_pte_map ==
  /\ flusher.pc = "idle"
  /\ \E v \in TlbPages, f \in tlb_frames :
       /\ tlb_pte[v] = {}
       /\ tlb_pte' = [tlb_pte EXCEPT ![v] = {<<f, TRUE>>}]
       /\ tlb_frames' = tlb_frames \ {f}
  /\ UNCHANGED <<tlb, tlb_queue, tlb_lock, tlb_ipi, tlb_irq, flusher, flushes>>

FlushStarts(op, v, pc) ==
  /\ flusher.pc = "idle" /\ tlb_pte[v] # {} /\ flushes < MaxFlushes
  /\ flushes' = flushes + 1
  /\ \E c \in Cpus : CpuRuns(c) /\ flusher' = [op |-> op, cpu |-> c, pc |-> pc, v |-> v, f |-> (CHOOSE x \in tlb_pte[v] : TRUE)[1], i |-> 1]
  /\ UNCHANGED <<tlb_frames, tlb, tlb_queue, tlb_lock, tlb_ipi, tlb_irq>>

pte_unmap_page ==
  \E v \in TlbPages : FlushStarts("unmap", v, "dealloc") /\ tlb_pte' = [tlb_pte EXCEPT ![v] = {}]
pte_update_page ==
  \E v \in TlbPages, w \in BOOLEAN : FlushStarts("update", v, "local") /\ tlb_pte' = [tlb_pte EXCEPT ![v] = {<<x[1], w>> : x \in @}]
\* The frame is kept for the page that comes in.
pte_swap_preload ==
  \E v \in TlbPages : FlushStarts("swap", v, "local") /\ tlb_pte' = [tlb_pte EXCEPT ![v] = {}]

\* The frame is given back before anything is flushed.
dealloc_frame ==
  /\ FlusherAt("dealloc") /\ FlusherGoes("local")
  /\ tlb_frames' = tlb_frames \cup {flusher.f}
  /\ UNCHANGED <<tlb_pte, tlb, tlb_queue, tlb_lock, tlb_ipi, tlb_irq, flushes>>

\* flush_tlb: this CPU, then the queue of every other, then the interrupt.
flush_local ==
  /\ FlusherAt("local") /\ FlusherGoes("next")
  /\ tlb' = [tlb EXCEPT ![flusher.cpu] = {e \in @ : e.v # flusher.v}]
  /\ UNCHANGED <<tlb_pte, tlb_frames, tlb_queue, tlb_lock, tlb_ipi, tlb_irq, flushes>>

flush_next ==
  /\ FlusherAt("next") /\ flusher.i \in Cpus
  /\ \/ /\ flusher.i = flusher.cpu
        /\ flusher' = [flusher EXCEPT !.i = @ + 1]
        /\ UNCHANGED tlb_lock
     \/ /\ flusher.i # flusher.cpu /\ tlb_lock[flusher.i] = NoneHeld
        /\ tlb_lock' = [tlb_lock EXCEPT ![flusher.i] = ByThread]
        /\ FlusherGoes("push")
  /\ UNCHANGED <<tlb_pte, tlb_frames, tlb, tlb_queue, tlb_ipi, tlb_irq, flushes>>

flush_push ==
  /\ FlusherAt("push")
  /\ tlb_queue' = [tlb_queue EXCEPT ![flusher.i] = Append(@, flusher.v)]
  /\ tlb_lock' = [tlb_lock EXCEPT ![flusher.i] = NoneHeld]
  /\ flusher' = [flusher EXCEPT !.i = @ + 1, !.pc = "next"]
  /\ UNCHANGED <<tlb_pte, tlb_frames, tlb, tlb_ipi, tlb_irq, flushes>>

send_ipi_excluding_self ==
  /\ FlusherAt("next") /\ flusher.i \notin Cpus /\ flusher' = NoFlusher
  /\ tlb_ipi' = tlb_ipi \cup (Cpus \ {flusher.cpu})
  /\ UNCHANGED <<tlb_pte, tlb_frames, tlb, tlb_queue, tlb_lock, tlb_irq, flushes>>

\* The interrupt: the handler waits for the queue of its CPU and empties it.
ipi_arrives ==
  /\ \E c \in tlb_ipi :
       /\ CpuRuns(c) /\ ~IrqsOff(c)
       /\ tlb_ipi' = tlb_ipi \ {c} /\ tlb_irq' = [tlb_irq EXCEPT ![c] = "lock"]
  /\ UNCHANGED <<tlb_pte, tlb_frames, tlb, tlb_queue, tlb_lock, flusher, flushes>>

ipi_lock ==
  /\ \E c \in Cpus :
       /\ tlb_irq[c] = "lock" /\ tlb_lock[c] = NoneHeld
       /\ tlb_lock' = [tlb_lock EXCEPT ![c] = c] /\ tlb_irq' = [tlb_irq EXCEPT ![c] = "drain"]
  /\ UNCHANGED <<tlb_pte, tlb_frames, tlb, tlb_queue, tlb_ipi, flusher, flushes>>

\* As if the handler took one address for each interrupt.
mut_flush_tlb_ipi_handler ==
  /\ \E c \in Cpus :
       /\ tlb_irq[c] = "drain"
       /\ tlb_lock' = [tlb_lock EXCEPT ![c] = NoneHeld] /\ tlb_irq' = [tlb_irq EXCEPT ![c] = "none"]
       /\ IF tlb_queue[c] = <<>>
          THEN UNCHANGED <<tlb, tlb_queue>>
          ELSE /\ tlb' = [tlb EXCEPT ![c] = {e \in @ : e.v # Last(tlb_queue[c])}]
               /\ tlb_queue' = [tlb_queue EXCEPT ![c] = Front(@)]
  /\ UNCHANGED <<tlb_pte, tlb_frames, tlb_ipi, flusher, flushes>>

flush_tlb_ipi_handler ==
  /\ \E c \in Cpus :
       /\ tlb_irq[c] = "drain"
       /\ IF tlb_queue[c] = <<>>
          THEN /\ tlb_lock' = [tlb_lock EXCEPT ![c] = NoneHeld] /\ tlb_irq' = [tlb_irq EXCEPT ![c] = "none"]
               /\ UNCHANGED <<tlb, tlb_queue>>
          ELSE /\ tlb' = [tlb EXCEPT ![c] = {e \in @ : e.v # Last(tlb_queue[c])}]
               /\ tlb_queue' = [tlb_queue EXCEPT ![c] = Front(@)]
               /\ UNCHANGED <<tlb_lock, tlb_irq>>
  /\ UNCHANGED <<tlb_pte, tlb_frames, tlb_ipi, flusher, flushes>>

TlbInit ==
  /\ tlb_pte = [v \in TlbPages |-> {}] /\ tlb_frames = TlbFrames
  /\ tlb = [c \in Cpus |-> {}] /\ tlb_queue = [c \in Cpus |-> <<>>]
  /\ tlb_lock = [c \in Cpus |-> NoneHeld] /\ tlb_ipi = {} /\ tlb_irq = [c \in Cpus |-> "none"]
  /\ flusher = NoFlusher /\ flushes = 0
TlbNext ==
  \/ tlb_access \/ do_pte_map \/ pte_unmap_page \/ pte_update_page \/ pte_swap_preload
  \/ dealloc_frame \/ flush_local \/ flush_next \/ flush_push \/ send_ipi_excluding_self
  \/ ipi_arrives \/ ipi_lock \/ flush_tlb_ipi_handler

-----------------------------------------------------------------------------
\* A CPU whose TLB has a translation the page table no longer has will drop it:
\* the thread that changed the table has not come to this CPU yet, or the page
\* is in the queue of the CPU and the CPU has been, or will be, interrupted.
StaleIsQueued ==
  \A c \in Cpus : \A e \in tlb[c] :
    e.to # tlb_pte[e.v] =>
      \/ flusher.v = e.v /\ flusher.pc \in {"dealloc", "local", "next", "push"}
         /\ (IF c = flusher.cpu THEN flusher.pc \in {"dealloc", "local"} ELSE flusher.i <= c)
      \/ /\ \E k \in DOMAIN tlb_queue[c] : tlb_queue[c][k] = e.v
         /\ c \in tlb_ipi \/ tlb_irq[c] # "none" \/ flusher.pc \in {"next", "push"}
=============================================================================
