------------------------------ MODULE Context -------------------------------
(***************************************************************************)
(* The registers of a thread, on x86_64, aarch64 and riscv64: saved and     *)
(* restored when a CPU turns to another thread (TaskContext), when it takes *)
(* an interrupt or a fault (TrapFrame), and by setjmp and longjmp; and the  *)
(* memory for thread-local variables that the thread pointer leads to.      *)
(*                                                                         *)
(* The value of a register is <<whose, which, name>>, so that no two        *)
(* registers and no two threads are mistaken for each other. A frame says   *)
(* which register is in which word of the memory that it is written to. A   *)
(* stack is a function on the words below its top, the word 0.              *)
(***************************************************************************)
EXTENDS Integers, Sequences, FiniteSets, TLC

CONSTANTS
  CtxBuilds,       \* architecture, the features fp_simd and tls, and the size of .tdata and .tbss
  CtxThreads,      \* the threads, with the one that is there at boot
  CtxMain,
  JmpValues,       \* the values given to longjmp
  CtxSteps         \* bound on the steps

VARIABLES
  ctx_build,       \* the build that runs
  ctx_on,          \* the running thread
  cpu,             \* the registers
  ctx,             \* the TaskContext of a thread
  stack,           \* its stack
  tls,             \* its area for thread-local variables
  jmp,             \* its jmp_buf, with the registers setjmp was called with
  traps,           \* the trap it is in: its kind, and the registers it came with
  left,            \* the registers it was switched out with
  phase,           \* two values for what a thread computes
  found,           \* what the last step has to have given back, and the registers it was
  ctx_steps

ctx_vars == <<ctx_build, ctx_on, cpu, ctx, stack, tls, jmp, traps, left, phase, found, ctx_steps>>

Nums(p, from, to) == [i \in 1 .. (to - from + 1) |-> p \o ToString(from + i - 1)]
SetOf(s) == {s[i] : i \in DOMAIN s}

\* The registers of each architecture, and the ones its calling convention has a
\* function give back.
General ==
  [x86_64  |-> <<"rax", "rcx", "rdx", "rbx", "rbp", "rsi", "rdi">> \o Nums("r", 8, 15),
   aarch64 |-> Nums("x", 0, 30),
   riscv64 |-> <<"ra">> \o Nums("t", 0, 6) \o Nums("s", 0, 11) \o Nums("a", 0, 7)]
Float == [x86_64 |-> {"fx"}, aarch64 |-> SetOf(Nums("q", 0, 31)) \cup {"fpcr", "fpsr"}, riscv64 |-> SetOf(Nums("fs", 0, 11))]
Special == {"sp", "pc", "flags", "tp", "task"}
CpuRegisters(a) == SetOf(General[a]) \cup Float[a] \cup Special
CalleeSaved ==
  [x86_64 |-> {"rbx", "rbp"} \cup SetOf(Nums("r", 12, 15)), aarch64 |-> SetOf(Nums("x", 19, 29)), riscv64 |-> SetOf(Nums("s", 0, 11))]
LowSaved == [x86_64 |-> {}, aarch64 |-> SetOf(Nums("q", 8, 15)), riscv64 |-> {}]
Link == [aarch64 |-> "x30", riscv64 |-> "ra"]
Result == [x86_64 |-> "rax", aarch64 |-> "x0", riscv64 |-> "a0"]

Zero == <<"none", 0, "zero">>
CInt(v) == <<"int", v, "int">>
Low(v) == <<v[1], v[2], v[3], "low">>
Sp(t, n) == <<t, n, "sp">>
Task(t) == <<t, 0, "task">>
Computed(t, p) == [r \in CpuRegisters(ctx_build.arch) \ {"sp", "tp", "task"} |-> <<t, p, r>>]

\* A frame, as pushes, pops, or stores in the order of the words, makes.
Pushes(s) == [w \in 0 .. Len(s) - 1 |-> s[Len(s) - w]]
Pops(s) == [w \in 0 .. Len(s) - 1 |-> s[w + 1]]

Save(frame, file) == [w \in DOMAIN frame |-> file[frame[w]]]
Load(frame, words, file) ==
  [r \in DOMAIN file |-> IF \E w \in DOMAIN frame : frame[w] = r THEN words[CHOOSE w \in DOMAIN frame : frame[w] = r] ELSE file[r]]
Written(mem, n, words) == [a \in {n + w : w \in DOMAIN words} |-> words[a - n]] @@ mem
WordsAt(mem, n, frame) == [w \in DOMAIN frame |-> mem[n + w]]
\* What is below the stack pointer is gone.
Above(mem, n) == [a \in {b \in DOMAIN mem : b >= n} |-> mem[a]]

\* A memory area of the thread, static_tls_size bytes of it a copy of the sections.
TLS_ALIGN == 8
TCB_SIZE == [x86_64 |-> 8, aarch64 |-> 0, riscv64 |-> 0]
GAP_ABOVE_TP == [x86_64 |-> 0, aarch64 |-> 16, riscv64 |-> 0]
static_tls_size(b) == ((b.size + TLS_ALIGN - 1) \div TLS_ALIGN) * TLS_ALIGN
static_tls_offset(b) == IF b.arch = "x86_64" THEN 0 ELSE TCB_SIZE[b.arch] + GAP_ABOVE_TP[b.arch]
tp_offset(b) == IF b.arch = "x86_64" THEN static_tls_size(b) ELSE TCB_SIZE[b.arch]
tls_area_size(b) == TCB_SIZE[b.arch] + GAP_ABOVE_TP[b.arch] + static_tls_size(b)

tls_alloc(b) ==
  LET zeroed == [i \in 0 .. tls_area_size(b) - 1 |-> <<"zero", 0>>]
      loaded == Written(zeroed, static_tls_offset(b), [i \in 0 .. b.size - 1 |-> <<"data", i>>])
  IN IF b.arch = "x86_64" THEN Written(loaded, tp_offset(b), [i \in 0 .. 7 |-> <<"self", i>>]) ELSE loaded
TlsPtr(t) == <<t, tp_offset(ctx_build), "tls">>

\* TaskContext: what context_switch stores and what it loads. x86_64 has the words on
\* the stack, with the address it returns to above them.
X86Pushes == Pushes(<<"pc", "rbp", "rbx", "r12", "r13", "r14", "r15">>)
X86Pops == Pops(<<"r15", "r14", "r13", "r12", "rbx", "rbp", "pc">>)
AarchStores == Pops(<<"sp", "tp">> \o Nums("x", 19, 30))
\* Mutant: the thread pointer and the stack pointer are loaded the wrong way round.
mut_AarchLoads == Pops(<<"tp", "sp">> \o Nums("x", 19, 30))
AarchLoads == Pops(<<"sp", "tp">> \o Nums("x", 19, 30))
RiscvStores == Pops(<<"ra", "sp">> \o Nums("s", 0, 11))
RiscvLoads == Pops(<<"ra", "sp">> \o Nums("s", 0, 11))
FpSlots == Pops(Nums("q", 0, 31) \o <<"fpcr", "fpsr">>)

\* TaskContext::new, then init: the first words a new thread is loaded with.
new_context(a) ==
  [words |-> IF a = "x86_64" THEN <<>> ELSE [w \in 0 .. 13 |-> Zero], sp |-> Zero, tp |-> Zero,
   ext |-> CASE a = "x86_64" -> 0 :> <<"none", 0, "default">>
             [] a = "aarch64" -> [w \in DOMAIN FpSlots |-> Zero]
             [] OTHER -> <<>>]
Entry(t) == <<t, 0, "entry">>
init_x86(t, tp) == [new_context("x86_64") EXCEPT !.sp = Sp(t, -8), !.tp = tp]
init_x86_stack(t) == Written(<<>>, -8, [w \in 0 .. 6 |-> IF X86Pops[w] = "pc" THEN Entry(t) ELSE Zero])
init_aarch(t, tp) == [new_context("aarch64") EXCEPT !.words[0] = Sp(t, 0), !.words[1] = tp, !.words[13] = Entry(t)]
init_riscv(t, tp) == [new_context("riscv64") EXCEPT !.words[1] = Sp(t, 0), !.words[0] = Entry(t), !.tp = tp]

\* switch_to of x86_64: FXSAVE and FXRSTOR, the thread pointer, and the stacks.
switch_x86(t, u, file) ==
  LET b == ctx_build
      n == file["sp"][2] - 7
      m == ctx[u].sp[2]
      pushed == Written(stack[t], n, Save(X86Pushes, file))
      popped == Load(X86Pops, WordsAt(stack[u], m, X86Pops), file)
  IN [ctx |-> [ctx[t] EXCEPT !.sp = Sp(t, n), !.tp = IF b.tls THEN file["tp"] ELSE @, !.ext = IF b.fp THEN 0 :> file["fx"] ELSE @],
      stack |-> pushed,
      file |-> [popped EXCEPT !["sp"] = Sp(u, m + 7), !["tp"] = IF b.tls THEN ctx[u].tp ELSE @, !["fx"] = IF b.fp THEN ctx[u].ext[0] ELSE @]]

\* Of aarch64: fpstate_switch, then context_switch, which returns to what it loads as x30.
switch_aarch(t, u, file) ==
  LET b == ctx_build
      called == [file EXCEPT !["x30"] = file["pc"]]
      loaded == Load(AarchLoads, ctx[u].words, IF b.fp THEN Load(FpSlots, ctx[u].ext, called) ELSE called)
  IN [ctx |-> [ctx[t] EXCEPT !.words = Save(AarchStores, called), !.ext = IF b.fp THEN Save(FpSlots, file) ELSE @],
      stack |-> stack[t],
      file |-> [loaded EXCEPT !["pc"] = loaded["x30"]]]

\* Of riscv64, where the registers for floating point stay as they are.
switch_riscv(t, u, file) ==
  LET b == ctx_build
      called == [file EXCEPT !["ra"] = file["pc"]]
      loaded == Load(RiscvLoads, ctx[u].words, called)
  IN [ctx |-> [ctx[t] EXCEPT !.words = Save(RiscvStores, called), !.tp = IF b.tls THEN file["tp"] ELSE @],
      stack |-> stack[t],
      file |-> [loaded EXCEPT !["pc"] = loaded["ra"], !["tp"] = IF b.tls THEN ctx[u].tp ELSE @]]

\* TrapFrame. The CPU of x86_64 aligns the stack and pushes pc, flags and sp with the
\* words that do not matter here; aarch64 keeps the current task in SP_EL0, and saves
\* registers for floating point when the trap is a fault; riscv64 keeps the stack
\* pointer of the thread in sscratch until it is stored.
X86TrapStores ==
  Pushes(<<"r15", "r14", "r13", "r12", "r11", "r10", "r9", "r8", "rdi", "rsi", "rbp", "rbx", "rdx", "rcx", "rax">>)
  @@ (17 :> "pc" @@ 19 :> "flags" @@ 20 :> "sp")
X86TrapLoads == Pops(General.x86_64) @@ (17 :> "pc" @@ 19 :> "flags" @@ 20 :> "sp")
AarchTrap == Pops(Nums("x", 0, 30) \o <<"task", "pc", "flags">>)
RiscvTrap ==
  LET s == <<"ra", "sp", "gp", "tp">> \o Nums("t", 0, 2) \o Nums("s", 0, 1) \o Nums("a", 0, 7) \o Nums("s", 2, 11)
             \o Nums("t", 3, 6) \o <<"pc", "flags">>
  IN [w \in 0 .. 32 \ {2, 3} |-> s[w + 1]]
NeonSlots ==
  LET q == Nums("q", 0, 7) \o Nums("q", 16, 31)
  IN [w \in {2 * i : i \in 0 .. 23} |-> q[w \div 2 + 1]] @@ (48 :> "fpcr" @@ 49 :> "fpsr")

\* jmp_buf: the words setjmp writes and longjmp reads.
JmpSlots(b) ==
  CASE b.arch = "x86_64" -> Pops(<<"rbx", "rbp", "r12", "r13", "r14", "r15", "sp", "pc">>)
    [] b.arch = "aarch64" -> Pops(Nums("x", 19, 30)) @@ (13 :> "sp")
    [] b.arch = "riscv64" -> Pops(Nums("s", 0, 11) \o <<"sp", "ra">> \o (IF b.fp THEN Nums("fs", 0, 11) ELSE <<>>))
JmpLow(b) == IF b.fp THEN LowSaved[b.arch] ELSE {}

\* What a step gives back: the registers that have to be those of file, and the ones
\* whose lower half has to.
Back(must, low, file) == [must |-> must, low |-> low, regs |-> file]
NoneBack == Back({}, {}, <<>>)
NoTrap == [kind |-> "none", regs |-> <<>>]
NoJmp == [buf |-> <<>>, low |-> <<>>, regs |-> <<>>]
SwitchesTp(b) == b.tls \/ b.arch = "aarch64"
SwitchesFp(b) == b.fp /\ b.arch # "riscv64"

\* The stack of a thread that calls nothing, and in one more call.
Base(a) == IF a = "x86_64" THEN -1 ELSE 0
Depth1(a) == IF a = "x86_64" THEN 1 ELSE 2

CtxInit ==
  /\ ctx_build = [arch |-> "none", fp |-> FALSE, tls |-> FALSE, size |-> 0]
  /\ ctx_on = CtxMain
  /\ cpu = <<>>
  /\ ctx = [t \in CtxThreads |-> <<>>] /\ stack = [t \in CtxThreads |-> <<>>] /\ tls = [t \in CtxThreads |-> <<>>]
  /\ jmp = [t \in CtxThreads |-> NoJmp] /\ traps = [t \in CtxThreads |-> NoTrap]
  /\ left = [t \in CtxThreads |-> NoneBack]
  /\ phase = [t \in CtxThreads |-> 0]
  /\ found = NoneBack
  /\ ctx_steps = 0

\* new_init and init_current: the code that boots is a thread from here on.
init_current(b) ==
  /\ ctx_build.arch = "none"
  /\ ctx_build' = b
  /\ ctx' = [ctx EXCEPT ![CtxMain] = new_context(b.arch)]
  /\ tls' = [tls EXCEPT ![CtxMain] = IF b.tls THEN tls_alloc(b) ELSE <<>>]
  /\ cpu' = [r \in CpuRegisters(b.arch) |->
               CASE r = "sp" -> Sp(CtxMain, Base(b.arch))
                 [] r = "tp" -> IF b.tls THEN <<CtxMain, tp_offset(b), "tls">> ELSE Zero
                 [] r = "task" -> Task(CtxMain)
                 [] OTHER -> <<CtxMain, 0, r>>]
  /\ UNCHANGED <<ctx_on, stack, jmp, traps, left, phase, found>>

\* TaskInner::new.
new(t) ==
  LET b == ctx_build
      tp == IF b.tls THEN TlsPtr(t) ELSE Zero
      first == [r \in {"sp", "pc", "tp", "task"} |->
                  CASE r = "sp" -> Sp(t, Base(b.arch)) [] r = "pc" -> Entry(t) [] r = "tp" -> tp [] OTHER -> Task(t)]
  IN /\ b.arch # "none" /\ ctx[t] = <<>> /\ traps[ctx_on].kind = "none"
     /\ ctx' = [ctx EXCEPT ![t] = CASE b.arch = "x86_64" -> init_x86(t, tp)
                                    [] b.arch = "aarch64" -> init_aarch(t, tp)
                                    [] b.arch = "riscv64" -> init_riscv(t, tp)]
     /\ stack' = IF b.arch = "x86_64" THEN [stack EXCEPT ![t] = init_x86_stack(t)] ELSE stack
     /\ tls' = [tls EXCEPT ![t] = IF b.tls THEN tls_alloc(b) ELSE <<>>]
     /\ left' = [left EXCEPT ![t] = Back({"sp", "pc", "task"} \cup (IF SwitchesTp(b) THEN {"tp"} ELSE {}), {}, first)]
     /\ found' = NoneBack
     /\ UNCHANGED <<ctx_build, ctx_on, cpu, jmp, traps, phase>>

\* switch_to of the run queue: the current task, then its TaskContext.
ctx_switch_to(u) ==
  LET b == ctx_build
      t == ctx_on
      file == [cpu EXCEPT !["task"] = Task(u)]
      s == CASE b.arch = "x86_64" -> switch_x86(t, u, file)
             [] b.arch = "aarch64" -> switch_aarch(t, u, file)
             [] b.arch = "riscv64" -> switch_riscv(t, u, file)
      kept == CalleeSaved[b.arch] \cup {"sp", "pc", "task"} \cup (IF SwitchesTp(b) THEN {"tp"} ELSE {})
              \cup (IF SwitchesFp(b) THEN Float[b.arch] ELSE {})
  IN /\ b.arch # "none" /\ u # t /\ ctx[u] # <<>> /\ traps[t].kind # "fault"
     /\ ctx_on' = u
     /\ cpu' = s.file
     /\ ctx' = [ctx EXCEPT ![t] = s.ctx]
     /\ stack' = [stack EXCEPT ![t] = s.stack, ![u] = Above(@, s.file["sp"][2])]
     /\ left' = [left EXCEPT ![t] = Back(kept, {}, cpu), ![u] = NoneBack]
     /\ found' = left[u]
     /\ UNCHANGED <<ctx_build, tls, jmp, traps, phase>>

\* The thread computes: every register has another value, and it is in one more call
\* or in none. A jmp_buf of a function that has returned is not used any more.
compute(deeper) ==
  LET a == ctx_build.arch
      t == ctx_on
      n == Base(a) - (IF deeper THEN Depth1(a) ELSE 0)
  IN /\ a # "none" /\ traps[t].kind = "none"
     /\ phase' = [phase EXCEPT ![t] = 1 - @]
     /\ cpu' = [Computed(t, 1 - phase[t]) @@ cpu EXCEPT !["sp"] = Sp(t, n)]
     /\ jmp' = [jmp EXCEPT ![t] = IF @ # NoJmp /\ @.regs["sp"][2] < n THEN NoJmp ELSE @]
     /\ found' = NoneBack
     /\ UNCHANGED <<ctx_build, ctx_on, ctx, stack, tls, traps, left>>

\* An interrupt or a fault up to the call of the handler, which has registers of its
\* own; the ones for floating point only where the kernel is built with them.
trap(kind, float) ==
  LET b == ctx_build
      t == ctx_on
      n == cpu["sp"][2]
      neon == b.arch = "aarch64" /\ kind = "fault"
      base == CASE b.arch = "x86_64" -> n - (n % 2) - 22
                [] b.arch = "aarch64" -> n - 34
                [] b.arch = "riscv64" -> n - 33
      frame == CASE b.arch = "x86_64" -> X86TrapStores
                 [] b.arch = "aarch64" -> AarchTrap
                 [] b.arch = "riscv64" -> RiscvTrap
      framed == Written(stack[t], base, Save(frame, cpu))
      sp == IF neon THEN base - 50 ELSE base
      used == CpuRegisters(b.arch) \ ({"sp", "tp", "task"} \cup (IF float THEN {} ELSE Float[b.arch]))
  IN /\ b.arch # "none" /\ traps[t].kind = "none" /\ (float => b.fp)
     /\ stack' = [stack EXCEPT ![t] = IF neon THEN Written(framed, sp, Save(NeonSlots, cpu)) ELSE framed]
     /\ cpu' = [[r \in used |-> <<t, 2, r>>] @@ cpu EXCEPT !["sp"] = Sp(t, sp)]
     /\ traps' = [traps EXCEPT ![t] = [kind |-> kind, regs |-> cpu]]
     /\ found' = NoneBack
     /\ UNCHANGED <<ctx_build, ctx_on, ctx, tls, jmp, left, phase>>

\* The handler returns, with the registers it has to give back, and then the trap does.
\* Interrupts give back no register for floating point, nor do faults but on aarch64.
trap_return ==
  LET b == ctx_build
      t == ctx_on
      n == cpu["sp"][2]
      was == traps[t].regs
      neon == b.arch = "aarch64" /\ traps[t].kind = "fault"
      handled == [r \in DOMAIN cpu |-> CASE r \in CalleeSaved[b.arch] -> was[r]
                                         [] r \in LowSaved[b.arch] /\ cpu[r] # was[r] -> Low(was[r])
                                         [] OTHER -> cpu[r]]
      floats == IF neon THEN Load(NeonSlots, WordsAt(stack[t], n, NeonSlots), handled) ELSE handled
      base == IF neon THEN n + 50 ELSE n
      file == CASE b.arch = "x86_64" -> Load(X86TrapLoads, WordsAt(stack[t], base, X86TrapLoads), floats)
                [] b.arch = "aarch64" -> [Load(AarchTrap, WordsAt(stack[t], base, AarchTrap), floats) EXCEPT !["sp"] = Sp(t, base + 34)]
                [] b.arch = "riscv64" -> Load(RiscvTrap, WordsAt(stack[t], base, RiscvTrap), floats)
      kept == SetOf(General[b.arch]) \cup {"sp", "pc", "flags", "task"} \cup (IF SwitchesTp(b) THEN {"tp"} ELSE {})
  IN /\ b.arch # "none" /\ traps[t].kind # "none"
     /\ cpu' = file
     /\ stack' = [stack EXCEPT ![t] = Above(@, file["sp"][2])]
     /\ traps' = [traps EXCEPT ![t] = NoTrap]
     /\ found' = IF neon THEN Back(kept \cup (Float.aarch64 \ LowSaved.aarch64), LowSaved.aarch64, was) ELSE Back(kept, {}, was)
     /\ UNCHANGED <<ctx_build, ctx_on, ctx, tls, jmp, left, phase>>

setjmp ==
  LET b == ctx_build
      t == ctx_on
      called == IF b.arch = "x86_64" THEN cpu ELSE [cpu EXCEPT ![Link[b.arch]] = cpu["pc"]]
      file == [called EXCEPT ![Result[b.arch]] = CInt(0)]
  IN /\ b.arch # "none" /\ traps[t].kind = "none"
     /\ jmp' = [jmp EXCEPT ![t] = [buf |-> Save(JmpSlots(b), called), low |-> [r \in JmpLow(b) |-> Low(cpu[r])], regs |-> cpu]]
     /\ cpu' = file
     /\ found' = NoneBack
     /\ UNCHANGED <<ctx_build, ctx_on, ctx, stack, tls, traps, left, phase>>

\* longjmp returns from setjmp, with v or, for 0, with 1.
longjmp(v) ==
  LET b == ctx_build
      t == ctx_on
      read == Load(JmpSlots(b), jmp[t].buf, cpu)
      loaded == jmp[t].low @@ read
      value == CInt(IF v = 0 THEN 1 ELSE v)
  IN /\ b.arch # "none" /\ traps[t].kind = "none" /\ jmp[t] # NoJmp
     /\ cpu' = [loaded EXCEPT ![Result[b.arch]] = value, !["pc"] = IF b.arch = "x86_64" THEN @ ELSE loaded[Link[b.arch]]]
     /\ found' = Back(CalleeSaved[b.arch] \cup {"sp", "pc", "tp", "task", Result[b.arch]}
                      \cup (IF b.fp /\ b.arch = "riscv64" THEN Float.riscv64 ELSE {}),
                      JmpLow(b), [jmp[t].regs EXCEPT ![Result[b.arch]] = value])
     /\ UNCHANGED <<ctx_build, ctx_on, ctx, stack, tls, jmp, traps, left, phase>>

CtxNext ==
  /\ ctx_steps < CtxSteps /\ ctx_steps' = ctx_steps + 1
  /\ \/ \E b \in CtxBuilds : init_current(b)
     \/ \E t \in CtxThreads : new(t)
     \/ \E t \in CtxThreads : ctx_switch_to(t)
     \/ \E deeper \in BOOLEAN : compute(deeper)
     \/ \E kind \in {"irq", "fault"}, float \in BOOLEAN : trap(kind, float)
     \/ trap_return
     \/ setjmp
     \/ \E v \in JmpValues : longjmp(v)

\* A thread that a CPU comes back to finds the registers it left: those a function
\* gives back and the thread pointer after a switch, all but those for floating point
\* after an interrupt, and what setjmp was called with after a longjmp, whatever the
\* other threads and their traps did on the CPU meanwhile; the current task is the
\* thread that runs. The thread pointer leads to a copy of the thread-local variables,
\* where the code that is linked for the architecture looks for them.
ContextKept ==
  LET b == ctx_build
  IN /\ \A r \in found.must : cpu[r] = found.regs[r]
     /\ \A r \in found.low : Low(cpu[r]) = Low(found.regs[r])
     /\ cpu # <<>> => cpu["task"] = Task(ctx_on)
     /\ \A t \in CtxThreads : tls[t] # <<>> =>
          LET first == tp_offset(b) + (IF b.arch = "x86_64" THEN -static_tls_size(b) ELSE GAP_ABOVE_TP[b.arch])
          IN /\ \A i \in 0 .. b.size - 1 : tls[t][first + i] = <<"data", i>>
             /\ b.arch = "x86_64" => \A i \in 0 .. 7 : tls[t][tp_offset(b) + i] = <<"self", i>>

=============================================================================
