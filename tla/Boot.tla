-------------------------------- MODULE Boot --------------------------------
(***************************************************************************)
(* From power-on to main: the primary CPU initialises the kernel in        *)
(* rust_main, starts the other CPUs one after the other, each with a boot  *)
(* stack of its own, and runs main when all of them are ready; timer       *)
(* interrupts arrive wherever they are enabled.  A static that is set up   *)
(* once (LazyInit) panics when it is used before that or set up twice.     *)
(***************************************************************************)
EXTENDS Integers, FiniteSets

CONSTANTS Machines     \* the number of CPUs of each machine that may boot:
                       \* "x86_64", "aarch64", "raspi", "riscv64"

VARIABLES bt_arch,     \* "none" until the machine is chosen
          SMP,         \* its CPUs are 0 .. SMP - 1
          bt_bsp,      \* the primary CPU
          bt_pc,       \* where each CPU is
          bt_inited,   \* the statics that are set up, per CPU where they are per CPU
          bt_panic,    \* the statics used too early or set up twice
          ENTERED_CPUS, INITED_CPUS,
          bt_started,  \* CPUs the primary has been through in start_secondary_cpus
          bt_mailbox,  \* the stack in the start page or in SECONDARY_STACK_TOP
          bt_released, \* raspi: CPUs whose spin table entry is written
          bt_awake,    \* raspi: CPUs woken by sev that have not looked at it yet
          bt_stack,    \* the boot stack each CPU runs on, 0 for none
          bt_irqs,     \* CPUs with interrupts enabled
          bt_heap      \* the memory regions the allocator owns
bt_vars == <<bt_arch, SMP, bt_bsp, bt_pc, bt_inited, bt_panic, ENTERED_CPUS, INITED_CPUS,
             bt_started, bt_mailbox, bt_released, bt_awake, bt_stack, bt_irqs, bt_heap>>

BootCpus == 0 .. SMP - 1
AllCpus == UNION {0 .. Machines[a] - 1 : a \in DOMAIN Machines}
PrimaryStack == -1

BtInit ==
    /\ bt_arch = "none" /\ SMP = 1 /\ bt_bsp = 0
    /\ bt_pc = [c \in AllCpus |-> "off"]
    /\ bt_inited = {} /\ bt_panic = {}
    /\ ENTERED_CPUS = 1 /\ INITED_CPUS = 0
    /\ bt_started = {} /\ bt_mailbox = 0 /\ bt_released = {} /\ bt_awake = {}
    /\ bt_stack = [c \in AllCpus |-> 0]
    /\ bt_irqs = {} /\ bt_heap = {}

\* LazyInit: init_by asserts that it is the first, a use checks that there was one.
init_by(statics) == bt_panic \cup (statics \cap bt_inited)
check_init(statics, before) == statics \ before

\* CPU c goes from one step to the next; the step first uses, then sets up,
\* then uses what it has set up.
BootStep(c, from, to, uses, inits, then) ==
    /\ bt_pc[c] = from /\ bt_panic = {}
    /\ bt_pc' = [bt_pc EXCEPT ![c] = to]
    /\ bt_panic' = init_by(inits) \cup check_init(uses, bt_inited) \cup check_init(then, bt_inited \cup inits)
    /\ bt_inited' = bt_inited \cup inits

StartUnchanged == UNCHANGED <<bt_arch, SMP, bt_bsp, bt_started, bt_mailbox, bt_released, bt_awake, bt_stack, bt_heap>>
CountUnchanged == UNCHANGED <<ENTERED_CPUS, INITED_CPUS>>

-----------------------------------------------------------------------------
(* The primary CPU. *)

power_on ==
    /\ bt_arch = "none"
    /\ bt_arch' \in DOMAIN Machines /\ SMP' = Machines[bt_arch'] /\ bt_bsp' \in 0 .. SMP' - 1
    /\ bt_pc' = [bt_pc EXCEPT ![bt_bsp'] = "entry"]
    /\ bt_stack' = [bt_stack EXCEPT ![bt_bsp'] = PrimaryStack]
    /\ UNCHANGED <<bt_inited, bt_panic, bt_started, bt_mailbox, bt_released, bt_awake, bt_irqs, bt_heap>> /\ CountUnchanged

\* The machine's first code: the boot page table, in .data, and the MMU.
BootTable == {<<"BOOT_PT">>}
_start(c) ==
    /\ BootStep(c, "entry", "rust_entry", {}, BootTable, BootTable)
    /\ StartUnchanged /\ CountUnchanged /\ UNCHANGED bt_irqs

\* percpu::init, set_local_thread_pointer and the two per-CPU variables.
init_primary(c) == {<<"percpu">>, <<"tp", c>>}
\* This CPU's descriptor table and task state; the primary fills the IDT first.
init_percpu(c) == {<<"TSS", c>>, <<"GDT", c>>}
dtables_init_primary(c) == {<<"IDT">>} \cup init_percpu(c)

\* Only what lies outside .bss outlives clear_bss.
clear_bss == bt_inited \cap BootTable

x86_rust_entry(c) == init_primary(c) \cup dtables_init_primary(c)
qemu_rust_entry(c) == {<<"dtb::TREE">>} \cup init_primary(c)
rust_entry(c) ==
    /\ bt_pc[c] = "rust_entry"
    /\ bt_inited' = clear_bss \cup IF bt_arch = "x86_64" THEN x86_rust_entry(c) ELSE qemu_rust_entry(c)
    /\ bt_pc' = [bt_pc EXCEPT ![c] = "alloc"]
    /\ UNCHANGED <<bt_panic, bt_irqs>> /\ StartUnchanged /\ CountUnchanged

Region(name, size, free) == [name |-> name, size |-> size, free |-> free]
kernel_image_regions == {Region(n, 1, FALSE) : n \in {"text", "rodata", "data", "boot stack", "bss"}}
default_free_regions == {Region("free memory", 8, TRUE)}
default_mmio_regions == {Region("mmio", 1, FALSE)}
\* The start page of x86 and the spin table of raspi lie in regions of their own.
MailboxRegion == [x86_64 |-> "low memory", raspi |-> "spintable"]
platform_regions ==
    default_free_regions \cup default_mmio_regions
      \cup {Region(MailboxRegion[a], 1, FALSE) : a \in {bt_arch} \cap DOMAIN MailboxRegion}
memory_regions == kernel_image_regions \cup platform_regions

\* global_init gets the largest free region, global_add_memory the others.
init_allocator(c) ==
    /\ BootStep(c, "alloc", "paging", {}, {<<"heap">>}, {})
    /\ LET free == {r \in memory_regions : r.free}
           max == CHOOSE r \in free : \A q \in free : q.size <= r.size
       IN  bt_heap' = {max} \cup {r \in free : r # max}
    /\ UNCHANGED <<bt_arch, SMP, bt_bsp, bt_started, bt_mailbox, bt_released, bt_awake, bt_stack, bt_irqs>> /\ CountUnchanged

\* The primary builds the table; every CPU loads its root.
remap_kernel_memory(c, from, to) ==
    /\ BootStep(c, from, to, {<<"tp", c>>}, IF c = bt_bsp THEN {<<"KERNEL_PAGE_TABLE">>} ELSE {},
                {<<"KERNEL_PAGE_TABLE">>, <<"heap">>})
    /\ StartUnchanged /\ CountUnchanged /\ UNCHANGED bt_irqs

tty_init(c) ==
    /\ BootStep(c, "tty", "platform", {<<"heap">>}, {<<"ALL_DRIVERS">>, <<"ALL_DEVICES">>}, {})
    /\ StartUnchanged /\ CountUnchanged /\ UNCHANGED bt_irqs

\* The interrupt controllers of x86, and the serial line of aarch64.
apic_init_primary == {<<"LOCAL_APIC">>, <<"IO_APIC">>}
pl011_init == {<<"DRIVER_INDEX">>, <<"DEV_INDEX">>}
platform_init(c) ==
    /\ BootStep(c, "platform", "sched", IF bt_arch \in {"aarch64", "raspi"} THEN {<<"ALL_DRIVERS">>, <<"ALL_DEVICES">>} ELSE {},
                CASE bt_arch = "x86_64" -> apic_init_primary
                  [] bt_arch \in {"aarch64", "raspi"} -> pl011_init
                  [] OTHER -> {}, {})
    /\ StartUnchanged /\ CountUnchanged /\ UNCHANGED bt_irqs

run_queue_init(c) == {<<"IDLE_TASK", c>>, <<"RUN_QUEUE">>, <<"current", c>>}
init_scheduler(c) ==
    /\ BootStep(c, "sched", "devices", {<<"heap">>, <<"tp", c>>}, run_queue_init(c) \cup {<<"TIMER_LIST">>, <<"KEYS">>}, {})
    /\ StartUnchanged /\ CountUnchanged /\ UNCHANGED bt_irqs

\* Drivers, network and file systems; their mutexes need a current task.
init_devices(c) ==
    /\ BootStep(c, "devices", IF SMP = 1 THEN "irq" ELSE "start", {<<"heap">>, <<"current", c>>},
                {<<"ETH0">>, <<"SOCKET_SET">>, <<"ROOT_DIR">>, <<"CURRENT_DIR">>}, {})
    /\ StartUnchanged /\ CountUnchanged /\ UNCHANGED bt_irqs

-----------------------------------------------------------------------------
(* The primary starts the others in the order of their numbers. *)

NextCpu == CHOOSE i \in BootCpus \ (bt_started \cup {bt_bsp}) :
             \A j \in BootCpus \ (bt_started \cup {bt_bsp}) : i <= j
LogicId(i) == Cardinality({j \in BootCpus : j < i /\ j # bt_bsp})
BootStack(i) == LogicId(i) + 1

\* The firmware call hands the stack over, unless it fails, which is only logged.
psci_cpu_on(i, ok) ==
    /\ bt_pc' = [bt_pc EXCEPT ![i] = IF ok THEN "s_start" ELSE @, ![bt_bsp] = "entered"]
    /\ bt_stack' = [bt_stack EXCEPT ![i] = IF ok THEN BootStack(i) ELSE @]
    /\ UNCHANGED <<bt_mailbox, bt_released>>
sbi_hart_start(i, ok) ==
    /\ bt_pc' = [bt_pc EXCEPT ![i] = IF ok THEN "s_start" ELSE @, ![bt_bsp] = "entered"]
    /\ bt_stack' = [bt_stack EXCEPT ![i] = IF ok THEN BootStack(i) ELSE @]
    /\ UNCHANGED <<bt_mailbox, bt_released>>

\* x86: the stack lies in the one start page that every CPU reads.
setup_startup_page(stack_top) == bt_mailbox' = stack_top
x86_start_secondary_cpu(i) ==
    /\ setup_startup_page(BootStack(i))
    /\ bt_pc' = [bt_pc EXCEPT ![i] = "sipi", ![bt_bsp] = "entered"]
    /\ UNCHANGED <<bt_stack, bt_released>>

\* raspi: the spin table entry first, the stack in the next step.
raspi_start_secondary_cpu(i) ==
    /\ bt_released' = bt_released \cup {i}
    /\ bt_pc' = [bt_pc EXCEPT ![bt_bsp] = "stack_top"]
    /\ UNCHANGED <<bt_mailbox, bt_stack>>

start_secondary_cpu(i) ==
    \/ bt_arch = "aarch64" /\ \E ok \in BOOLEAN : psci_cpu_on(i, ok)
    \/ bt_arch = "riscv64" /\ \E ok \in BOOLEAN : sbi_hart_start(i, ok)
    \/ bt_arch = "x86_64" /\ x86_start_secondary_cpu(i)
    \/ bt_arch = "raspi" /\ raspi_start_secondary_cpu(i)

start_next(c) ==
    /\ bt_pc[c] = "start" /\ bt_panic = {}
    /\ start_secondary_cpu(NextCpu)
    /\ bt_started' = bt_started \cup {NextCpu}
    /\ UNCHANGED <<bt_arch, SMP, bt_bsp, bt_inited, bt_panic, bt_awake, bt_irqs, bt_heap>> /\ CountUnchanged

LastStarted == CHOOSE i \in bt_started : \A j \in bt_started : j <= i
\* The stack, and sev, which wakes every CPU that is not running yet.
set_stack_top(c) ==
    /\ bt_pc[c] = "stack_top"
    /\ bt_mailbox' = BootStack(LastStarted)
    /\ bt_awake' = {i \in BootCpus : bt_pc[i] = "off"}
    /\ bt_pc' = [bt_pc EXCEPT ![c] = "entered"]
    /\ UNCHANGED <<bt_arch, SMP, bt_bsp, bt_inited, bt_panic, bt_started, bt_released, bt_stack, bt_irqs, bt_heap>> /\ CountUnchanged

\* The CPU reads its stack: after the INIT-SIPI-SIPI, or when it finds its
\* spin table entry set; without one it sleeps again.
secondary_wakes(i) ==
    /\ bt_pc[i] = "sipi" \/ i \in bt_awake
    /\ LET starts == bt_pc[i] = "sipi" \/ i \in bt_released IN
         /\ bt_pc' = [bt_pc EXCEPT ![i] = IF starts THEN "s_start" ELSE @]
         /\ bt_stack' = [bt_stack EXCEPT ![i] = IF starts THEN bt_mailbox ELSE @]
    /\ bt_awake' = bt_awake \ {i}
    /\ UNCHANGED <<bt_arch, SMP, bt_bsp, bt_inited, bt_panic, bt_started, bt_mailbox, bt_released, bt_irqs, bt_heap>>
    /\ CountUnchanged

\* A primary that does not wait for the CPU it has started.
mut_wait_entered(c) ==
    /\ bt_pc[c] = "entered"
    /\ bt_pc' = [bt_pc EXCEPT ![c] = IF Cardinality(bt_started) = SMP - 1 THEN "irq" ELSE "start"]
    /\ UNCHANGED <<bt_inited, bt_panic, bt_irqs>> /\ StartUnchanged /\ CountUnchanged

wait_entered(c) ==
    /\ bt_pc[c] = "entered" /\ ENTERED_CPUS > Cardinality(bt_started)
    /\ bt_pc' = [bt_pc EXCEPT ![c] = IF Cardinality(bt_started) = SMP - 1 THEN "irq" ELSE "start"]
    /\ UNCHANGED <<bt_inited, bt_panic, bt_irqs>> /\ StartUnchanged /\ CountUnchanged

\* The timer handler is registered and interrupts are on before main.
TimerHandler == <<"TIMER_HANDLER">>
init_interrupt(c) ==
    /\ BootStep(c, "irq", "inited", {}, {TimerHandler}, {})
    /\ bt_irqs' = bt_irqs \cup {c}
    /\ StartUnchanged /\ CountUnchanged

is_init_ok == INITED_CPUS = SMP
primary_inited(c) ==
    /\ BootStep(c, "inited", "wait", {}, {}, {})
    /\ INITED_CPUS' = INITED_CPUS + 1
    /\ StartUnchanged /\ UNCHANGED <<ENTERED_CPUS, bt_irqs>>

\* The command line comes from the device tree, except on x86.
rust_main_app(c) ==
    /\ is_init_ok
    /\ BootStep(c, "wait", "main", {<<"heap">>} \cup IF bt_arch = "x86_64" THEN {} ELSE {<<"dtb::TREE">>}, {}, {})
    /\ StartUnchanged /\ CountUnchanged /\ UNCHANGED bt_irqs

-----------------------------------------------------------------------------
(* The other CPUs. *)

_start_secondary(c) ==
    /\ BootStep(c, "s_start", "secondary", BootTable, {}, {})
    /\ StartUnchanged /\ CountUnchanged /\ UNCHANGED bt_irqs

init_secondary(c) == {<<"tp", c>>}
rust_entry_secondary(c) ==
    /\ BootStep(c, "secondary", "enter", {<<"percpu">>} \cup IF bt_arch = "x86_64" THEN {<<"IDT">>} ELSE {},
                init_secondary(c) \cup IF bt_arch = "x86_64" THEN init_percpu(c) ELSE {}, {})
    /\ StartUnchanged /\ CountUnchanged /\ UNCHANGED bt_irqs

secondary_entered(c) ==
    /\ BootStep(c, "enter", "s_paging", {}, {}, {})
    /\ ENTERED_CPUS' = ENTERED_CPUS + 1
    /\ StartUnchanged /\ UNCHANGED <<INITED_CPUS, bt_irqs>>

platform_init_secondary(c) ==
    /\ BootStep(c, "s_platform", "s_sched", IF bt_arch = "x86_64" THEN {<<"LOCAL_APIC">>} ELSE {}, {}, {})
    /\ StartUnchanged /\ CountUnchanged /\ UNCHANGED bt_irqs

init_scheduler_secondary(c) ==
    /\ BootStep(c, "s_sched", "s_inited", {<<"heap">>, <<"tp", c>>}, {<<"IDLE_TASK", c>>, <<"current", c>>}, {})
    /\ StartUnchanged /\ CountUnchanged /\ UNCHANGED bt_irqs

secondary_inited(c) ==
    /\ BootStep(c, "s_inited", "s_wait", {}, {}, {})
    /\ INITED_CPUS' = INITED_CPUS + 1
    /\ StartUnchanged /\ UNCHANGED <<ENTERED_CPUS, bt_irqs>>

secondary_idle(c) ==
    /\ is_init_ok
    /\ BootStep(c, "s_wait", "idle", {<<"RUN_QUEUE">>}, {}, {})
    /\ bt_irqs' = bt_irqs \cup {c}
    /\ StartUnchanged /\ CountUnchanged

\* riscv calls its LazyInit handler; elsewhere an interrupt nobody has
\* registered for is only reported.  The handler is on_timer_tick.
on_timer_tick(c) == {<<"TIMER_LIST">>, <<"RUN_QUEUE">>, <<"current", c>>, <<"IDLE_TASK", c>>}
timer_irq(c) ==
    /\ c \in bt_irqs /\ bt_panic = {}
    /\ bt_panic' = IF TimerHandler \in bt_inited THEN check_init(on_timer_tick(c), bt_inited)
                   ELSE IF bt_arch = "riscv64" THEN {TimerHandler} ELSE {}
    /\ UNCHANGED <<bt_pc, bt_inited, bt_irqs>> /\ StartUnchanged /\ CountUnchanged

BtNext ==
    \/ power_on
    \/ \E c \in BootCpus :
         \/ _start(c) \/ rust_entry(c) \/ init_allocator(c) \/ remap_kernel_memory(c, "paging", "tty")
         \/ tty_init(c) \/ platform_init(c) \/ init_scheduler(c) \/ init_devices(c)
         \/ start_next(c) \/ set_stack_top(c) \/ wait_entered(c)
         \/ init_interrupt(c) \/ primary_inited(c) \/ rust_main_app(c)
         \/ secondary_wakes(c) \/ _start_secondary(c) \/ rust_entry_secondary(c) \/ secondary_entered(c)
         \/ remap_kernel_memory(c, "s_paging", "s_platform") \/ platform_init_secondary(c)
         \/ init_scheduler_secondary(c) \/ secondary_inited(c) \/ secondary_idle(c)
         \/ timer_irq(c)

-----------------------------------------------------------------------------
(* No CPU and no interrupt uses a static before it is set up, and none is   *)
(* set up twice (LazyInit would panic); no two CPUs run on the same boot    *)
(* stack; the heap gets no reserved memory; and main runs only when every   *)
(* CPU can run tasks.  These are the handshakes of rust_main,               *)
(* start_secondary_cpus and rust_main_secondary.                            *)
BootSafe ==
    /\ bt_panic = {}
    /\ \A c, d \in BootCpus : c # d /\ bt_stack[c] # 0 => bt_stack[c] # bt_stack[d]
    /\ \A r \in bt_heap : r.free
    /\ bt_pc[bt_bsp] = "main" => \A c \in BootCpus : <<"current", c>> \in bt_inited

(* Every secondary CPU runs on the stack that start_secondary_cpu was given *)
(* for it ("Starts the given secondary CPU with its boot stack").           *)
OwnBootStack == \A c \in BootCpus \ {bt_bsp} : bt_stack[c] \in {0, BootStack(c)}
=============================================================================
