------------------------------ MODULE MCParts ------------------------------
(***************************************************************************)
(* The parts of the system that keep to themselves, one in each behaviour: *)
(* part says which, and the variables of the others never change.          *)
(***************************************************************************)
EXTENDS PageTable, Alloc, Tty, LinkedList, Boot, Signals, Rtc, NinePWire, Lwip, NetDriver, Disk, Cfs, Select, Stdio, Printf, CString, Spinlock, Abi, Context

CONSTANT Parts
VARIABLE part

X64 == [name |-> "x86_64", LEVELS |-> 4]
A64 == [name |-> "aarch64", LEVELS |-> 4]
Rv == [name |-> "riscv", LEVELS |-> 3]
MCPtArchs == {X64, A64, Rv}
MCPtFlags == {{"READ"}, {"READ", "WRITE", "USER"}}

MCLayouts == {<<1, 1>>, <<1, 2>>, <<3, 1>>, <<6, 2>>}
MCPages == {<<1, 4>>, <<2, 4>>, <<1, 2>>}

Keys == {<<"a">>, <<"b">>, <<"CR">>, <<"BS">>, <<"ESC", "[", "D">>, <<"ESC">>, <<"[", "C">>, <<"ESC", "a", "b">>}
MCTtyModes ==
  {[tty |-> TRUE, smp |-> FALSE, inputs |-> Keys, irqs |-> 4, reads |-> 0],
   [tty |-> TRUE, smp |-> FALSE, inputs |-> {<<"a">>, <<"b", "CR">>, <<"CR">>}, irqs |-> 3, reads |-> 2],
   [tty |-> FALSE, smp |-> TRUE, inputs |-> {<<"a">>, <<"b", "CR">>}, irqs |-> 3, reads |-> 2]}

\* Three CPUs, and two where the code does not keep three apart.
MCMachines == [x86_64 |-> 3, aarch64 |-> 3, riscv64 |-> 3, raspi |-> 2]

\* The end of a year, of a February, of a leap day, of a month and of a minute.
Fields(y, mo, d, h, mi, s) == [sec |-> s, min |-> mi, hour |-> h, day |-> d, month |-> mo, year |-> y]
MCRtcStarts == <<Fields(23, 12, 31, 23, 59, 58), Fields(24, 2, 28, 23, 59, 58), Fields(24, 2, 29, 23, 59, 59),
                 Fields(31, 8, 31, 9, 59, 59), Fields(0, 3, 1, 19, 0, 58)>>

\* Strings and names of the messages of 9P: empty, short, and longer than a byte counts.
MCWireStrs == {<<>>, <<97>>, [i \in 1 .. 260 |-> 97]}
MCWireNames == {<<>>, <<<<97>>>>, <<<<97>>, <<>>, <<98, 99>>>>}

\* One thread works with the TCP sockets, the other with UDP and the names.
MCLwUses == [t1 |-> {"s1", "s2", "s3"}, t2 |-> {"u1", "dns"}]
MCLwPeers == {<<10, 0, 2, 2>>}

MCDkPaths == {<<>>, <<"a">>, <<".", ".", "b">>}

\* A thread of much, and one of little weight.
MCNices == {7, -6}

\* What select is asked about: descriptors in the first and in the second word.
Three(r, w, x) == [read |-> r, write |-> w, except |-> x]
MCSelSets == {Three({0, 3}, {2}, {}), Three({2, 3}, {}, {3}), Three({1, 2}, {1, 3}, {2})}

MCStdTexts == {<<"a", "b">>, <<"b", "n", "a">>}
MCStdItems == {<<1, 3>>, <<2, 1>>}
MCStdData == <<"a", "b", "n", "a">>
MCStdModes == {{"r"}, {"w"}, {"a", "+"}}
MCSelNfds == {-1, 3, 9}
MCSelTimes == {-1, 1}

\* Conversion specifications: flags, width, precision, length, letter and value.
Fmt(t, a, n) == [text |-> t, args |-> a, n |-> n]
NoWidth == Fmt(<<>>, <<>>, 0)
NoPrecision == Fmt(<<>>, <<>>, -1)
Widths == {NoWidth, Fmt(<<"4">>, <<>>, 4), Fmt(<<"*">>, <<-5>>, -5)}
WideWidths == Widths \cup {Fmt(<<"1", "0">>, <<>>, 10)}
Precisions == {NoPrecision, Fmt(<<".">>, <<>>, 0), Fmt(<<".", "3">>, <<>>, 3), Fmt(<<".", "*">>, <<1>>, 1)}
IntSpecs ==
  [flags : SUBSET {"0", "-", "+", "#"} \cup {{" "}, {" ", "0"}}, width : WideWidths, precision : Precisions,
   length : {<<>>}, conv : {"d", "u", "x", "o"}, value : {0, 9, -5}]
LengthSpecs ==
  [flags : {{}}, width : {NoWidth}, precision : {NoPrecision},
   length : {<<>>, <<"l">>, <<"l", "l">>, <<"h">>, <<"h", "h">>, <<"z">>}, conv : {"d", "i", "u", "X", "b"},
   value : {0, 127, -128, -1, -3}]
Dbl(n, d, neg) == [kind |-> "finite", neg |-> neg, frac |-> <<n, d>>]
Doubles == {Dbl(n, 8, FALSE) : n \in 0 .. 9 \cup {12, 15, 20}} \cup {Dbl(n, 8, TRUE) : n \in {4, 12, 76, 79, 798, 799}} \cup {Dbl(1, 128, FALSE)}
FloatSpecs ==
  [flags : {{}, {"-"}, {"+", "#"}, {"0", " "}}, width : Widths, precision : Precisions,
   length : {<<>>}, conv : {"f", "e", "g"}, value : Doubles]
TextSpecs ==
  [flags : {{}, {"-"}}, width : Widths, precision : Precisions, length : {<<>>}, conv : {"s"}, value : {<<>>, <<"a", "b">>}]
  \cup [flags : {{}, {"-"}}, width : Widths, precision : {NoPrecision}, length : {<<>>}, conv : {"c"}, value : {"a"}]
  \cup [flags : {{}}, width : {NoWidth}, precision : {NoPrecision}, length : {<<>>}, conv : {"p"}, value : {1, 31, 255}]
MCPfSpecs == IntSpecs \cup LengthSpecs \cup FloatSpecs \cup TextSpecs

\* Strings over 'a' and 'b', long enough to repeat with a period, and words with 'A'.
Over2(K) == UNION {[1 .. k -> {97, 98}] : k \in K}
MCHaystacks == Over2({0, 1, 2, 3, 4, 5, 8})
MCNeedles == Over2(0 .. 5)
MCWords == UNION {[1 .. k -> {65, 97, 98}] : k \in 0 .. 2} \cup {<<97, 98, 97>>, <<97, 65, 98>>, <<98, 97, 97>>}

Signs == {<<>>, <<32>>, <<45>>, <<9, 43>>, <<45, 48, 120>>, <<48>>, <<48, 88>>}
MCNumerals == {a \o b \o c : a \in Signs, b \in UNION {[1 .. k -> {48, 55, 65, 98}] : k \in 0 .. 3}, c \in {<<>>, <<46>>}}
MCArrays == UNION {[1 .. k -> 1 .. 3] : k \in 0 .. 6} \cup UNION {[1 .. k -> 1 .. 2] : k \in {7, 9, 11}}

\* Patterns: literals, '*', '?', a range, a negated set and an escaped character.
Chars == {97, 98, 65, 46, 47}
Tok(t, k, S) == [text |-> t, kind |-> k, set |-> S]
TA == Tok(<<97>>, "literal", {97})
TSlash == Tok(<<47>>, "literal", {47})
TDot == Tok(<<46>>, "literal", {46})
TStar == Tok(<<42>>, "star", Chars)
TAny == Tok(<<63>>, "any", Chars)
TSet == Tok(<<91, 97, 45, 98, 93>>, "any", {97, 98})
TNot == Tok(<<91, 33, 97, 93>>, "any", Chars \ {97})
TEsc == Tok(<<92, 98>>, "literal", {98})
MCTokens == {TA, TSlash, TDot, TStar, TAny, TSet, TEsc}
MCStrings ==
  UNION {[1 .. k -> {97, 46, 47}] : k \in 0 .. 2} \cup {s \in [1 .. 3 -> {97, 46, 47}] : s[1] # s[2] /\ s[2] # s[3]}
  \cup {<<97, 98, 97, 98>>, <<97, 97, 98, 97>>, <<65, 98>>, <<97, 47, 46, 97>>}

\* Two trees of files, and patterns of one and two components.
NA == <<97>>
NAB == <<97, 98>>
NHidden == <<46, 97>>
MCTrees ==
  {[q \in {<<NA>>, <<NAB>>, <<NHidden>>, <<NA, NA>>, <<NA, NAB>>, <<NAB, NA>>} |-> IF q \in {<<NA>>, <<NAB>>} THEN "dir" ELSE "file"],
   [q \in {<<NA>>, <<NAB>>, <<NA, NHidden>>} |-> IF q = <<NA>> THEN "dir" ELSE "file"]}
Comps == {<<TA>>, <<TStar>>, <<TA, TStar>>, <<TA, TAny>>, <<TA, TEsc>>, <<TDot, TAny>>, <<TNot>>}
MCGlobs == {<<c>> : c \in Comps} \cup {<<c, d>> : c \in Comps, d \in Comps}

\* Days around 1970, 1900, 2000, 2020 and 2100, with the ends of their cycles.
MCDays == -800 .. 800 \cup -25700 .. -25400 \cup 10900 .. 11500 \cup 18200 .. 18400 \cup 47400 .. 47700
MCStrftimeDays == {-3, 0, 3, 363, 364, 365, 366, 368, 10957, 11016, 19722, 19723, 19782}
MCFormats ==
  {<<"%", c>> : c \in {"U", "W", "u", "I", "Y", "F", "T", "p", "e", "B", "Q"}} \cup {<<"a", "%", "E", "d", "%", "%">>}

\* Spin locks with a flag on two CPUs, and without one where there is one CPU.
MCSpStart == [c \in {1, 2} |-> IF c = 1 THEN "t1" ELSE "t2"]
Uni == INSTANCE Spinlock WITH SpCpus <- {1}, SpSmp <- FALSE, SpStart <- [c \in {1} |-> "t1"]

CtxB(a, fp, tl, size) == [arch |-> a, fp |-> fp, tls |-> tl, size |-> size]
MCCtxBuilds ==
  {CtxB("x86_64", TRUE, TRUE, 12), CtxB("aarch64", TRUE, TRUE, 12), CtxB("riscv64", TRUE, TRUE, 12), CtxB("x86_64", FALSE, FALSE, 0)}

\* A kernel with nothing, with files and with everything.
MCAbiFeatures ==
  {{}, {"fd", "fs", "tls"},
   {"fd", "fs", "net", "pipe", "poll", "select", "epoll", "alloc", "multitask", "signal", "tls"}}

Init ==
  /\ part \in Parts
  /\ PtInit /\ TlbInit /\ AlInit /\ TtyInit /\ LlInit /\ BtInit
  /\ SgInit /\ RtcInit /\ WireInit /\ LwInit /\ NdInit /\ DkInit
  /\ CfsInit /\ SelInit /\ StdInit /\ PfInit /\ CsInit /\ SlInit
  /\ FnInit /\ CalInit /\ AbiInit /\ CtxInit
  /\ IF part = "spin1" THEN Uni!SpInit ELSE SpInit


Next ==
  \/ part = "pt" /\ PtNext
     /\ UNCHANGED <<part,
                   tlb_vars, al_vars, tty_vars, ll_vars, bt_vars, sg_vars, rtc_vars, wire_vars,
                   lw_vars, nd_vars, dk_vars, cfs_vars, sel_vars, std_vars, pf_vars, cs_vars,
                   sl_vars, fn_vars, cal_vars, sp_vars, abi_vars, ctx_vars>>
  \/ part = "tlb" /\ TlbNext
     /\ UNCHANGED <<part,
                   pt_vars, al_vars, tty_vars, ll_vars, bt_vars, sg_vars, rtc_vars, wire_vars,
                   lw_vars, nd_vars, dk_vars, cfs_vars, sel_vars, std_vars, pf_vars, cs_vars,
                   sl_vars, fn_vars, cal_vars, sp_vars, abi_vars, ctx_vars>>
  \/ part = "alloc" /\ AlNext
     /\ UNCHANGED <<part,
                   pt_vars, tlb_vars, tty_vars, ll_vars, bt_vars, sg_vars, rtc_vars, wire_vars,
                   lw_vars, nd_vars, dk_vars, cfs_vars, sel_vars, std_vars, pf_vars, cs_vars,
                   sl_vars, fn_vars, cal_vars, sp_vars, abi_vars, ctx_vars>>
  \/ part = "tty" /\ TtyNext
     /\ UNCHANGED <<part,
                   pt_vars, tlb_vars, al_vars, ll_vars, bt_vars, sg_vars, rtc_vars, wire_vars,
                   lw_vars, nd_vars, dk_vars, cfs_vars, sel_vars, std_vars, pf_vars, cs_vars,
                   sl_vars, fn_vars, cal_vars, sp_vars, abi_vars, ctx_vars>>
  \/ part = "list" /\ LlNext
     /\ UNCHANGED <<part,
                   pt_vars, tlb_vars, al_vars, tty_vars, bt_vars, sg_vars, rtc_vars, wire_vars,
                   lw_vars, nd_vars, dk_vars, cfs_vars, sel_vars, std_vars, pf_vars, cs_vars,
                   sl_vars, fn_vars, cal_vars, sp_vars, abi_vars, ctx_vars>>
  \/ part = "boot" /\ BtNext
     /\ UNCHANGED <<part,
                   pt_vars, tlb_vars, al_vars, tty_vars, ll_vars, sg_vars, rtc_vars, wire_vars,
                   lw_vars, nd_vars, dk_vars, cfs_vars, sel_vars, std_vars, pf_vars, cs_vars,
                   sl_vars, fn_vars, cal_vars, sp_vars, abi_vars, ctx_vars>>
  \/ part = "signal" /\ SgNext
     /\ UNCHANGED <<part,
                   pt_vars, tlb_vars, al_vars, tty_vars, ll_vars, bt_vars, rtc_vars, wire_vars,
                   lw_vars, nd_vars, dk_vars, cfs_vars, sel_vars, std_vars, pf_vars, cs_vars,
                   sl_vars, fn_vars, cal_vars, sp_vars, abi_vars, ctx_vars>>
  \/ part = "rtc" /\ RtcNext
     /\ UNCHANGED <<part,
                   pt_vars, tlb_vars, al_vars, tty_vars, ll_vars, bt_vars, sg_vars, wire_vars,
                   lw_vars, nd_vars, dk_vars, cfs_vars, sel_vars, std_vars, pf_vars, cs_vars,
                   sl_vars, fn_vars, cal_vars, sp_vars, abi_vars, ctx_vars>>
  \/ part = "wire" /\ WireNext
     /\ UNCHANGED <<part,
                   pt_vars, tlb_vars, al_vars, tty_vars, ll_vars, bt_vars, sg_vars, rtc_vars,
                   lw_vars, nd_vars, dk_vars, cfs_vars, sel_vars, std_vars, pf_vars, cs_vars,
                   sl_vars, fn_vars, cal_vars, sp_vars, abi_vars, ctx_vars>>
  \/ part = "lwip" /\ LwNext
     /\ UNCHANGED <<part,
                   pt_vars, tlb_vars, al_vars, tty_vars, ll_vars, bt_vars, sg_vars, rtc_vars,
                   wire_vars, nd_vars, dk_vars, cfs_vars, sel_vars, std_vars, pf_vars, cs_vars,
                   sl_vars, fn_vars, cal_vars, sp_vars, abi_vars, ctx_vars>>
  \/ part = "netdev" /\ NdNext
     /\ UNCHANGED <<part,
                   pt_vars, tlb_vars, al_vars, tty_vars, ll_vars, bt_vars, sg_vars, rtc_vars,
                   wire_vars, lw_vars, dk_vars, cfs_vars, sel_vars, std_vars, pf_vars, cs_vars,
                   sl_vars, fn_vars, cal_vars, sp_vars, abi_vars, ctx_vars>>
  \/ part = "disk" /\ DkNext
     /\ UNCHANGED <<part,
                   pt_vars, tlb_vars, al_vars, tty_vars, ll_vars, bt_vars, sg_vars, rtc_vars,
                   wire_vars, lw_vars, nd_vars, cfs_vars, sel_vars, std_vars, pf_vars, cs_vars,
                   sl_vars, fn_vars, cal_vars, sp_vars, abi_vars, ctx_vars>>
  \/ part = "cfs" /\ CfsNext
     /\ UNCHANGED <<part,
                   pt_vars, tlb_vars, al_vars, tty_vars, ll_vars, bt_vars, sg_vars, rtc_vars,
                   wire_vars, lw_vars, nd_vars, dk_vars, sel_vars, std_vars, pf_vars, cs_vars,
                   sl_vars, fn_vars, cal_vars, sp_vars, abi_vars, ctx_vars>>
  \/ part = "select" /\ SelNext
     /\ UNCHANGED <<part,
                   pt_vars, tlb_vars, al_vars, tty_vars, ll_vars, bt_vars, sg_vars, rtc_vars,
                   wire_vars, lw_vars, nd_vars, dk_vars, cfs_vars, std_vars, pf_vars, cs_vars,
                   sl_vars, fn_vars, cal_vars, sp_vars, abi_vars, ctx_vars>>
  \/ part = "stdio" /\ StdNext
     /\ UNCHANGED <<part,
                   pt_vars, tlb_vars, al_vars, tty_vars, ll_vars, bt_vars, sg_vars, rtc_vars,
                   wire_vars, lw_vars, nd_vars, dk_vars, cfs_vars, sel_vars, pf_vars, cs_vars,
                   sl_vars, fn_vars, cal_vars, sp_vars, abi_vars, ctx_vars>>
  \/ part = "printf" /\ PfNext
     /\ UNCHANGED <<part,
                   pt_vars, tlb_vars, al_vars, tty_vars, ll_vars, bt_vars, sg_vars, rtc_vars,
                   wire_vars, lw_vars, nd_vars, dk_vars, cfs_vars, sel_vars, std_vars, cs_vars,
                   sl_vars, fn_vars, cal_vars, sp_vars, abi_vars, ctx_vars>>
  \/ part = "string" /\ CsNext
     /\ UNCHANGED <<part,
                   pt_vars, tlb_vars, al_vars, tty_vars, ll_vars, bt_vars, sg_vars, rtc_vars,
                   wire_vars, lw_vars, nd_vars, dk_vars, cfs_vars, sel_vars, std_vars, pf_vars,
                   sl_vars, fn_vars, cal_vars, sp_vars, abi_vars, ctx_vars>>
  \/ part = "stdlib" /\ SlNext
     /\ UNCHANGED <<part,
                   pt_vars, tlb_vars, al_vars, tty_vars, ll_vars, bt_vars, sg_vars, rtc_vars,
                   wire_vars, lw_vars, nd_vars, dk_vars, cfs_vars, sel_vars, std_vars, pf_vars,
                   cs_vars, fn_vars, cal_vars, sp_vars, abi_vars, ctx_vars>>
  \/ part = "match" /\ FnNext
     /\ UNCHANGED <<part,
                   pt_vars, tlb_vars, al_vars, tty_vars, ll_vars, bt_vars, sg_vars, rtc_vars,
                   wire_vars, lw_vars, nd_vars, dk_vars, cfs_vars, sel_vars, std_vars, pf_vars,
                   cs_vars, sl_vars, cal_vars, sp_vars, abi_vars, ctx_vars>>
  \/ part = "calendar" /\ CalNext
     /\ UNCHANGED <<part,
                   pt_vars, tlb_vars, al_vars, tty_vars, ll_vars, bt_vars, sg_vars, rtc_vars,
                   wire_vars, lw_vars, nd_vars, dk_vars, cfs_vars, sel_vars, std_vars, pf_vars,
                   cs_vars, sl_vars, fn_vars, sp_vars, abi_vars, ctx_vars>>
  \/ part = "spin" /\ SpNext
     /\ UNCHANGED <<part,
                   pt_vars, tlb_vars, al_vars, tty_vars, ll_vars, bt_vars, sg_vars, rtc_vars,
                   wire_vars, lw_vars, nd_vars, dk_vars, cfs_vars, sel_vars, std_vars, pf_vars,
                   cs_vars, sl_vars, fn_vars, cal_vars, abi_vars, ctx_vars>>
  \/ part = "spin1" /\ Uni!SpNext
     /\ UNCHANGED <<part,
                   pt_vars, tlb_vars, al_vars, tty_vars, ll_vars, bt_vars, sg_vars, rtc_vars,
                   wire_vars, lw_vars, nd_vars, dk_vars, cfs_vars, sel_vars, std_vars, pf_vars,
                   cs_vars, sl_vars, fn_vars, cal_vars, abi_vars, ctx_vars>>
  \/ part = "abi" /\ AbiNext
     /\ UNCHANGED <<part,
                   pt_vars, tlb_vars, al_vars, tty_vars, ll_vars, bt_vars, sg_vars, rtc_vars,
                   wire_vars, lw_vars, nd_vars, dk_vars, cfs_vars, sel_vars, std_vars, pf_vars,
                   cs_vars, sl_vars, fn_vars, cal_vars, sp_vars, ctx_vars>>
  \/ part = "context" /\ CtxNext
     /\ UNCHANGED <<part,
                   pt_vars, tlb_vars, al_vars, tty_vars, ll_vars, bt_vars, sg_vars, rtc_vars,
                   wire_vars, lw_vars, nd_vars, dk_vars, cfs_vars, sel_vars, std_vars, pf_vars,
                   cs_vars, sl_vars, fn_vars, cal_vars, sp_vars, abi_vars>>

vars == <<part,
          pt_vars, tlb_vars, al_vars, tty_vars, ll_vars, bt_vars, sg_vars, rtc_vars, wire_vars,
          lw_vars, nd_vars, dk_vars, cfs_vars, sel_vars, std_vars, pf_vars, cs_vars, sl_vars,
          fn_vars, cal_vars, sp_vars, abi_vars, ctx_vars>>
Spec == Init /\ [][Next]_vars

\* The memory a CPU sees is the memory the kernel mapped: an address translates
\* as the calls of PageTable64 said, no frame is in two places of the tables, and
\* a translation a CPU still caches is one it has been told to drop; and the
\* allocators hand out no byte twice, and keep none that was given back.
AddressSpace ==
  /\ part = "pt" => TranslationMatches /\ TablesOnce
  /\ part = "tlb" => StaleIsQueued
  /\ part = "alloc" => AllocationsApart

\* What goes in is what comes out: readers of stdin get the typed lines in order
\* and the screen shows the line that is edited, streams of the C library lose
\* and repeat nothing, and select reports the descriptors that are ready.
StreamsMatch ==
  /\ part = "tty" => StdinIsTyped /\ ScreenMatches
  /\ part = "stdio" => StdioMatches
  /\ part = "select" => SelectMatches

\* Every CPU comes up once with what it needs, the threads of one share its ticks
\* by their weights, and each finds its registers again whenever it is its turn.
CpusShared ==
  /\ part = "boot" => BootSafe
  /\ part = "cfs" => FairShare
  /\ part = "context" => ContextKept

\* Interval timers fire on their schedule, and the real time clock is read
\* and set without a torn value.
TimeIsTrue ==
  /\ part = "signal" => SignalsOnSchedule
  /\ part = "rtc" => ClockIsTrue

\* Packets pass the sockets of lwIP and the buffers of the network drivers in
\* order, once, and every buffer is in one place.
PacketsInOrder ==
  /\ part = "lwip" => LwipInOrder
  /\ part = "netdev" => BuffersOnce

\* The bytes of a file are the bytes written, on a disk and in the messages to a
\* server of 9P.
StorageMatches ==
  /\ part = "wire" => MessagesMatch
  /\ part = "disk" => DiskMatches

\* Formatting, strings, patterns, numerals, sorting and dates of the C library
\* give what C says of them.
LibraryMatches ==
  /\ part = "printf" => PrintfMatches
  /\ part = "string" => StringsMatch
  /\ part = "match" => MatchingMatches
  /\ part = "stdlib" => StdlibMatches
  /\ part = "calendar" => CalendarMatches
=============================================================================
