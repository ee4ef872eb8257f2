---------------------------- MODULE FileIoProofs ----------------------------
(***************************************************************************)
(* The descriptor table, the pipes and the epoll instance agree on which   *)
(* files are open, a pipe is a FIFO, and an epoll instance keeps its map, for *)
(* any number of threads, descriptors and pipes and any buffer size.       *)
(***************************************************************************)
EXTENDS FileIo, FiniteSetTheorems, TLAPS

-----------------------------------------------------------------------------
(* The inductive invariant.                                                *)

\* What a call in progress holds: the file its operation needs.
GoodCall(c) ==
    /\ c.op = "read" => \E p \in Pipes : c.file = ReadEnd(p)
    /\ c.op \in {"write", "pipe"} => \E p \in Pipes : c.file = WriteEnd(p)
    /\ c.op \in {"dup", "dup2_add"} => c.file \in Files
    /\ c.op \in {"epoll", "scan", "clean"} \cup CtlOps => c.file = Epoll
    /\ c.op = "EPOLL_CTL_MOD" => c.ev # {}

TableInv ==
    /\ objects \in [Fds -> Files \cup {NoFile}]
    /\ count \in 0..RUX_FILE_LIMIT
    /\ CountMatches

RingInv == ring \in [Pipes -> PipeRingBuffer] /\ \A p \in Pipes : RingOK(ring[p])

CallInv == call \in [Procs -> Calls] /\ \A x \in Procs : GoodCall(call[x])

EofInv == eof \subseteq Pipes /\ EofIsFinal

\* The map's mutex is held by the one call that scans it.
ScanInv ==
    /\ events \in [Fds -> Interest]
    /\ evlock \in Procs \cup {None}
    /\ \A x \in Procs : call[x].op = "scan" => evlock = x
    /\ ScanSeesMap

(* What every step of FileIo keeps.  PipeEnds is not inductive by itself:   *)
(* that a call holds a file of the right kind keeps a read from a pipe that *)
(* is not there, RingOK tells the bytes of a buffer whose head and tail     *)
(* meet, and the owner of the map's mutex keeps the map from changing under *)
(* a scan.                                                                  *)
IoInv == /\ TableInv /\ RingInv /\ CallInv /\ EofInv /\ ScanInv
         /\ panicked \in BOOLEAN /\ prog \in Programs

-----------------------------------------------------------------------------
(* The table.                                                              *)

\* The descriptors are finitely many, and so are the ones in use.
LEMMA FdsFinite ==
    ASSUME NEW S \in SUBSET Fds
    PROVE  IsFiniteSet(S) /\ Cardinality(S) \in 0..RUX_FILE_LIMIT
<1>1. 0 \in Int /\ RUX_FILE_LIMIT - 1 \in Int /\ RUX_FILE_LIMIT \in Nat \ {0}
  BY FdAssumption
<1>2. IsFiniteSet(Fds) /\ Cardinality(Fds) = RUX_FILE_LIMIT
  BY <1>1, FS_Interval DEF Fds
<1>3. IsFiniteSet(S) /\ Cardinality(S) <= Cardinality(Fds)
  BY Zenon, <1>2, FS_Subset
<1>4. Cardinality(S) \in Nat
  BY Zenon, <1>3, FS_CardinalityType
<1> QED
  BY <1>1, <1>2, <1>3, <1>4

\* The least of a set of numbers is one of them.
LEMMA MinFacts ==
    ASSUME NEW S \in SUBSET Nat, S # {} PROVE Min(S) \in S
<1>1. PICK m \in S : \A y \in S : <<y, m>> \notin OpToRel(<, Nat)
  BY Zenon, WFMin, NatLessThanWellFounded
<1>2. \A y \in S : ~(y < m)
  BY Zenon, <1>1 DEF OpToRel
<1>3. \A y \in S : m <= y
  BY <1>2
<1>4. \E z \in S : \A y \in S : z <= y
  BY Zenon, <1>3
<1> QED
  BY Zenon, <1>4 DEF Min

\* first_false_index is the index of a clear bit.
LEMMA FirstFree ==
    ASSUME Free # {} PROVE first_false_index \in Free /\ first_false_index \in Fds
<1>1. Free \in SUBSET Nat /\ Free \subseteq Fds
  BY FdAssumption DEF Free, Fds
<1> QED
  BY Zenon, <1>1, MinFacts DEF first_false_index

\* What a step may do to the table: nothing, add the file g, or remove one.
TableStep(g) ==
    \/ TableUnchanged
    \/ \E fd \in Free : add_at(fd, g)
    \/ \E fd \in Fds : is_assigned(fd) /\ remove(fd)

\* The table keeps its type, and count the number of descriptors.
LEMMA TableStepInv ==
    ASSUME TableInv, NEW g \in Files, TableStep(g) PROVE TableInv'
<1> DEFINE Used == {fd \in Fds : objects[fd] # NoFile}
           Now == {fd \in Fds : objects'[fd] # NoFile}
<1>1. /\ objects \in [Fds -> Files \cup {NoFile}]
      /\ count = Cardinality(Used)
  BY Zenon DEF TableInv, CountMatches, is_assigned
<1>2. SUFFICES /\ objects' \in [Fds -> Files \cup {NoFile}]
               /\ count' = Cardinality(Now)
  <2>1. Now \in SUBSET Fds
    BY Zenon
  <2>2. Cardinality(Now) \in 0..RUX_FILE_LIMIT
    BY Zenon, <2>1, FdsFinite
  <2>3. CountMatches' <=> count' = Cardinality(Now)
    BY Zenon DEF CountMatches, is_assigned
  <2> QED
    BY Zenon, <1>2, <2>2, <2>3 DEF TableInv
<1>3. IsFiniteSet(Used) /\ Cardinality(Used) \in Nat
  <2>1. Used \in SUBSET Fds
    BY Zenon
  <2>2. Cardinality(Used) \in 0..RUX_FILE_LIMIT /\ IsFiniteSet(Used)
    BY Zenon, <2>1, FdsFinite
  <2> QED
    BY <2>2, FdAssumption
<1>4. CASE TableUnchanged
  BY Zenon, <1>1, <1>4 DEF TableUnchanged
<1>5. ASSUME NEW fd \in Free, add_at(fd, g)
      PROVE  objects' \in [Fds -> Files \cup {NoFile}] /\ count' = Cardinality(Now)
  <2>1. fd \in Fds /\ objects[fd] = NoFile /\ g # NoFile
    BY Zenon, FdAssumption DEF Free, is_assigned
  <2>2. objects' = [objects EXCEPT ![fd] = g] /\ count' = count + 1
    BY Zenon, <1>5 DEF add_at
  <2>3. Now = Used \cup {fd}
    BY Zenon, <1>1, <2>1, <2>2
  <2>4. fd \notin Used
    BY Zenon, <2>1
  <2>5. Cardinality(Used \cup {fd}) = Cardinality(Used) + 1
    BY Zenon, <1>3, <2>4, FS_AddElement
  <2> HIDE DEF Now, Used
  <2> QED
    BY Zenon, <1>1, <2>1, <2>2, <2>3, <2>5
<1>6. ASSUME NEW fd \in Fds, is_assigned(fd), remove(fd)
      PROVE  objects' \in [Fds -> Files \cup {NoFile}] /\ count' = Cardinality(Now)
  <2>1. objects[fd] # NoFile
    BY Zenon, <1>6 DEF is_assigned
  <2>2. objects' = [objects EXCEPT ![fd] = NoFile] /\ count' = count - 1
    BY Zenon, <1>6 DEF remove
  <2>3. Now = Used \ {fd}
    BY Zenon, <1>1, <2>1, <2>2
  <2>4. fd \in Used
    BY Zenon, <2>1
  <2>5. Cardinality(Used \ {fd}) = Cardinality(Used) - 1
    BY ZenonT(60), <1>3, <2>4, FS_RemoveElement
  <2> HIDE DEF Now, Used
  <2> QED
    BY Zenon, <1>1, <2>1, <2>2, <2>3, <2>5
<1> QED
  BY Zenon, <1>4, <1>5, <1>6 DEF TableStep

\* What a step of the table may put in it.
LEMMA TableStepAt ==
    ASSUME TableInv, NEW g, TableStep(g), NEW fd \in Fds
    PROVE  objects'[fd] \in {objects[fd], NoFile, g}
<1>1. objects \in [Fds -> Files \cup {NoFile}]
  BY Zenon DEF TableInv
<1>2. CASE TableUnchanged
  BY Zenon, <1>2 DEF TableUnchanged
<1>3. ASSUME NEW i \in Free, add_at(i, g) PROVE objects'[fd] \in {objects[fd], NoFile, g}
  BY ZenonT(60), <1>1, <1>3 DEF add_at
<1>4. ASSUME NEW i \in Fds, remove(i) PROVE objects'[fd] \in {objects[fd], NoFile, g}
  BY ZenonT(60), <1>1, <1>4 DEF remove
<1> QED
  BY Zenon, <1>2, <1>3, <1>4 DEF TableStep

-----------------------------------------------------------------------------
(* Calls.                                                                  *)

\* Only the entry of x changes.
LEMMA SetAt ==
    ASSUME CallInv, NEW x \in Procs, NEW c \in Calls, Set(x, c)
    PROVE  /\ call' \in [Procs -> Calls]
           /\ call'[x] = c
           /\ \A y \in Procs : y # x => call'[y] = call[y]
  BY Zenon DEF CallInv, Set

\* A call that holds what it needs keeps the invariant of calls.
LEMMA SetInv ==
    ASSUME CallInv, NEW x \in Procs, NEW c \in Calls, GoodCall(c), Set(x, c)
    PROVE  CallInv'
<1>1. /\ call' \in [Procs -> Calls] /\ call'[x] = c
      /\ \A y \in Procs : y # x => call'[y] = call[y]
  BY ZenonT(60), SetAt
<1>2. \A y \in Procs : GoodCall(call[y])
  BY ZenonT(60) DEF CallInv
<1>3. ASSUME NEW y \in Procs PROVE GoodCall(call'[y])
  <2>1. CASE y = x
    BY ZenonT(60), <1>1, <2>1
  <2>2. CASE y # x
    <3>1. call'[y] = call[y]
      BY ZenonT(60), <1>1, <2>2
    <3> QED
      BY ZenonT(60), <1>2, <3>1
  <2> QED
    BY ZenonT(60), <2>1, <2>2
<1>4. CallInv' <=> (call' \in [Procs -> Calls] /\ \A y \in Procs : GoodCall(call'[y]))
  BY Zenon DEF CallInv, GoodCall
<1> QED
  BY ZenonT(60), <1>1, <1>3, <1>4

\* No call.
LEMMA NoCallOk == NoCall \in Calls /\ GoodCall(NoCall) /\ NoCall.op = "idle" /\ NoCall.file = NoFile
<1>1. 0 \in Fds /\ ZeroByte \in Bytes
  BY FdAssumption, FileAssumption DEF Fds
<1>2. NoCall \in Calls
  BY Zenon, <1>1 DEF NoCall, Calls, Ops, Interest
<1>3. NoCall.op = "idle" /\ NoCall.file = NoFile
  BY Zenon DEF NoCall
<1> QED
  BY ZenonT(60), <1>2, <1>3 DEF GoodCall, CtlOps

\* A file that is in use after a step was in use before it, unless the step
\* makes one: it was in the table or in a call.
LEMMA LiveKept ==
    ASSUME TableInv, CallInv, NEW x \in Procs, NEW c \in Calls, Set(x, c),
           NEW g, TableStep(g), NEW f, f # NoFile,
           g = f => Live(f), c.file = f => Live(f), Live(f)'
    PROVE  Live(f)
<1>1. CASE \E fd \in Fds : objects'[fd] = f
  <2>1. PICK fd \in Fds : objects'[fd] = f
    BY Zenon, <1>1
  <2>2. f = objects[fd] \/ f = g
    BY Zenon, <2>1, TableStepAt
  <2> QED
    BY Zenon, <2>2 DEF Live, Named
<1>2. CASE \E y \in Procs : call'[y].file = f
  <2>1. PICK y \in Procs : call'[y].file = f
    BY Zenon, <1>2
  <2>2. f = call[y].file \/ f = c.file
    BY ZenonT(60), <2>1, SetAt
  <2> QED
    BY Zenon, <2>2 DEF Live, Held
<1>3. Live(f)' <=> (\E fd \in Fds : objects'[fd] = f) \/ (\E y \in Procs : call'[y].file = f)
  BY Zenon DEF Live, Named, Held
<1> QED
  BY Zenon, <1>1, <1>2, <1>3

-----------------------------------------------------------------------------
(* What most steps leave alone.                                            *)

\* The files a step deals with are different.
LEMMA Kinds ==
    /\ Epoll \in Files /\ Epoll # NoFile /\ NoFile \notin Files
    /\ \A p \in Pipes : /\ ReadEnd(p) \in Files /\ WriteEnd(p) \in Files
                        /\ WriteEnd(p) # NoFile /\ WriteEnd(p) # Epoll
                        /\ ReadEnd(p) # Epoll
    /\ \A p, q \in Pipes : ReadEnd(p) # WriteEnd(q) /\ (WriteEnd(p) = WriteEnd(q) => p = q)
                           /\ (ReadEnd(p) = ReadEnd(q) => p = q)
<1>1. \A p \in Pipes : {ReadEnd(p), WriteEnd(p)} \subseteq Files \ {Epoll}
  BY Zenon, FileAssumption
<1>2. \A p, q \in Pipes : ReadEnd(p) # WriteEnd(q) /\ (WriteEnd(p) = WriteEnd(q) => p = q)
                          /\ (ReadEnd(p) = ReadEnd(q) => p = q)
  BY Zenon DEF ReadEnd, WriteEnd
<1> QED
  BY Zenon, <1>1, <1>2, FdAssumption, FileAssumption

\* End of file stays final while no step makes a write end.
LEMMA EofKept ==
    ASSUME TableInv, CallInv, EofInv, NEW x \in Procs, NEW c \in Calls, Set(x, c),
           NEW g, TableStep(g),
           \A p \in Pipes : g = WriteEnd(p) \/ c.file = WriteEnd(p) => Live(WriteEnd(p)),
           eof' = eof, \A p \in eof : available_read(ring'[p]) = 0
    PROVE  EofInv'
<1>1. eof \subseteq Pipes /\ \A p \in eof : ~ Live(WriteEnd(p))
  BY Zenon DEF EofInv, EofIsFinal
<1>2. ASSUME NEW p \in Pipes, Live(WriteEnd(p))' PROVE Live(WriteEnd(p))
  <2> DEFINE f == WriteEnd(p)
  <2>1. f # NoFile /\ (g = f => Live(f)) /\ (c.file = f => Live(f)) /\ Live(f)'
    BY Zenon, <1>2, Kinds
  <2> HIDE DEF f
  <2>2. Live(f)
    BY ZenonT(60), <2>1, LiveKept
  <2> QED
    BY Zenon, <2>2 DEF f
<1>3. \A p \in eof : ~ Live(WriteEnd(p))'
  BY ZenonT(60), <1>1, <1>2
<1> QED
  BY Zenon, <1>1, <1>3 DEF EofInv, EofIsFinal, available_read

\* A step that leaves the map and its mutex alone starts no scan and adds
\* nothing to one.
LEMMA ScanKept ==
    ASSUME CallInv, ScanInv, NEW x \in Procs, NEW c \in Calls, Set(x, c),
           c.op = "scan" => call[x].op = "scan" /\ c.todo \subseteq call[x].todo,
           events' = events, evlock' = evlock
    PROVE  ScanInv'
<1>1. /\ call'[x] = c /\ \A y \in Procs : y # x => call'[y] = call[y]
  BY ZenonT(60), SetAt
<1>2. ASSUME NEW y \in Procs, call'[y].op = "scan"
      PROVE  call[y].op = "scan" /\ call'[y].todo \subseteq call[y].todo
  BY ZenonT(60), <1>1, <1>2
<1>3. \A y \in Procs : call[y].op = "scan" => evlock = y /\ \A fd \in call[y].todo : events[fd] # {}
  BY ZenonT(60) DEF ScanInv, ScanSeesMap
<1>4. \A y \in Procs : call'[y].op = "scan" => evlock = y /\ \A fd \in call'[y].todo : events[fd] # {}
  BY ZenonT(60), <1>2, <1>3
<1> QED
  BY ZenonT(60), <1>4 DEF ScanInv, ScanSeesMap

\* While nobody scans, the map may change.
LEMMA ScanFree ==
    ASSUME CallInv, ScanInv, NEW x \in Procs, NEW c \in Calls, Set(x, c), c.op # "scan",
           \A y \in Procs : y # x => call[y].op # "scan",
           events' \in [Fds -> Interest], evlock' \in {evlock, None}
    PROVE  ScanInv'
<1>1. /\ call'[x] = c /\ \A y \in Procs : y # x => call'[y] = call[y]
  BY ZenonT(60), SetAt
<1>2. \A y \in Procs : call'[y].op # "scan"
  BY ZenonT(60), <1>1
<1>3. evlock' \in Procs \cup {None}
  BY ZenonT(60) DEF ScanInv
<1> QED
  BY ZenonT(60), <1>2, <1>3 DEF ScanInv, ScanSeesMap

\* The mutex of the map is free, or held by another: nobody else scans.
LEMMA OneScan ==
    ASSUME ScanInv, NEW x \in Procs, evlock \in {None, x}, NEW y \in Procs, y # x
    PROVE  call[y].op # "scan"
<1>1. call[y].op = "scan" => evlock = y
  BY ZenonT(60) DEF ScanInv
<1>2. None # y
  BY ZenonT(60), FileAssumption
<1> QED
  BY ZenonT(60), <1>1, <1>2

\* Steps that touch the table and a call only.
LEMMA Ordinary ==
    ASSUME IoInv, NEW x \in Procs, NEW c \in Calls, GoodCall(c), Set(x, c),
           NEW g \in Files, TableStep(g),
           \A p \in Pipes : g = WriteEnd(p) \/ c.file = WriteEnd(p) => Live(WriteEnd(p)),
           c.op = "scan" => call[x].op = "scan" /\ c.todo \subseteq call[x].todo,
           ring' = ring, eof' = eof, events' = events, evlock' = evlock,
           panicked' \in BOOLEAN, prog' = prog
    PROVE  IoInv'
<1>1. /\ TableInv /\ RingInv /\ CallInv /\ EofInv /\ ScanInv
      /\ panicked \in BOOLEAN /\ prog \in Programs
  BY ZenonT(60) DEF IoInv
<1>2. TableInv'
  BY ZenonT(60), <1>1, TableStepInv
<1>3. RingInv'
  BY ZenonT(60), <1>1 DEF RingInv
<1>4. CallInv'
  BY ZenonT(60), <1>1, SetInv
<1>5. EofInv'
  <2>1. \A p \in eof : available_read(ring'[p]) = 0
    BY ZenonT(60), <1>1 DEF EofInv, EofIsFinal
  <2> QED
    BY ZenonT(60), <1>1, <2>1, EofKept
<1>6. ScanInv'
  BY ZenonT(60), <1>1, ScanKept
<1> QED
  BY ZenonT(60), <1>1, <1>2, <1>3, <1>4, <1>5, <1>6 DEF IoInv

-----------------------------------------------------------------------------
(* Descriptors.                                                            *)

\* An entry set to itself.
LEMMA SetSame ==
    ASSUME CallInv, NEW x \in Procs, call' = call PROVE Set(x, call[x])
  BY Zenon DEF CallInv, Set

\* close: the table without the descriptor keeps the invariant.
LEMMA CloseInv ==
    ASSUME IoInv, NEW x \in Procs, prog' = prog, NEW fd \in Fds, sys_close(x, fd)
    PROVE  IoInv'
<1> DEFINE c == call[x]
<1>1. /\ CallInv /\ TableInv /\ call[x] \in Calls /\ GoodCall(call[x])
      /\ objects \in [Fds -> Files \cup {NoFile}]
  BY Zenon DEF IoInv, CallInv, TableInv
<1>2. c \in Calls /\ c.op = call[x].op /\ c.file = call[x].file
  BY ZenonT(60), <1>1
<1>3. Set(x, c) /\ TableStep(Epoll) /\ Epoll \in Files
  BY ZenonT(60), <1>1, SetSame, Kinds DEF TableStep, sys_close
<1>4. UNCHANGED <<ring, eof, events, evlock>> /\ panicked' \in BOOLEAN
  BY Zenon DEF IoInv, PipePart, EpollPart, sys_close
<1> HIDE DEF c
<1>5. GoodCall(c) /\ (c.op = "scan" => call[x].op = "scan" /\ c.todo \subseteq call[x].todo)
  BY ZenonT(60), <1>1, <1>2 DEF c
<1>6. \A p \in Pipes : Epoll = WriteEnd(p) \/ c.file = WriteEnd(p) => Live(WriteEnd(p))
  BY ZenonT(60), <1>2, Kinds DEF Live, Held
<1> QED
  BY ZenonT(60), <1>2, <1>3, <1>4, <1>5, <1>6, Ordinary

\* dup looks the descriptor up: the call holds the file it found.
LEMMA DupInv ==
    ASSUME IoInv, NEW x \in Procs, prog' = prog, NEW fd \in Fds, sys_dup(x, fd)
    PROVE  IoInv'
<1> DEFINE c == [NoCall EXCEPT !.op = "dup", !.file = objects[fd]]
<1>1. /\ CallInv /\ TableInv /\ call[x] \in Calls /\ GoodCall(call[x])
      /\ objects \in [Fds -> Files \cup {NoFile}]
  BY Zenon DEF IoInv, CallInv, TableInv
<1>0. objects[fd] \in Files
  BY ZenonT(60), <1>1 DEF sys_dup, is_assigned
<1>2. c \in Calls /\ c.op = "dup" /\ c.file = objects[fd]
  BY ZenonT(60), <1>1, NoCallOk DEF Calls, Ops
<1>3. Set(x, c) /\ TableStep(Epoll) /\ Epoll \in Files
  BY ZenonT(60), Kinds DEF TableStep, sys_dup
<1>4. UNCHANGED <<ring, eof, events, evlock>> /\ panicked' \in BOOLEAN
  BY ZenonT(60) DEF IoInv, PipePart, EpollPart, sys_dup
<1> HIDE DEF c
<1>5. GoodCall(c) /\ (c.op = "scan" => call[x].op = "scan" /\ c.todo \subseteq call[x].todo)
  BY ZenonT(60), <1>0, <1>2 DEF GoodCall, CtlOps
<1>6. \A p \in Pipes : Epoll = WriteEnd(p) \/ c.file = WriteEnd(p) => Live(WriteEnd(p))
  BY ZenonT(60), <1>2, Kinds DEF Live, Named
<1> QED
  BY ZenonT(60), <1>2, <1>3, <1>4, <1>5, <1>6, Ordinary

\* dup adds the file it holds at the first free descriptor.
LEMMA DupAddInv ==
    ASSUME IoInv, NEW x \in Procs, prog' = prog, dup_add(x)
    PROVE  IoInv'
<1> DEFINE c == NoCall
<1>1. /\ CallInv /\ TableInv /\ call[x] \in Calls /\ GoodCall(call[x])
      /\ objects \in [Fds -> Files \cup {NoFile}]
  BY Zenon DEF IoInv, CallInv, TableInv
<1>0. call[x].file \in Files
  BY ZenonT(60), <1>1 DEF dup_add, In, GoodCall
<1>2. c \in Calls /\ c.op = "idle" /\ c.file = NoFile
  BY ZenonT(60), NoCallOk
<1>3. Set(x, c) /\ TableStep(call[x].file) /\ call[x].file \in Files
  BY ZenonT(60), <1>0, FirstFree DEF TableStep, dup_add, Return
<1>4. UNCHANGED <<ring, eof, events, evlock>> /\ panicked' \in BOOLEAN
  BY Zenon DEF IoInv, PipePart, EpollPart, dup_add
<1> HIDE DEF c
<1>5. GoodCall(c) /\ (c.op = "scan" => call[x].op = "scan" /\ c.todo \subseteq call[x].todo)
  BY ZenonT(60), <1>1, <1>2 DEF GoodCall, CtlOps
<1>6. \A p \in Pipes : call[x].file = WriteEnd(p) \/ c.file = WriteEnd(p) => Live(WriteEnd(p))
  BY ZenonT(60), <1>2, Kinds DEF Live, Held
<1> QED
  BY ZenonT(60), <1>2, <1>3, <1>4, <1>5, <1>6, Ordinary

\* dup2 closes the target descriptor.
LEMMA Dup2Inv ==
    ASSUME IoInv, NEW x \in Procs, prog' = prog, NEW fd \in Fds, NEW new_fd \in Fds, sys_dup2(x, fd, new_fd)
    PROVE  IoInv'
<1> DEFINE c == [NoCall EXCEPT !.op = "dup2", !.fd = fd, !.fd2 = new_fd]
<1>1. /\ CallInv /\ TableInv /\ call[x] \in Calls /\ GoodCall(call[x])
      /\ objects \in [Fds -> Files \cup {NoFile}]
  BY Zenon DEF IoInv, CallInv, TableInv
<1>2. c \in Calls /\ c.op = "dup2" /\ c.file = NoFile
  BY ZenonT(60), <1>1, NoCallOk DEF Calls, Ops
<1>3. Set(x, c) /\ TableStep(Epoll) /\ Epoll \in Files
  BY Zenon, Kinds DEF TableStep, sys_dup2
<1>4. UNCHANGED <<ring, eof, events, evlock>> /\ panicked' \in BOOLEAN
  BY Zenon DEF IoInv, PipePart, EpollPart, sys_dup2
<1> HIDE DEF c
<1>5. GoodCall(c) /\ (c.op = "scan" => call[x].op = "scan" /\ c.todo \subseteq call[x].todo)
  BY ZenonT(60), <1>1, <1>2 DEF GoodCall, CtlOps
<1>6. \A p \in Pipes : Epoll = WriteEnd(p) \/ c.file = WriteEnd(p) => Live(WriteEnd(p))
  BY ZenonT(60), <1>2, Kinds
<1> QED
  BY ZenonT(60), <1>2, <1>3, <1>4, <1>5, <1>6, Ordinary

\* dup2 looks the source descriptor up.
LEMMA Dup2GetInv ==
    ASSUME IoInv, NEW x \in Procs, prog' = prog, dup2_get(x)
    PROVE  IoInv'
<1> DEFINE d == [call[x] EXCEPT !.op = "dup2_add", !.file = objects[call[x].fd]]
           c == IF is_assigned(call[x].fd) THEN d ELSE NoCall
<1>1. /\ CallInv /\ TableInv /\ call[x] \in Calls /\ GoodCall(call[x])
      /\ objects \in [Fds -> Files \cup {NoFile}]
  BY Zenon DEF IoInv, CallInv, TableInv
<1>2. is_assigned(call[x].fd) => call[x].fd \in Fds /\ objects[call[x].fd] \in Files
  BY ZenonT(60), <1>1 DEF is_assigned
<1>3. is_assigned(call[x].fd) => d \in Calls /\ d.op = "dup2_add" /\ d.file = objects[call[x].fd]
  BY ZenonT(60), <1>1, <1>2 DEF Calls, Ops
<1>4. Set(x, c) /\ TableStep(Epoll) /\ Epoll \in Files
  BY ZenonT(60), Kinds DEF TableStep, dup2_get, Return
<1>5. UNCHANGED <<ring, eof, events, evlock>> /\ panicked' \in BOOLEAN
  BY Zenon DEF IoInv, PipePart, EpollPart, dup2_get
<1> HIDE DEF d
<1>6. c \in Calls /\ GoodCall(c) /\ c.op # "scan"
  BY ZenonT(60), <1>2, <1>3, NoCallOk DEF GoodCall, CtlOps
<1>7. \A p \in Pipes : Epoll = WriteEnd(p) \/ c.file = WriteEnd(p) => Live(WriteEnd(p))
  BY ZenonT(60), <1>2, <1>3, NoCallOk, Kinds DEF Live, Named
<1> HIDE DEF c
<1> QED
  BY ZenonT(60), <1>4, <1>5, <1>6, <1>7, Ordinary

\* dup2 adds the file it holds at the target descriptor, if that is still free.
LEMMA Dup2AddInv ==
    ASSUME IoInv, NEW x \in Procs, prog' = prog, dup2_add(x)
    PROVE  IoInv'
<1> DEFINE c == NoCall
<1>1. /\ CallInv /\ TableInv /\ call[x] \in Calls /\ GoodCall(call[x])
      /\ objects \in [Fds -> Files \cup {NoFile}]
  BY Zenon DEF IoInv, CallInv, TableInv
<1>0. call[x].file \in Files /\ call[x].fd2 \in Fds
  BY ZenonT(60), <1>1 DEF dup2_add, In, GoodCall, Calls
<1>2. c \in Calls /\ c.op = "idle" /\ c.file = NoFile
  BY Zenon, NoCallOk
<1>3. Set(x, c) /\ TableStep(call[x].file) /\ call[x].file \in Files
  BY ZenonT(60), <1>0, <1>1 DEF TableStep, dup2_add, Return, Free
<1>4. UNCHANGED <<ring, eof, events, evlock>> /\ panicked' \in BOOLEAN
  BY ZenonT(60) DEF IoInv, PipePart, EpollPart, dup2_add
<1> HIDE DEF c
<1>5. GoodCall(c) /\ (c.op = "scan" => call[x].op = "scan" /\ c.todo \subseteq call[x].todo)
  BY Zenon, <1>1, <1>2 DEF GoodCall, CtlOps
<1>6. \A p \in Pipes : call[x].file = WriteEnd(p) \/ c.file = WriteEnd(p) => Live(WriteEnd(p))
  BY Zenon, <1>2, Kinds DEF Live, Held
<1> QED
  BY Zenon, <1>2, <1>3, <1>4, <1>5, <1>6, Ordinary

\* pipe adds the write end it holds.
LEMMA PipeWriteInv ==
    ASSUME IoInv, NEW x \in Procs, prog' = prog, sys_pipe_write_fd(x)
    PROVE  IoInv'
<1> DEFINE c == NoCall
<1>1. /\ CallInv /\ TableInv /\ call[x] \in Calls /\ GoodCall(call[x])
      /\ objects \in [Fds -> Files \cup {NoFile}]
  BY Zenon DEF IoInv, CallInv, TableInv
<1>0. call[x].file \in Files /\ call[x].fd \in Fds
  BY ZenonT(60), <1>1, Kinds DEF sys_pipe_write_fd, In, GoodCall, Calls
<1>00. Free = {} => is_assigned(call[x].fd)
  BY ZenonT(60), <1>0 DEF Free
<1>2. c \in Calls /\ c.op = "idle" /\ c.file = NoFile
  BY Zenon, NoCallOk
<1>3. Set(x, c) /\ TableStep(call[x].file) /\ call[x].file \in Files
  BY ZenonT(60), <1>0, <1>00, FirstFree DEF TableStep, sys_pipe_write_fd, Return
<1>4. UNCHANGED <<ring, eof, events, evlock>> /\ panicked' \in BOOLEAN
  BY ZenonT(60) DEF IoInv, PipePart, EpollPart, sys_pipe_write_fd
<1> HIDE DEF c
<1>5. GoodCall(c) /\ (c.op = "scan" => call[x].op = "scan" /\ c.todo \subseteq call[x].todo)
  BY Zenon, <1>1, <1>2 DEF GoodCall, CtlOps
<1>6. \A p \in Pipes : call[x].file = WriteEnd(p) \/ c.file = WriteEnd(p) => Live(WriteEnd(p))
  BY Zenon, <1>2, Kinds DEF Live, Held
<1> QED
  BY Zenon, <1>2, <1>3, <1>4, <1>5, <1>6, Ordinary

\* read looks its descriptor up: the call holds the read end.
LEMMA SysReadInv ==
    ASSUME IoInv, NEW x \in Procs, prog' = prog, NEW fd \in Fds, NEW n \in Nat, sys_read(x, fd, n)
    PROVE  IoInv'
<1> DEFINE c == [NoCall EXCEPT !.op = "read", !.file = objects[fd], !.n = n]
<1>1. /\ CallInv /\ TableInv /\ call[x] \in Calls /\ GoodCall(call[x])
      /\ objects \in [Fds -> Files \cup {NoFile}]
  BY Zenon DEF IoInv, CallInv, TableInv
<1>0. \E p \in Pipes : objects[fd] = ReadEnd(p)
  BY Zenon DEF sys_read
<1>2. c \in Calls /\ c.op = "read" /\ c.file = objects[fd]
  BY ZenonT(60), <1>1, NoCallOk DEF Calls, Ops
<1>3. Set(x, c) /\ TableStep(Epoll) /\ Epoll \in Files
  BY Zenon, Kinds DEF TableStep, sys_read
<1>4. UNCHANGED <<ring, eof, events, evlock>> /\ panicked' \in BOOLEAN
  BY Zenon DEF IoInv, PipePart, EpollPart, sys_read
<1> HIDE DEF c
<1>5. GoodCall(c) /\ (c.op = "scan" => call[x].op = "scan" /\ c.todo \subseteq call[x].todo)
  BY ZenonT(60), <1>0, <1>2 DEF GoodCall, CtlOps
<1>6. \A p \in Pipes : Epoll = WriteEnd(p) \/ c.file = WriteEnd(p) => Live(WriteEnd(p))
  BY ZenonT(60), <1>2, Kinds DEF Live, Named
<1> QED
  BY ZenonT(60), <1>2, <1>3, <1>4, <1>5, <1>6, Ordinary

\* write looks its descriptor up: the call holds the write end.
LEMMA SysWriteInv ==
    ASSUME IoInv, NEW x \in Procs, prog' = prog, NEW fd \in Fds, NEW n \in Nat, NEW byte \in Bytes, sys_write(x, fd, n, byte)
    PROVE  IoInv'
<1> DEFINE c == [NoCall EXCEPT !.op = "write", !.file = objects[fd], !.n = n, !.byte = byte]
<1>1. /\ CallInv /\ TableInv /\ call[x] \in Calls /\ GoodCall(call[x])
      /\ objects \in [Fds -> Files \cup {NoFile}]
  BY Zenon DEF IoInv, CallInv, TableInv
<1>0. \E p \in Pipes : objects[fd] = WriteEnd(p)
  BY ZenonT(60) DEF sys_write
<1>2. c \in Calls /\ c.op = "write" /\ c.file = objects[fd]
  BY ZenonT(60), <1>1, NoCallOk DEF Calls, Ops
<1>3. Set(x, c) /\ TableStep(Epoll) /\ Epoll \in Files
  BY ZenonT(60), Kinds DEF TableStep, sys_write
<1>4. UNCHANGED <<ring, eof, events, evlock>> /\ panicked' \in BOOLEAN
  BY Zenon DEF IoInv, PipePart, EpollPart, sys_write
<1> HIDE DEF c
<1>5. GoodCall(c) /\ (c.op = "scan" => call[x].op = "scan" /\ c.todo \subseteq call[x].todo)
  BY ZenonT(60), <1>0, <1>2 DEF GoodCall, CtlOps
<1>6. \A p \in Pipes : Epoll = WriteEnd(p) \/ c.file = WriteEnd(p) => Live(WriteEnd(p))
  BY ZenonT(60), <1>2, Kinds DEF Live, Named
<1> QED
  BY ZenonT(60), <1>2, <1>3, <1>4, <1>5, <1>6, Ordinary

\* epoll_ctl looks both descriptors up.
LEMMA SysCtlInv ==
    ASSUME IoInv, NEW x \in Procs, prog' = prog, NEW epfd \in Fds, NEW op \in CtlOps, NEW fd \in Fds, NEW ev \in Interests, sys_epoll_ctl(x, epfd, op, fd, ev)
    PROVE  IoInv'
<1> DEFINE c == [NoCall EXCEPT !.op = op, !.file = Epoll, !.fd = fd,
                              !.ev = IF op = "EPOLL_CTL_DEL" THEN {} ELSE ev]
<1>1. /\ CallInv /\ TableInv /\ call[x] \in Calls /\ GoodCall(call[x])
      /\ objects \in [Fds -> Files \cup {NoFile}]
  BY Zenon DEF IoInv, CallInv, TableInv
<1>0. ev \in SUBSET {"in", "out"} /\ ev # {}
  BY ZenonT(60), ProgramAssumption
<1>2. c \in Calls /\ c.op = op /\ c.file = Epoll /\ (op # "EPOLL_CTL_DEL" => c.ev = ev)
  BY ZenonT(60), <1>0, <1>1, NoCallOk, Kinds DEF Calls, Ops, Interest
<1>3. Set(x, c) /\ TableStep(Epoll) /\ Epoll \in Files
  BY Zenon, Kinds DEF TableStep, sys_epoll_ctl
<1>4. UNCHANGED <<ring, eof, events, evlock>> /\ panicked' \in BOOLEAN
  BY Zenon DEF IoInv, PipePart, EpollPart, sys_epoll_ctl
<1> HIDE DEF c
<1>5. GoodCall(c) /\ (c.op = "scan" => call[x].op = "scan" /\ c.todo \subseteq call[x].todo)
  BY Zenon, <1>0, <1>2 DEF GoodCall, CtlOps
<1>6. \A p \in Pipes : Epoll = WriteEnd(p) \/ c.file = WriteEnd(p) => Live(WriteEnd(p))
  BY Zenon, <1>2, Kinds
<1> QED
  BY ZenonT(60), <1>2, <1>3, <1>4, <1>5, <1>6, Ordinary

\* epoll_wait looks its descriptor up.
LEMMA SysWaitInv ==
    ASSUME IoInv, NEW x \in Procs, prog' = prog, NEW epfd \in Fds, NEW timed \in {"never", "running"}, sys_epoll_wait(x, epfd, timed)
    PROVE  IoInv'
<1> DEFINE c == [NoCall EXCEPT !.op = "epoll", !.file = Epoll, !.timed = timed]
<1>1. /\ CallInv /\ TableInv /\ call[x] \in Calls /\ GoodCall(call[x])
      /\ objects \in [Fds -> Files \cup {NoFile}]
  BY Zenon DEF IoInv, CallInv, TableInv
<1>2. c \in Calls /\ c.op = "epoll" /\ c.file = Epoll
  BY ZenonT(60), <1>1, NoCallOk, Kinds DEF Calls, Ops
<1>3. Set(x, c) /\ TableStep(Epoll) /\ Epoll \in Files
  BY Zenon, Kinds DEF TableStep, sys_epoll_wait
<1>4. UNCHANGED <<ring, eof, events, evlock>> /\ panicked' \in BOOLEAN
  BY Zenon DEF IoInv, PipePart, EpollPart, sys_epoll_wait
<1> HIDE DEF c
<1>5. GoodCall(c) /\ (c.op = "scan" => call[x].op = "scan" /\ c.todo \subseteq call[x].todo)
  BY ZenonT(60), <1>1, <1>2 DEF GoodCall, CtlOps
<1>6. \A p \in Pipes : Epoll = WriteEnd(p) \/ c.file = WriteEnd(p) => Live(WriteEnd(p))
  BY ZenonT(60), <1>2, Kinds
<1> QED
  BY Zenon, <1>2, <1>3, <1>4, <1>5, <1>6, Ordinary

\* poll and select start with the descriptors they are given.
LEMMA SysPollInv ==
    ASSUME IoInv, NEW x \in Procs, prog' = prog, NEW fds \in PollSets, NEW timed \in {"never", "running"}, sys_poll(x, fds, timed)
    PROVE  IoInv'
<1> DEFINE c == [NoCall EXCEPT !.op = "poll", !.want = fds, !.todo = fds, !.timed = timed]
<1>1. /\ CallInv /\ TableInv /\ call[x] \in Calls /\ GoodCall(call[x])
      /\ objects \in [Fds -> Files \cup {NoFile}]
  BY Zenon DEF IoInv, CallInv, TableInv
<1>0. fds \in SUBSET Fds
  BY ZenonT(60), ProgramAssumption
<1>2. c \in Calls /\ c.op = "poll" /\ c.file = NoFile
  BY ZenonT(60), <1>0, <1>1, NoCallOk DEF Calls, Ops
<1>3. Set(x, c) /\ TableStep(Epoll) /\ Epoll \in Files
  BY ZenonT(60), Kinds DEF TableStep, sys_poll
<1>4. UNCHANGED <<ring, eof, events, evlock>> /\ panicked' \in BOOLEAN
  BY Zenon DEF IoInv, PipePart, EpollPart, sys_poll
<1> HIDE DEF c
<1>5. GoodCall(c) /\ (c.op = "scan" => call[x].op = "scan" /\ c.todo \subseteq call[x].todo)
  BY ZenonT(60), <1>1, <1>2 DEF GoodCall, CtlOps
<1>6. \A p \in Pipes : Epoll = WriteEnd(p) \/ c.file = WriteEnd(p) => Live(WriteEnd(p))
  BY ZenonT(60), <1>2, Kinds
<1> QED
  BY ZenonT(60), <1>2, <1>3, <1>4, <1>5, <1>6, Ordinary

\* The deadline of a wait passes.
LEMMA DeadlineInv ==
    ASSUME IoInv, NEW x \in Procs, prog' = prog, deadline_passes(x)
    PROVE  IoInv'
<1> DEFINE c == [call[x] EXCEPT !.timed = "passed"]
<1>1. /\ CallInv /\ TableInv /\ call[x] \in Calls /\ GoodCall(call[x])
      /\ objects \in [Fds -> Files \cup {NoFile}]
  BY Zenon DEF IoInv, CallInv, TableInv
<1>2. c \in Calls /\ c.op = call[x].op /\ c.file = call[x].file /\ c.ev = call[x].ev /\ c.todo = call[x].todo
  BY Zenon, <1>1 DEF Calls
<1>3. Set(x, c) /\ TableStep(Epoll) /\ Epoll \in Files
  BY Zenon, Kinds DEF TableStep, deadline_passes
<1>4. UNCHANGED <<ring, eof, events, evlock>> /\ panicked' \in BOOLEAN
  BY Zenon DEF IoInv, PipePart, EpollPart, deadline_passes
<1> HIDE DEF c
<1>5. GoodCall(c) /\ (c.op = "scan" => call[x].op = "scan" /\ c.todo \subseteq call[x].todo)
  BY ZenonT(60), <1>1, <1>2 DEF GoodCall
<1>6. \A p \in Pipes : Epoll = WriteEnd(p) \/ c.file = WriteEnd(p) => Live(WriteEnd(p))
  BY ZenonT(60), <1>2, Kinds DEF Live, Held
<1> QED
  BY ZenonT(60), <1>2, <1>3, <1>4, <1>5, <1>6, Ordinary

-----------------------------------------------------------------------------
(* poll, select and epoll.                                                 *)

\* Events are finitely many.
LEMMA EventsFinite ==
    ASSUME NEW S \in SUBSET {"in", "out"} PROVE Cardinality(S) \in Nat
<1>1. IsFiniteSet({"in"} \cup {"out"})
  BY Zenon, FS_Singleton, FS_AddElement
<1>2. {"in"} \cup {"out"} = {"in", "out"}
  BY Zenon
<1>3. IsFiniteSet(S)
  BY ZenonT(60), <1>1, <1>2, FS_Subset
<1> QED
  BY ZenonT(60), <1>3, FS_CardinalityType

\* The next descriptor of a scan.
LEMMA NextTodo ==
    ASSUME NEW c \in Calls, c.todo # {} PROVE Min(c.todo) \in c.todo /\ Min(c.todo) \in Fds
<1>1. c.todo \in SUBSET Nat /\ c.todo \subseteq Fds
  BY FdAssumption DEF Calls, Fds
<1> QED
  BY ZenonT(60), <1>1, MinFacts

\* poll and select, one descriptor
LEMMA PollFdInv ==
    ASSUME IoInv, NEW x \in Procs, prog' = prog, sys_poll_fd(x)
    PROVE  IoInv'
<1> DEFINE fd == Min(call[x].todo)
           k == Cardinality(poll(objects[fd]))
           d == [call[x] EXCEPT !.todo = @ \ {fd}, !.n = @ + k]
           c == IF is_assigned(fd) THEN d ELSE NoCall
<1>1. CallInv /\ call[x] \in Calls /\ GoodCall(call[x]) /\ call[x].op = "poll"
  BY Zenon DEF IoInv, CallInv, sys_poll_fd, In
<1>2. k \in Nat
  BY Zenon, EventsFinite DEF poll
<1> HIDE DEF k, fd
<1>3. d \in Calls /\ d.op = "poll" /\ d.file = call[x].file
  <2>1. call[x].todo \ {fd} \in SUBSET Fds /\ call[x].n + k \in Nat
    BY <1>1, <1>2 DEF Calls
  <2> QED
    BY ZenonT(60), <1>1, <2>1 DEF Calls
<1>4. Set(x, c) /\ TableStep(Epoll) /\ Epoll \in Files
  BY Zenon, Kinds DEF TableStep, sys_poll_fd, Return, fd, k
<1>5. UNCHANGED <<ring, eof, events, evlock>> /\ panicked' \in BOOLEAN
  BY Zenon DEF IoInv, PipePart, EpollPart, sys_poll_fd
<1> HIDE DEF d
<1>6. c \in Calls /\ GoodCall(c) /\ c.op # "scan"
  BY Zenon, <1>1, <1>3, NoCallOk DEF GoodCall, CtlOps
<1>7. \A p \in Pipes : Epoll = WriteEnd(p) \/ c.file = WriteEnd(p) => Live(WriteEnd(p))
  BY ZenonT(60), <1>3, NoCallOk, Kinds DEF Live, Held
<1> HIDE DEF c
<1> QED
  BY Zenon, <1>4, <1>5, <1>6, <1>7, Ordinary

\* poll and select, the end of a round
LEMMA PollEndInv ==
    ASSUME IoInv, NEW x \in Procs, prog' = prog, sys_poll_end(x)
    PROVE  IoInv'
<1> DEFINE d == [call[x] EXCEPT !.todo = call[x].want]
           c == IF call[x].n > 0 \/ call[x].timed = "passed" THEN NoCall ELSE d
<1>1. CallInv /\ call[x] \in Calls /\ GoodCall(call[x]) /\ call[x].op = "poll"
  BY ZenonT(60) DEF IoInv, CallInv, sys_poll_end, In
<1>3. d \in Calls /\ d.op = "poll" /\ d.file = call[x].file
  BY ZenonT(60), <1>1 DEF Calls
<1>4. Set(x, c) /\ TableStep(Epoll) /\ Epoll \in Files
  BY ZenonT(60), Kinds DEF TableStep, sys_poll_end, Return
<1>5. UNCHANGED <<ring, eof, events, evlock>> /\ panicked' \in BOOLEAN
  BY ZenonT(60) DEF IoInv, PipePart, EpollPart, sys_poll_end
<1> HIDE DEF d
<1>6. c \in Calls /\ GoodCall(c) /\ c.op # "scan"
  BY ZenonT(60), <1>1, <1>3, NoCallOk DEF GoodCall, CtlOps
<1>7. \A p \in Pipes : Epoll = WriteEnd(p) \/ c.file = WriteEnd(p) => Live(WriteEnd(p))
  BY ZenonT(60), <1>3, NoCallOk, Kinds DEF Live, Held
<1> HIDE DEF c
<1> QED
  BY Zenon, <1>4, <1>5, <1>6, <1>7, Ordinary

-----------------------------------------------------------------------------
(* Steps that touch the map of the epoll instance or its mutex.            *)

\* Steps that leave the pipes alone, given what they do to the map.
LEMMA MapStep ==
    ASSUME IoInv, NEW x \in Procs, NEW c \in Calls, GoodCall(c), Set(x, c),
           TableStep(Epoll),
           \A p \in Pipes : c.file = WriteEnd(p) => Live(WriteEnd(p)),
           ScanInv', ring' = ring, eof' = eof, panicked' \in BOOLEAN, prog' = prog
    PROVE  IoInv'
<1>1. /\ TableInv /\ RingInv /\ CallInv /\ EofInv
      /\ panicked \in BOOLEAN /\ prog \in Programs
  BY ZenonT(60) DEF IoInv
<1>2. TableInv'
  BY ZenonT(60), <1>1, TableStepInv, Kinds
<1>3. RingInv'
  BY ZenonT(60), <1>1 DEF RingInv
<1>4. CallInv'
  BY ZenonT(60), <1>1, SetInv
<1>5. EofInv'
  <2>1. \A p \in eof : available_read(ring'[p]) = 0
    BY ZenonT(60), <1>1 DEF EofInv, EofIsFinal
  <2>2. \A p \in Pipes : Epoll = WriteEnd(p) \/ c.file = WriteEnd(p) => Live(WriteEnd(p))
    BY ZenonT(60), Kinds
  <2> QED
    BY ZenonT(60), <1>1, <2>1, <2>2, EofKept
<1> QED
  BY ZenonT(60), <1>1, <1>2, <1>3, <1>4, <1>5 DEF IoInv

\* epoll_create: nobody scans, for a scan holds the instance.
LEMMA CreateInv ==
    ASSUME IoInv, NEW x \in Procs, prog' = prog, sys_epoll_create(x)
    PROVE  IoInv'
<1>1. CallInv /\ ScanInv /\ call[x] \in Calls /\ GoodCall(call[x])
  BY ZenonT(60) DEF IoInv, CallInv
<1>2. ASSUME NEW y \in Procs PROVE call[y].op # "scan"
  <2>1. GoodCall(call[y])
    BY ZenonT(60), <1>1 DEF CallInv
  <2>2. call[y].file # Epoll
    BY ZenonT(60) DEF sys_epoll_create, Live, Held
  <2> QED
    BY ZenonT(60), <2>1, <2>2 DEF GoodCall
<1>3. Set(x, call[x]) /\ TableStep(Epoll)
  BY ZenonT(60), <1>1, SetSame, FirstFree DEF sys_epoll_create, TableStep
<1>4. events' \in [Fds -> Interest] /\ evlock' = evlock
  BY ZenonT(60) DEF sys_epoll_create, Interest
<1>5. ScanInv'
  <2>1. call[x].op # "scan" /\ \A y \in Procs : y # x => call[y].op # "scan"
    BY ZenonT(60), <1>2
  <2> QED
    BY ZenonT(60), <1>1, <1>3, <1>4, <2>1, ScanFree
<1>6. ring' = ring /\ eof' = eof /\ panicked' \in BOOLEAN
  BY ZenonT(60) DEF sys_epoll_create, PipePart, IoInv
<1>7. \A p \in Pipes : call[x].file = WriteEnd(p) => Live(WriteEnd(p))
  BY ZenonT(60) DEF Live, Held
<1> QED
  BY ZenonT(60), <1>1, <1>3, <1>5, <1>6, <1>7, MapStep

\* epoll_ctl, the update of the map
LEMMA ControlInv ==
    ASSUME IoInv, NEW x \in Procs, prog' = prog, control(x)
    PROVE  IoInv'
<1>1. CallInv /\ ScanInv /\ call[x] \in Calls /\ evlock = None
  BY ZenonT(60) DEF IoInv, CallInv, control
<1>2. Set(x, NoCall) /\ TableStep(Epoll)
  BY ZenonT(60) DEF control, Return, TableStep
<1>3. events' \in [Fds -> Interest] /\ evlock' = evlock
  <2>1. events \in [Fds -> Interest] /\ call[x].ev \in Interest
    BY ZenonT(60), <1>1 DEF ScanInv, Calls
  <2> QED
    BY ZenonT(60), <2>1 DEF control
<1>4. ScanInv'
  <2>1. \A y \in Procs : y # x => call[y].op # "scan"
    BY ZenonT(60), <1>1, OneScan
  <2> QED
    BY ZenonT(60), <1>1, <1>2, <1>3, <2>1, NoCallOk, ScanFree
<1>5. ring' = ring /\ eof' = eof /\ panicked' \in BOOLEAN
  BY ZenonT(60) DEF control, PipePart, IoInv
<1> QED
  BY ZenonT(60), <1>2, <1>4, <1>5, NoCallOk, Kinds, MapStep

\* epoll_wait, the clean up after EBADF
LEMMA CleanInv ==
    ASSUME IoInv, NEW x \in Procs, prog' = prog, epoll_clean(x)
    PROVE  IoInv'
<1>1. CallInv /\ ScanInv /\ evlock = None
  BY ZenonT(60) DEF IoInv, epoll_clean
<1>2. Set(x, NoCall) /\ TableStep(Epoll)
  BY ZenonT(60) DEF epoll_clean, Return, TableStep
<1>3. events' \in [Fds -> Interest] /\ evlock' = evlock
  <2>1. events \in [Fds -> Interest]
    BY ZenonT(60), <1>1 DEF ScanInv
  <2> QED
    BY ZenonT(60), <2>1 DEF epoll_clean, Interest
<1>4. ScanInv'
  <2>1. \A y \in Procs : y # x => call[y].op # "scan"
    BY ZenonT(60), <1>1, OneScan
  <2> QED
    BY ZenonT(60), <1>1, <1>2, <1>3, <2>1, NoCallOk, ScanFree
<1>5. ring' = ring /\ eof' = eof /\ panicked' \in BOOLEAN
  BY ZenonT(60) DEF epoll_clean, PipePart, IoInv
<1> QED
  BY Zenon, <1>2, <1>4, <1>5, NoCallOk, Kinds, MapStep

\* epoll_wait, the lock of the map
LEMMA PollAllInv ==
    ASSUME IoInv, NEW x \in Procs, prog' = prog, poll_all(x)
    PROVE  IoInv'
<1> DEFINE c == [call[x] EXCEPT !.op = "scan", !.todo = {fd \in Fds : events[fd] # {}}]
<1>1. /\ CallInv /\ ScanInv /\ call[x] \in Calls /\ evlock = None
      /\ call[x].op = "epoll" /\ GoodCall(call[x])
  BY ZenonT(60) DEF IoInv, CallInv, poll_all, In
<1>2. /\ c \in Calls /\ c.op = "scan" /\ c.todo = {fd \in Fds : events[fd] # {}}
      /\ c.file = call[x].file
  BY ZenonT(60), <1>1 DEF Calls, Ops
<1>3. Set(x, c) /\ TableStep(Epoll) /\ evlock' = x /\ events' = events
  BY ZenonT(60) DEF poll_all, TableStep
<1>4. ring' = ring /\ eof' = eof /\ panicked' \in BOOLEAN
  BY ZenonT(60) DEF poll_all, PipePart, IoInv
<1> HIDE DEF c
<1>5. c.file = Epoll /\ GoodCall(c)
  BY ZenonT(60), <1>1, <1>2 DEF GoodCall, CtlOps
<1>6. ScanInv'
  <2>1. call'[x] = c /\ \A y \in Procs : y # x => call'[y] = call[y]
    BY ZenonT(60), <1>1, <1>2, <1>3, SetAt
  <2>2. \A y \in Procs : y # x => call[y].op # "scan"
    BY ZenonT(60), <1>1, OneScan
  <2>3. \A y \in Procs : call'[y].op = "scan" => y = x
    BY ZenonT(60), <2>1, <2>2
  <2>4. \A fd \in call'[x].todo : events[fd] # {}
    BY ZenonT(60), <1>2, <2>1
  <2>5. events \in [Fds -> Interest]
    BY ZenonT(60), <1>1 DEF ScanInv
  <2> QED
    BY ZenonT(60), <1>3, <2>3, <2>4, <2>5 DEF ScanInv, ScanSeesMap
<1> QED
  BY ZenonT(60), <1>2, <1>3, <1>4, <1>5, <1>6, Kinds, MapStep

\* epoll_wait, the end of a scan
LEMMA PollAllEndInv ==
    ASSUME IoInv, NEW x \in Procs, prog' = prog, poll_all_end(x)
    PROVE  IoInv'
<1> DEFINE d == [call[x] EXCEPT !.op = "epoll"]
           c == IF call[x].n > 0 \/ call[x].timed = "passed" THEN NoCall ELSE d
<1>1. /\ CallInv /\ ScanInv /\ call[x] \in Calls /\ call[x].op = "scan" /\ GoodCall(call[x])
  BY ZenonT(60) DEF IoInv, CallInv, poll_all_end, In
<1>2. evlock = x
  BY ZenonT(60), <1>1 DEF ScanInv
<1>3. d \in Calls /\ d.op = "epoll" /\ d.file = call[x].file
  BY ZenonT(60), <1>1 DEF Calls, Ops
<1>4. Set(x, c) /\ TableStep(Epoll) /\ evlock' = None /\ events' = events
  BY ZenonT(60) DEF poll_all_end, TableStep, Return
<1>5. ring' = ring /\ eof' = eof /\ panicked' \in BOOLEAN
  BY ZenonT(60) DEF poll_all_end, PipePart, IoInv
<1> HIDE DEF d
<1>6. call[x].file = Epoll
  BY ZenonT(60), <1>1 DEF GoodCall
<1>7. c \in Calls /\ GoodCall(c) /\ c.op # "scan" /\ (c.file = Epoll \/ c.file = NoFile)
  BY ZenonT(60), <1>3, <1>6, NoCallOk DEF GoodCall, CtlOps
<1> HIDE DEF c
<1>8. ScanInv'
  <2>1. \A y \in Procs : y # x => call[y].op # "scan"
    BY ZenonT(60), <1>1, <1>2, OneScan
  <2>2. events' \in [Fds -> Interest]
    BY ZenonT(60), <1>1, <1>4 DEF ScanInv
  <2> QED
    BY ZenonT(60), <1>1, <1>4, <1>7, <2>1, <2>2, ScanFree
<1> QED
  BY ZenonT(60), <1>4, <1>5, <1>7, <1>8, Kinds, MapStep

\* epoll_wait, one descriptor of a scan
LEMMA PollAllFdInv ==
    ASSUME IoInv, NEW x \in Procs, prog' = prog, poll_all_fd(x)
    PROVE  IoInv'
<1> DEFINE fd == Min(call[x].todo)
           k == Cardinality(events[fd] \cap poll(objects[fd]))
           m == call[x].n + k
           c == [call[x] EXCEPT !.todo = @ \ {fd}, !.n = m]
           d == [call[x] EXCEPT !.op = "clean", !.todo = {}, !.n = 0]
<1>1. /\ CallInv /\ ScanInv /\ call[x] \in Calls /\ call[x].op = "scan" /\ GoodCall(call[x])
  BY ZenonT(60) DEF IoInv, CallInv, poll_all_fd, In
<1>2. evlock = x /\ call[x].file = Epoll
  BY ZenonT(60), <1>1 DEF ScanInv, GoodCall
<1>3. k \in Nat
  BY ZenonT(60), EventsFinite DEF poll
<1>4. ring' = ring /\ eof' = eof /\ events' = events /\ TableStep(Epoll)
  BY ZenonT(60) DEF poll_all_fd, PipePart, TableStep
<1>5. is_assigned(fd) => Set(x, c) /\ evlock' = evlock /\ panicked' \in BOOLEAN
  BY DEF poll_all_fd
<1>6. ~ is_assigned(fd) => Set(x, d) /\ evlock' = None /\ panicked' = panicked
  BY ZenonT(60) DEF poll_all_fd
<1> HIDE DEF k, fd
<1>7. /\ c \in Calls /\ c.op = "scan" /\ c.file = call[x].file
      /\ c.todo = call[x].todo \ {fd}
  <2>1. call[x].todo \ {fd} \in SUBSET Fds /\ m \in Nat
    BY SMTT(60), <1>1, <1>3 DEF Calls
  <2> HIDE DEF m
  <2> QED
    BY ZenonT(60), <1>1, <2>1 DEF Calls
<1>8. d \in Calls /\ d.op = "clean" /\ d.file = call[x].file
  BY ZenonT(60), <1>1 DEF Calls, Ops
<1> HIDE DEF c, d, m
<1>9. GoodCall(c) /\ GoodCall(d)
  BY Zenon, <1>2, <1>7, <1>8 DEF GoodCall, CtlOps
<1>10. CASE is_assigned(fd)
  <2>1. ScanInv'
    BY Zenon, <1>1, <1>4, <1>5, <1>7, <1>10, ScanKept
  <2> QED
    BY Zenon, <1>2, <1>4, <1>5, <1>7, <1>9, <1>10, <2>1, Kinds, MapStep
<1>11. CASE ~ is_assigned(fd)
  <2>1. \A y \in Procs : y # x => call[y].op # "scan"
    BY ZenonT(60), <1>1, <1>2, OneScan
  <2>2. events' \in [Fds -> Interest] /\ d.op # "scan"
    BY ZenonT(60), <1>1, <1>4, <1>8 DEF ScanInv
  <2>3. ScanInv'
    BY ZenonT(60), <1>1, <1>6, <1>8, <1>11, <2>1, <2>2, ScanFree
  <2>4. panicked' \in BOOLEAN
    BY ZenonT(60), <1>6, <1>11 DEF IoInv
  <2> QED
    BY ZenonT(60), <1>2, <1>4, <1>6, <1>8, <1>9, <1>11, <2>3, <2>4, Kinds, MapStep
<1> QED
  BY ZenonT(60), <1>10, <1>11

-----------------------------------------------------------------------------
(* The ring buffer.                                                        *)

\* Queues, for the induction over positions.
V == INSTANCE VecDeque

\* A position that is at most once around the buffer.
Wrap(i) == IF i < RING_BUFFER_SIZE THEN i ELSE i - RING_BUFFER_SIZE

\* Positions modulo the size, without the modulus.
LEMMA Modulo ==
    ASSUME NEW i \in Nat, i < RING_BUFFER_SIZE + RING_BUFFER_SIZE
    PROVE  i % RING_BUFFER_SIZE = Wrap(i)
  <1> USE DEF Wrap
  <1> DEFINE N == RING_BUFFER_SIZE
  <1>1. N \in Nat \ {0}
    BY ZenonT(60), SizeAssumption
  <1>2. CASE i < N
    BY <1>1, <1>2
  <1>3. CASE i >= N
    <2>1. i = N * 1 + (i - N) /\ i - N \in 0..(N - 1)
      BY <1>1, <1>3
    <2>2. i % N = i - N
      BY SMTT(60), <1>1, <2>1
    <2> QED
      BY SMTT(60), <1>1, <1>3, <2>2
  <1> QED
    BY <1>1, <1>2, <1>3

\* The next position, without the modulus.
LEMMA NextFacts ==
    ASSUME NEW i \in Positions
    PROVE  /\ NextPosition(i) \in Positions
           /\ NextPosition(i) = IF i = RING_BUFFER_SIZE - 1 THEN 0 ELSE i + 1
  <1>1. i + 1 \in Nat /\ i + 1 < RING_BUFFER_SIZE + RING_BUFFER_SIZE
    BY SMTT(60), SizeAssumption DEF Positions
  <1>2. (i + 1) % RING_BUFFER_SIZE = Wrap(i + 1)
    BY ZenonT(60), <1>1, Modulo
  <1> QED
    BY <1>2, SizeAssumption DEF Positions, NextPosition, Wrap

\* The number of bytes by the four shapes a buffer can have.
LEMMA ReadCount ==
    ASSUME NEW rb \in PipeRingBuffer, RingOK(rb)
    PROVE  /\ rb.head \in Positions /\ rb.tail \in Positions
           /\ rb.status = "Empty" => rb.head = rb.tail /\ available_read(rb) = 0
           /\ rb.status = "Full" => rb.head = rb.tail /\ available_read(rb) = RING_BUFFER_SIZE
           /\ rb.status = "Normal" /\ rb.tail > rb.head => available_read(rb) = rb.tail - rb.head
           /\ rb.status = "Normal" /\ ~(rb.tail > rb.head) =>
                 /\ rb.tail < rb.head
                 /\ available_read(rb) = rb.tail + RING_BUFFER_SIZE - rb.head
           /\ rb.status \in {"Empty", "Full", "Normal"}
  <1>1. /\ rb.head \in Positions /\ rb.tail \in Positions
        /\ rb.status \in {"Empty", "Full", "Normal"}
    BY ZenonT(60) DEF PipeRingBuffer, RingBufferStatus
  <1>2. rb.head \in Nat /\ rb.tail \in Nat
    BY SMTT(60), <1>1 DEF Positions
  <1>3. CASE rb.status = "Empty"
    BY ZenonT(60), <1>1, <1>2, <1>3 DEF RingOK, available_read
  <1>4. CASE rb.status = "Full"
    <2>1. rb.head = rb.tail
      BY ZenonT(60), <1>4 DEF RingOK
    <2>2. available_read(rb) = rb.tail + RING_BUFFER_SIZE - rb.head
      BY SMTT(60), <1>2, <1>4, <2>1 DEF available_read
    <2> QED
      BY SMTT(60), <1>1, <1>2, <1>4, <2>1, <2>2, SizeAssumption
  <1>5. CASE rb.status = "Normal"
    <2>1. rb.head # rb.tail
      BY ZenonT(60), <1>5 DEF RingOK
    <2> QED
      BY SMTT(60), <1>1, <1>2, <1>5, <2>1 DEF available_read
  <1> QED
    BY ZenonT(60), <1>1, <1>3, <1>4, <1>5

\* The two counts are within the size and add up to it.
THEOREM AvailableFacts ==
    ASSUME NEW rb \in PipeRingBuffer, RingOK(rb)
    PROVE  /\ available_read(rb) \in 0..RING_BUFFER_SIZE
           /\ available_write(rb) \in 0..RING_BUFFER_SIZE
           /\ available_read(rb) + available_write(rb) = RING_BUFFER_SIZE
           /\ available_read(rb) = 0 <=> rb.status = "Empty"
           /\ available_write(rb) = 0 <=> rb.status = "Full"
  <1>1. available_read(rb) \in 0..RING_BUFFER_SIZE
    BY SMTT(60), ReadCount, SizeAssumption DEF Positions
  <1>2. available_read(rb) = 0 <=> rb.status = "Empty"
    BY SMTT(60), ReadCount, SizeAssumption DEF Positions
  <1>3. available_read(rb) = RING_BUFFER_SIZE <=> rb.status = "Full"
    BY SMTT(60), ReadCount, SizeAssumption DEF Positions
  <1> QED
    BY SMTT(60), <1>1, <1>2, <1>3, SizeAssumption DEF available_write

\* Where the i-th byte of the buffer is.
LEMMA ContentsAt ==
    ASSUME NEW rb \in PipeRingBuffer, RingOK(rb), NEW i \in 1..available_read(rb)
    PROVE  Contents(rb)[i] = rb.arr[Wrap(rb.head + i - 1)]
  <1>1. available_read(rb) \in 0..RING_BUFFER_SIZE /\ rb.head \in Positions
    BY ZenonT(60), AvailableFacts DEF PipeRingBuffer
  <1>2. rb.head + i - 1 \in Nat /\ rb.head + i - 1 < RING_BUFFER_SIZE + RING_BUFFER_SIZE
    BY <1>1, SizeAssumption DEF Positions
  <1>3. Contents(rb)[i] = rb.arr[(rb.head + i - 1) % RING_BUFFER_SIZE]
    BY ZenonT(60) DEF Contents
  <1> QED
    BY ZenonT(60), <1>2, <1>3, Modulo

\* write_byte on a buffer that is not full leaves a proper buffer with one byte
\* more.
LEMMA WriteShape ==
    ASSUME NEW rb \in PipeRingBuffer, RingOK(rb), available_write(rb) # 0,
           NEW byte \in Bytes
    PROVE  LET new == write_byte(rb, byte)
           IN  /\ new \in PipeRingBuffer
               /\ RingOK(new)
               /\ new.head = rb.head
               /\ new.arr = [rb.arr EXCEPT ![rb.tail] = byte]
               /\ available_read(new) = available_read(rb) + 1
  <1> DEFINE new == write_byte(rb, byte)
             nt == NextPosition(rb.tail)
  <1>1. /\ rb.head \in Positions /\ rb.tail \in Positions
        /\ rb.arr \in [Positions -> Bytes] /\ rb.status \in RingBufferStatus
    BY ZenonT(60) DEF PipeRingBuffer
  <1>2. nt \in Positions /\ nt = IF rb.tail = RING_BUFFER_SIZE - 1 THEN 0 ELSE rb.tail + 1
    BY ZenonT(60), <1>1, NextFacts
  <1>3. new = [arr |-> [rb.arr EXCEPT ![rb.tail] = byte], head |-> rb.head, tail |-> nt,
               status |-> IF nt = rb.head THEN "Full" ELSE "Normal"]
    BY ZenonT(60) DEF write_byte
  <1>4. rb.status # "Full"
    BY ZenonT(60), AvailableFacts
  <1> HIDE DEF nt, new
  <1>5. new \in PipeRingBuffer
    BY ZenonT(60), <1>1, <1>2, <1>3 DEF PipeRingBuffer, RingBufferStatus
  <1>6. RingOK(new)
    BY ZenonT(60), <1>3 DEF RingOK
  <1>7. available_read(new) = available_read(rb) + 1
    <2>1. /\ new.head = rb.head /\ new.tail = nt
          /\ new.status = IF nt = rb.head THEN "Full" ELSE "Normal"
      BY ZenonT(60), <1>3
    <2>2. CASE nt = rb.head
      <3>1. available_read(new) = RING_BUFFER_SIZE
        BY ZenonT(60), <1>5, <1>6, <2>1, <2>2, ReadCount
      <3>2. available_read(rb) = RING_BUFFER_SIZE - 1
        BY SMTT(60), <1>2, <1>4, <2>2, ReadCount, SizeAssumption DEF Positions
      <3> QED
        BY SMTT(60), <3>1, <3>2, SizeAssumption
    <2>3. CASE nt # rb.head
      <3>1. new.status = "Normal"
        BY ZenonT(60), <2>1, <2>3
      <3>2. CASE rb.status = "Empty"
        BY SMTT(60), <1>2, <1>5, <1>6, <2>1, <2>3, <3>1, <3>2, ReadCount, SizeAssumption DEF Positions
      <3>3. CASE rb.status = "Normal"
        BY SMTT(60), <1>2, <1>5, <1>6, <2>1, <2>3, <3>1, <3>3, ReadCount, SizeAssumption DEF Positions
      <3> QED
        BY ZenonT(60), <1>1, <1>4, <3>2, <3>3 DEF RingBufferStatus
    <2> QED
      BY ZenonT(60), <2>2, <2>3
  <1> QED
    BY SMTT(60), <1>3, <1>5, <1>6, <1>7 DEF new

\* write_byte appends its byte to the contents, whatever the size of the buffer
\* and wherever head and tail are.
THEOREM WriteByteAppends ==
    ASSUME NEW rb \in PipeRingBuffer, RingOK(rb), available_write(rb) # 0,
           NEW byte \in Bytes
    PROVE  LET new == write_byte(rb, byte)
           IN  /\ new \in PipeRingBuffer
               /\ RingOK(new)
               /\ Len(Contents(new)) = Len(Contents(rb)) + 1
               /\ Contents(new)[Len(Contents(new))] = byte
               /\ \A i \in 1..Len(Contents(rb)) : Contents(new)[i] = Contents(rb)[i]
  <1> DEFINE new == write_byte(rb, byte)
             k == available_read(rb)
             N == RING_BUFFER_SIZE
  <1>1. /\ new \in PipeRingBuffer /\ RingOK(new) /\ new.head = rb.head
        /\ new.arr = [rb.arr EXCEPT ![rb.tail] = byte]
        /\ available_read(new) = k + 1
    BY ZenonT(60), WriteShape
  <1>2. /\ rb.head \in Positions /\ rb.tail \in Positions
        /\ rb.arr \in [Positions -> Bytes] /\ rb.status \in RingBufferStatus
    BY Zenon DEF PipeRingBuffer
  <1>3. k \in 0..N /\ k < N
    BY SMTT(60), AvailableFacts, SizeAssumption
  <1>4. Len(Contents(rb)) = k /\ Len(Contents(new)) = k + 1
    BY SMTT(60), <1>1, <1>3 DEF Contents
  <1> HIDE DEF new
  <1>5. rb.tail = Wrap(rb.head + k)
    BY <1>2, <1>3, SizeAssumption DEF available_read, RingOK, Positions, RingBufferStatus, Wrap
  <1>6. \A i \in 1..(k + 1) :
           Contents(new)[i] = new.arr[Wrap(rb.head + i - 1)]
    BY Zenon, <1>1, ContentsAt
  <1>7. \A i \in 1..k :
           Contents(rb)[i] = rb.arr[Wrap(rb.head + i - 1)]
    BY Zenon, ContentsAt
  <1>8. Contents(new)[k + 1] = byte
    <2>1. rb.head + (k + 1) - 1 = rb.head + k /\ k + 1 \in 1..(k + 1)
      BY SMTT(60), <1>2, <1>3 DEF Positions
    <2>2. Contents(new)[k + 1] = new.arr[rb.tail]
      BY ZenonT(60), <1>5, <1>6, <2>1
    <2> QED
      BY ZenonT(60), <1>1, <1>2, <2>2
  <1>9. ASSUME NEW i \in 1..k PROVE Contents(new)[i] = Contents(rb)[i]
    <2> DEFINE p == Wrap(rb.head + i - 1)
    <2>1. p \in Positions /\ p # rb.tail
      BY SMTT(60), <1>2, <1>3, <1>5, SizeAssumption DEF Positions, Wrap
    <2>2. i \in 1..(k + 1)
      BY SMTT(60), <1>3
    <2>3. Contents(new)[i] = new.arr[p] /\ Contents(rb)[i] = rb.arr[p]
      BY ZenonT(60), <1>6, <1>7, <2>2
    <2> HIDE DEF p
    <2> QED
      BY ZenonT(60), <1>1, <1>2, <2>1, <2>3
  <1> QED
    BY ZenonT(60), <1>1, <1>3, <1>4, <1>8, <1>9 DEF new

\* read_byte returns the oldest byte and leaves the others in their order.
THEOREM ReadByteTakes ==
    ASSUME NEW rb \in PipeRingBuffer, RingOK(rb), available_read(rb) # 0
    PROVE  LET new == read_byte(rb)
           IN  /\ new \in PipeRingBuffer
               /\ RingOK(new)
               /\ rb.arr[rb.head] = Contents(rb)[1]
               /\ Len(Contents(new)) = Len(Contents(rb)) - 1
               /\ \A i \in 1..Len(Contents(new)) : Contents(new)[i] = Contents(rb)[i + 1]
  <1> DEFINE new == read_byte(rb)
             k == available_read(rb)
             N == RING_BUFFER_SIZE
             nh == NextPosition(rb.head)
  <1>1. /\ rb.head \in Positions /\ rb.tail \in Positions
        /\ rb.arr \in [Positions -> Bytes] /\ rb.status \in RingBufferStatus
    BY ZenonT(60) DEF PipeRingBuffer
  <1>2. nh \in Positions /\ nh = IF rb.head = N - 1 THEN 0 ELSE rb.head + 1
    BY ZenonT(60), <1>1, NextFacts
  <1>3. new = [arr |-> rb.arr, head |-> nh, tail |-> rb.tail,
               status |-> IF nh = rb.tail THEN "Empty" ELSE "Normal"]
    BY ZenonT(60) DEF read_byte
  <1>4. k \in 1..N /\ rb.status # "Empty"
    BY SMTT(60), AvailableFacts, SizeAssumption
  <1> HIDE DEF nh, new
  <1>5. new \in PipeRingBuffer /\ RingOK(new)
    BY ZenonT(60), <1>1, <1>2, <1>3 DEF PipeRingBuffer, RingBufferStatus, RingOK
  <1>6. available_read(new) = k - 1
    <2>1. /\ new.head = nh /\ new.tail = rb.tail
          /\ new.status = IF nh = rb.tail THEN "Empty" ELSE "Normal"
      BY ZenonT(60), <1>3
    <2>2. CASE nh = rb.tail
      <3>1. available_read(new) = 0
        BY ZenonT(60), <1>5, <2>1, <2>2, ReadCount
      <3>2. k = 1
        BY <1>2, <1>4, <2>2, ReadCount, SizeAssumption DEF Positions
      <3> QED
        BY SMTT(60), <3>1, <3>2
    <2>3. CASE nh # rb.tail
      <3>1. new.status = "Normal"
        BY ZenonT(60), <2>1, <2>3
      <3>2. CASE rb.status = "Full"
        BY SMTT(60), <1>2, <1>5, <2>1, <2>3, <3>1, <3>2, ReadCount, SizeAssumption DEF Positions
      <3>3. CASE rb.status = "Normal"
        BY SMTT(60), <1>2, <1>5, <2>1, <2>3, <3>1, <3>3, ReadCount, SizeAssumption DEF Positions
      <3> QED
        BY ZenonT(60), <1>1, <1>4, <3>2, <3>3 DEF RingBufferStatus
    <2> QED
      BY ZenonT(60), <2>2, <2>3
  <1>7. Len(Contents(rb)) = k /\ Len(Contents(new)) = k - 1
    BY SMTT(60), <1>4, <1>6 DEF Contents
  <1>8. rb.arr[rb.head] = Contents(rb)[1]
    <2>1. 1 \in 1..available_read(rb) /\ Wrap(rb.head + 1 - 1) = rb.head
      BY SMTT(60), <1>1, <1>4, SizeAssumption DEF Positions, Wrap
    <2> QED
      BY ZenonT(60), <2>1, ContentsAt
  <1>9. ASSUME NEW i \in 1..(k - 1) PROVE Contents(new)[i] = Contents(rb)[i + 1]
    <2>1. i \in 1..available_read(new) /\ i + 1 \in 1..available_read(rb)
      BY SMTT(60), <1>4, <1>6
    <2>2. Contents(new)[i] = new.arr[Wrap(nh + i - 1)]
      BY ZenonT(60), <1>3, <1>5, <2>1, ContentsAt
    <2>3. Contents(rb)[i + 1] = rb.arr[Wrap(rb.head + i)]
      <3>1. rb.head + (i + 1) - 1 = rb.head + i
        BY SMTT(60), <1>1, <1>4 DEF Positions
      <3> QED
        BY ZenonT(60), <2>1, <3>1, ContentsAt
    <2>4. Wrap(nh + i - 1) = Wrap(rb.head + i)
      <3>1. i \in Nat /\ 1 <= i /\ i < N
        BY SMTT(60), <1>4, SizeAssumption
      <3>2. rb.head \in Nat /\ rb.head < N
        BY SMTT(60), <1>1, SizeAssumption DEF Positions
      <3>3. CASE rb.head = N - 1
        BY SMTT(60), <1>2, <3>1, <3>3, SizeAssumption DEF Wrap
      <3>4. CASE rb.head # N - 1
        <4>1. nh + i - 1 = rb.head + i
          BY SMTT(60), <1>2, <3>1, <3>2, <3>4
        <4> QED
          BY ZenonT(60), <4>1
      <3> QED
        BY ZenonT(60), <3>3, <3>4
    <2> QED
      BY ZenonT(60), <1>3, <2>2, <2>3, <2>4
  <1> QED
    BY ZenonT(60), <1>5, <1>7, <1>8, <1>9 DEF new

\* How many bytes the contents have.
LEMMA ContentsLen ==
    ASSUME NEW rb \in PipeRingBuffer, RingOK(rb)
    PROVE  /\ available_read(rb) \in 0..RING_BUFFER_SIZE
           /\ Len(Contents(rb)) = available_read(rb)
  <1>1. available_read(rb) \in 0..RING_BUFFER_SIZE
    BY ZenonT(60), AvailableFacts
  <1> QED
    BY SMTT(60), <1>1, SizeAssumption DEF Contents

WriteAt(f, rb, byte, k) == IF k = 0 THEN rb ELSE write_byte(f[k - 1], byte)
IsWrite(f, rb, byte, n) == f = [k \in 0..n |-> WriteAt(f, rb, byte, k)]

\* The recursion of WriteBytes defines a function.
LEMMA WriteExists ==
    ASSUME NEW rb, NEW byte, NEW n \in Nat PROVE \E f : IsWrite(f, rb, byte, n)
<1> DEFINE Good == {m \in Nat : \E f : IsWrite(f, rb, byte, m)}
<1>1. 0 \in Good
  <2> DEFINE f == [k \in 0..0 |-> rb]
  <2>1. IsWrite(f, rb, byte, 0)
    BY SMTT(60) DEF IsWrite, WriteAt
  <2> QED
    BY ZenonT(60), <2>1
<1>2. ASSUME NEW m \in Good PROVE m + 1 \in Good
  <2>1. PICK f : IsWrite(f, rb, byte, m)
    BY ZenonT(60)
  <2>2. m \in Nat /\ \A k \in 0..m : f[k] = WriteAt(f, rb, byte, k)
    BY ZenonT(60), <2>1 DEF IsWrite
  <2> DEFINE g == [k \in 0..(m + 1) |-> IF k = m + 1 THEN WriteAt(f, rb, byte, m + 1) ELSE f[k]]
  <2>3. ASSUME NEW k \in 0..(m + 1) PROVE WriteAt(g, rb, byte, k) = WriteAt(f, rb, byte, k)
    <3>1. CASE k = 0
      BY ZenonT(60), <3>1 DEF WriteAt
    <3>2. CASE k # 0
      <4>1. g[k - 1] = f[k - 1]
        BY SMTT(60), <2>2, <3>2
      <4> QED
        BY SMTT(60), <4>1 DEF WriteAt
    <3> QED
      BY ZenonT(60), <3>1, <3>2
  <2>4. ASSUME NEW k \in 0..(m + 1) PROVE g[k] = WriteAt(g, rb, byte, k)
    BY SMTT(60), <2>2, <2>3
  <2>5. IsWrite(g, rb, byte, m + 1)
    BY ZenonT(60), <2>4 DEF IsWrite
  <2> QED
    BY <2>2, <2>5
<1>3. Good = Nat
  BY ZenonT(60), <1>1, <1>2, V!NatInSet
<1> QED
  BY ZenonT(60), <1>3

\* The recursion, step by step.
LEMMA WriteDef ==
    ASSUME NEW rb, NEW byte, NEW n \in Nat
    PROVE  \E f : /\ WriteBytes(rb, byte, n) = f[n]
                  /\ f[0] = rb
                  /\ \A k \in 1..n : f[k] = write_byte(f[k - 1], byte)
<1> DEFINE f == CHOOSE f : IsWrite(f, rb, byte, n)
<1>1. \E g : IsWrite(g, rb, byte, n)
  BY ZenonT(60), WriteExists
<1>2. IsWrite(f, rb, byte, n)
  BY ZenonT(60), <1>1
<1>3. WriteBytes(rb, byte, n) = f[n]
  BY ZenonT(60) DEF WriteBytes, IsWrite, WriteAt
<1> HIDE DEF f
<1>4. \A k \in 0..n : f[k] = WriteAt(f, rb, byte, k)
  BY ZenonT(60), <1>2 DEF IsWrite
<1>5. f[0] = rb /\ \A k \in 1..n : f[k] = write_byte(f[k - 1], byte)
  BY SMTT(60), <1>4 DEF WriteAt
<1> QED
  BY ZenonT(60), <1>3, <1>5

\* Pipe::write of n bytes for which there is room appends to the contents.
THEOREM WriteBytesAppend ==
    ASSUME NEW rb \in PipeRingBuffer, RingOK(rb), NEW byte \in Bytes,
           NEW n \in Nat, n <= available_write(rb)
    PROVE  LET new == WriteBytes(rb, byte, n)
           IN  /\ new \in PipeRingBuffer
               /\ RingOK(new)
               /\ available_read(new) = available_read(rb) + n
               /\ Appends(Contents(rb), Contents(new))
  <1>1. PICK f : /\ WriteBytes(rb, byte, n) = f[n]
                 /\ f[0] = rb
                 /\ \A k \in 1..n : f[k] = write_byte(f[k - 1], byte)
    BY SMTT(60), WriteDef
  <1> DEFINE Holds(k) == /\ f[k] \in PipeRingBuffer
                         /\ RingOK(f[k])
                         /\ available_read(f[k]) = available_read(rb) + k
                         /\ Appends(Contents(rb), Contents(f[k]))
             Good == {k \in Nat : k <= n => Holds(k)}
  <1>2. available_read(rb) \in 0..RING_BUFFER_SIZE /\ available_write(rb) \in 0..RING_BUFFER_SIZE
        /\ available_read(rb) + available_write(rb) = RING_BUFFER_SIZE
        /\ Len(Contents(rb)) = available_read(rb)
    BY Zenon, AvailableFacts, ContentsLen
  <1>3. 0 \in Good
    BY SMTT(60), <1>1, <1>2, SizeAssumption DEF Appends
  <1>4. ASSUME NEW k \in Good PROVE k + 1 \in Good
    <2>0. k \in Nat
      BY ZenonT(60)
    <2> SUFFICES ASSUME k + 1 <= n PROVE Holds(k + 1)
      BY SMTT(60), <2>0
    <2>1. Holds(k)
      BY SMTT(60), <2>0
    <2> DEFINE old == f[k]
               new == write_byte(old, byte)
    <2>2. f[k + 1] = new
      <3>1. k + 1 \in 1..n /\ (k + 1) - 1 = k
        BY SMTT(60), <2>0
      <3> QED
        BY ZenonT(60), <1>1, <3>1
    <2>3. available_write(old) # 0
      <3>1. available_read(old) + available_write(old) = RING_BUFFER_SIZE
            /\ available_write(old) \in 0..RING_BUFFER_SIZE
        BY ZenonT(60), <2>1, AvailableFacts
      <3> QED
        BY SMTT(60), <1>2, <2>0, <2>1, <3>1, SizeAssumption
    <2>4. /\ new \in PipeRingBuffer /\ RingOK(new)
          /\ Len(Contents(new)) = Len(Contents(old)) + 1
          /\ \A i \in 1..Len(Contents(old)) : Contents(new)[i] = Contents(old)[i]
      BY ZenonT(60), <2>1, <2>3, WriteByteAppends
    <2>5. Len(Contents(old)) = available_read(old) /\ Len(Contents(new)) = available_read(new)
      BY ZenonT(60), <2>1, <2>4, ContentsLen
    <2> HIDE DEF new, old
    <2>6. available_read(new) = available_read(rb) + (k + 1)
      BY SMTT(60), <1>2, <2>0, <2>1, <2>4, <2>5, SizeAssumption DEF old
    <2>7. Appends(Contents(rb), Contents(old))
      BY ZenonT(60), <2>1 DEF old
    <2>8. Appends(Contents(rb), Contents(new))
      <3>1. Len(Contents(old)) \in Nat /\ Len(Contents(rb)) \in Nat
        BY SMTT(60), <1>2, <2>0, <2>1, <2>5, SizeAssumption DEF old
      <3> QED
        BY SMTT(60), <2>4, <2>7, <3>1 DEF Appends
    <2> QED
      BY Zenon, <2>2, <2>4, <2>6, <2>8
  <1>5. Good = Nat
    BY ZenonT(60), <1>3, <1>4, V!NatInSet
  <1>6. Holds(n)
    BY SMTT(60), <1>5
  <1> QED
    BY ZenonT(60), <1>1, <1>6

ReadAt(f, rb, k) == IF k = 0 THEN rb ELSE read_byte(f[k - 1])
IsRead(f, rb, n) == f = [k \in 0..n |-> ReadAt(f, rb, k)]

\* The recursion of ReadBytes defines a function.
LEMMA ReadExists ==
    ASSUME NEW rb, NEW n \in Nat PROVE \E f : IsRead(f, rb, n)
<1> DEFINE Good == {m \in Nat : \E f : IsRead(f, rb, m)}
<1>1. 0 \in Good
  <2> DEFINE f == [k \in 0..0 |-> rb]
  <2>1. IsRead(f, rb, 0)
    BY SMTT(60) DEF IsRead, ReadAt
  <2> QED
    BY ZenonT(60), <2>1
<1>2. ASSUME NEW m \in Good PROVE m + 1 \in Good
  <2>1. PICK f : IsRead(f, rb, m)
    BY ZenonT(60)
  <2>2. m \in Nat /\ \A k \in 0..m : f[k] = ReadAt(f, rb, k)
    BY ZenonT(60), <2>1 DEF IsRead
  <2> DEFINE g == [k \in 0..(m + 1) |-> IF k = m + 1 THEN ReadAt(f, rb, m + 1) ELSE f[k]]
  <2>3. ASSUME NEW k \in 0..(m + 1) PROVE ReadAt(g, rb, k) = ReadAt(f, rb, k)
    <3>1. CASE k = 0
      BY ZenonT(60), <3>1 DEF ReadAt
    <3>2. CASE k # 0
      <4>1. g[k - 1] = f[k - 1]
        BY SMTT(60), <2>2, <3>2
      <4> QED
        BY SMTT(60), <4>1 DEF ReadAt
    <3> QED
      BY ZenonT(60), <3>1, <3>2
  <2>4. ASSUME NEW k \in 0..(m + 1) PROVE g[k] = ReadAt(g, rb, k)
    BY SMTT(60), <2>2, <2>3
  <2>5. IsRead(g, rb, m + 1)
    BY ZenonT(60), <2>4 DEF IsRead
  <2> QED
    BY SMTT(60), <2>2, <2>5
<1>3. Good = Nat
  BY ZenonT(60), <1>1, <1>2, V!NatInSet
<1> QED
  BY ZenonT(60), <1>3

\* The recursion, step by step.
LEMMA ReadDef ==
    ASSUME NEW rb, NEW n \in Nat
    PROVE  \E f : /\ ReadBytes(rb, n) = f[n]
                  /\ f[0] = rb
                  /\ \A k \in 1..n : f[k] = read_byte(f[k - 1])
<1> DEFINE f == CHOOSE f : IsRead(f, rb, n)
<1>1. \E g : IsRead(g, rb, n)
  BY ZenonT(60), ReadExists
<1>2. IsRead(f, rb, n)
  BY ZenonT(60), <1>1
<1>3. ReadBytes(rb, n) = f[n]
  BY ZenonT(60) DEF ReadBytes, IsRead, ReadAt
<1> HIDE DEF f
<1>4. \A k \in 0..n : f[k] = ReadAt(f, rb, k)
  BY ZenonT(60), <1>2 DEF IsRead
<1>5. f[0] = rb /\ \A k \in 1..n : f[k] = read_byte(f[k - 1])
  BY SMTT(60), <1>4 DEF ReadAt
<1> QED
  BY ZenonT(60), <1>3, <1>5

\* Pipe::read of n bytes that are there takes them from the front.
THEOREM ReadBytesTake ==
    ASSUME NEW rb \in PipeRingBuffer, RingOK(rb), NEW n \in Nat, n <= available_read(rb)
    PROVE  LET new == ReadBytes(rb, n)
           IN  /\ new \in PipeRingBuffer
               /\ RingOK(new)
               /\ available_read(new) = available_read(rb) - n
               /\ Takes(Contents(rb), Contents(new))
  <1>1. PICK f : /\ ReadBytes(rb, n) = f[n]
                 /\ f[0] = rb
                 /\ \A k \in 1..n : f[k] = read_byte(f[k - 1])
    BY SMTT(60), ReadDef
  <1> DEFINE Holds(k) == /\ f[k] \in PipeRingBuffer
                         /\ RingOK(f[k])
                         /\ available_read(f[k]) = available_read(rb) - k
                         /\ Takes(Contents(rb), Contents(f[k]))
             Good == {k \in Nat : k <= n => Holds(k)}
  <1>2. available_read(rb) \in 0..RING_BUFFER_SIZE /\ available_write(rb) \in 0..RING_BUFFER_SIZE
        /\ available_read(rb) + available_write(rb) = RING_BUFFER_SIZE
        /\ Len(Contents(rb)) = available_read(rb)
    BY Zenon, AvailableFacts, ContentsLen
  <1>3. 0 \in Good
    BY SMTT(60), <1>1, <1>2, SizeAssumption DEF Takes
  <1>4. ASSUME NEW k \in Good PROVE k + 1 \in Good
    <2>0. k \in Nat
      BY ZenonT(60)
    <2> SUFFICES ASSUME k + 1 <= n PROVE Holds(k + 1)
      BY SMTT(60), <2>0
    <2>1. Holds(k)
      BY SMTT(60), <2>0
    <2> DEFINE old == f[k]
               new == read_byte(old)
    <2>2. f[k + 1] = new
      <3>1. k + 1 \in 1..n /\ (k + 1) - 1 = k
        BY SMTT(60), <2>0
      <3> QED
        BY ZenonT(60), <1>1, <3>1
    <2>3. available_read(old) # 0
      BY SMTT(60), <1>2, <2>0, <2>1
    <2>4. /\ new \in PipeRingBuffer /\ RingOK(new)
          /\ Len(Contents(new)) = Len(Contents(old)) - 1
          /\ \A i \in 1..Len(Contents(new)) : Contents(new)[i] = Contents(old)[i + 1]
      BY ZenonT(60), <2>1, <2>3, ReadByteTakes
    <2>5. Len(Contents(old)) = available_read(old) /\ Len(Contents(new)) = available_read(new)
      BY ZenonT(60), <2>1, <2>4, ContentsLen
    <2> HIDE DEF new, old
    <2>6. available_read(new) = available_read(rb) - (k + 1)
      BY SMTT(60), <1>2, <2>0, <2>1, <2>4, <2>5, SizeAssumption DEF old
    <2>7. Takes(Contents(rb), Contents(old))
      BY ZenonT(60), <2>1 DEF old
    <2>8. Takes(Contents(rb), Contents(new))
      <3>1. Len(Contents(old)) \in Nat /\ Len(Contents(rb)) \in Nat
        BY SMTT(60), <1>2, <2>0, <2>1, <2>5, SizeAssumption DEF old
      <3> QED
        <4> DEFINE a == Len(Contents(rb))
                   b == Len(Contents(old))
                   c == Len(Contents(new))
        <4>1. a \in Nat /\ b \in Nat /\ c = b - 1 /\ b <= a
              /\ \A i \in 1..b : Contents(old)[i] = Contents(rb)[i + a - b]
          BY Zenon, <2>4, <2>7, <3>1 DEF Takes
        <4>2. ASSUME NEW i \in 1..c PROVE Contents(new)[i] = Contents(rb)[i + a - c]
          <5>1. i + 1 \in 1..b /\ (i + 1) + a - b = i + a - c
            BY SMTT(60), <4>1
          <5>2. Contents(new)[i] = Contents(old)[i + 1]
            BY ZenonT(60), <2>4
          <5>3. Contents(old)[i + 1] = Contents(rb)[(i + 1) + a - b]
            BY ZenonT(60), <4>1, <5>1
          <5> QED
            BY ZenonT(60), <5>1, <5>2, <5>3
        <4> QED
          BY SMTT(60), <4>1, <4>2 DEF Takes
    <2> QED
      BY Zenon, <2>2, <2>4, <2>6, <2>8
  <1>5. Good = Nat
    BY ZenonT(60), <1>3, <1>4, V!NatInSet
  <1>6. Holds(n)
    BY SMTT(60), <1>5
  <1> QED
    BY ZenonT(60), <1>1, <1>6

-----------------------------------------------------------------------------
(* Steps that touch a pipe's buffer.                                       *)

\* A new buffer is empty.
LEMMA NewRing ==
    /\ NewRingBuffer(ZeroByte) \in PipeRingBuffer
    /\ RingOK(NewRingBuffer(ZeroByte))
    /\ available_read(NewRingBuffer(ZeroByte)) = 0
<1>1. 0 \in Positions /\ ZeroByte \in Bytes
  BY SMTT(60), SizeAssumption, FileAssumption DEF Positions
<1> QED
  BY ZenonT(60), <1>1 DEF NewRingBuffer, PipeRingBuffer, RingBufferStatus, RingOK, available_read

\* A step that changes one buffer to a proper one.
LEMMA RingSet ==
    ASSUME RingInv, NEW p \in Pipes, NEW rb \in PipeRingBuffer, RingOK(rb),
           ring' = [ring EXCEPT ![p] = rb]
    PROVE  RingInv' /\ ring'[p] = rb /\ \A q \in Pipes : q # p => ring'[q] = ring[q]
<1>1. ring \in [Pipes -> PipeRingBuffer] /\ \A q \in Pipes : RingOK(ring[q])
  BY ZenonT(60) DEF RingInv
<1>2. /\ ring' \in [Pipes -> PipeRingBuffer]
      /\ ring'[p] = rb /\ \A q \in Pipes : q # p => ring'[q] = ring[q]
  BY ZenonT(60), <1>1
<1>3. \A q \in Pipes : RingOK(ring'[q])
  BY ZenonT(60), <1>1, <1>2
<1>4. RingInv' <=> (ring' \in [Pipes -> PipeRingBuffer] /\ \A q \in Pipes : RingOK(ring'[q]))
  BY ZenonT(60) DEF RingInv, RingOK
<1> QED
  BY ZenonT(60), <1>2, <1>3, <1>4

\* pipe, the buffer and the descriptor of the read end
LEMMA PipeInv ==
    ASSUME IoInv, NEW x \in Procs, prog' = prog, NEW p \in Pipes, sys_pipe(x, p)
    PROVE  IoInv'
<1> DEFINE fd == first_false_index
           c == [NoCall EXCEPT !.op = "pipe", !.fd = fd, !.file = WriteEnd(p)]
<1>1. /\ TableInv /\ RingInv /\ CallInv /\ EofInv /\ ScanInv
      /\ panicked \in BOOLEAN /\ prog \in Programs
  BY ZenonT(60) DEF IoInv
<1>2. fd \in Free /\ fd \in Fds
  BY ZenonT(60), FirstFree DEF sys_pipe
<1>3. Set(x, c) /\ TableStep(ReadEnd(p))
  BY ZenonT(60), <1>2 DEF sys_pipe, TableStep
<1>4. /\ ring' = [ring EXCEPT ![p] = NewRingBuffer(ZeroByte)]
      /\ eof' = eof \ {p} /\ events' = events /\ evlock' = evlock /\ panicked' = panicked
  BY ZenonT(60) DEF sys_pipe, EpollPart
<1> HIDE DEF fd
<1>5. c \in Calls /\ c.op = "pipe" /\ c.file = WriteEnd(p)
  BY ZenonT(60), <1>2, NoCallOk, Kinds DEF Calls, Ops
<1> HIDE DEF c
<1>6. GoodCall(c)
  BY ZenonT(60), <1>5 DEF GoodCall, CtlOps
<1>7. TableInv'
  BY ZenonT(60), <1>1, <1>3, Kinds, TableStepInv
<1>8. RingInv' /\ \A q \in Pipes : q # p => ring'[q] = ring[q]
  BY ZenonT(60), <1>1, <1>4, NewRing, RingSet
<1>9. CallInv'
  BY ZenonT(60), <1>1, <1>3, <1>5, <1>6, SetInv
<1>10. ScanInv'
  BY ZenonT(60), <1>1, <1>3, <1>4, <1>5, ScanKept
<1>11. EofInv'
  <2>1. ASSUME NEW q \in eof, q # p PROVE ~ Live(WriteEnd(q))' /\ available_read(ring'[q]) = 0
    <3>1. q \in Pipes /\ ~ Live(WriteEnd(q)) /\ available_read(ring[q]) = 0
      BY ZenonT(60), <1>1 DEF EofInv, EofIsFinal
    <3> DEFINE f == WriteEnd(q)
    <3>2. f # NoFile /\ ReadEnd(p) # f /\ c.file # f /\ ~ Live(f)
      BY ZenonT(60), <1>5, <2>1, <3>1, Kinds
    <3> HIDE DEF f
    <3>3. ~ Live(f)'
      BY ZenonT(60), <1>1, <1>3, <1>5, <3>2, LiveKept
    <3> QED
      BY ZenonT(60), <1>8, <2>1, <3>1, <3>3 DEF f
  <2>2. eof' \subseteq Pipes
    BY ZenonT(60), <1>1, <1>4 DEF EofInv
  <2> QED
    BY ZenonT(60), <1>4, <2>1, <2>2 DEF EofInv, EofIsFinal, available_read
<1> QED
  BY ZenonT(60), <1>1, <1>4, <1>7, <1>8, <1>9, <1>10, <1>11 DEF IoInv

\* A turn of Pipe::read takes bytes from the front of one pipe.
LEMMA ReadTakes ==
    ASSUME IoInv, NEW x \in Procs, read(x)
    PROVE  \E p \in Pipes :
              LET avail == available_read(ring[p])
                  rb == ReadBytes(ring[p], Lesser(avail, call[x].n))
              IN  /\ call[x].file = ReadEnd(p)
                  /\ avail > 0 \/ write_end_close(p)
                  /\ ring' = [ring EXCEPT ![p] = rb]
                  /\ eof' = IF avail = 0 THEN eof \cup {p} ELSE eof
                  /\ rb \in PipeRingBuffer /\ RingOK(rb)
                  /\ Takes(Contents(ring[p]), Contents(rb))
                  /\ avail = 0 => available_read(rb) = 0
<1>1. RingInv /\ call[x] \in Calls /\ GoodCall(call[x]) /\ call[x].op = "read"
  BY ZenonT(60) DEF IoInv, CallInv, read, In
<1>2. PICK p \in Pipes : call[x].file = ReadEnd(p)
  BY ZenonT(60), <1>1 DEF GoodCall
<1> DEFINE avail == available_read(ring[p])
           n == Lesser(avail, call[x].n)
           rb == ReadBytes(ring[p], n)
<1>3. call[x].file[2] = p
  BY SMTT(60), <1>2 DEF ReadEnd
<1>4. ring[p] \in PipeRingBuffer /\ RingOK(ring[p]) /\ ring \in [Pipes -> PipeRingBuffer]
  BY ZenonT(60), <1>1 DEF RingInv
<1>5. avail \in Nat
  BY SMTT(60), <1>4, ContentsLen, SizeAssumption
<1>6. /\ avail > 0 \/ write_end_close(p)
      /\ ring' = [ring EXCEPT ![p] = rb]
      /\ eof' = IF avail = 0 THEN eof \cup {p} ELSE eof
  BY Zenon, <1>3 DEF read
<1> HIDE DEF avail
<1>7. n \in Nat /\ n <= avail /\ (avail = 0 => n = 0)
  BY SMTT(60), <1>1, <1>5 DEF Lesser, Calls
<1> HIDE DEF n
<1>8. /\ rb \in PipeRingBuffer /\ RingOK(rb) /\ available_read(rb) = avail - n
      /\ Takes(Contents(ring[p]), Contents(rb))
  <2>1. n <= available_read(ring[p])
    BY ZenonT(60), <1>7 DEF avail
  <2> QED
    BY Zenon, <1>4, <1>7, <2>1, ReadBytesTake DEF avail
<1> HIDE DEF rb
<1>9. ASSUME avail = 0 PROVE available_read(rb) = 0
  <2>1. avail = 0 /\ n = 0
    BY ZenonT(60), <1>7, <1>9
  <2> QED
    BY SMTT(60), <1>8, <2>1
<1> QED
  BY ZenonT(60), <1>2, <1>6, <1>8, <1>9 DEF rb, n, avail

\* A turn of Pipe::write appends bytes to one pipe.
LEMMA WriteAppends ==
    ASSUME IoInv, NEW x \in Procs, write(x)
    PROVE  \E p \in Pipes :
              LET room == available_write(ring[p])
                  n == Lesser(room, call[x].n)
                  rb == WriteBytes(ring[p], call[x].byte, n)
              IN  /\ call[x].file = WriteEnd(p)
                  /\ ring' = [ring EXCEPT ![p] = rb]
                  /\ n \in Nat /\ n <= call[x].n
                  /\ IF call[x].n < room THEN Return(x) ELSE Set(x, [call[x] EXCEPT !.n = @ - n])
                  /\ rb \in PipeRingBuffer /\ RingOK(rb)
                  /\ Appends(Contents(ring[p]), Contents(rb))
<1>1. RingInv /\ call[x] \in Calls /\ GoodCall(call[x]) /\ call[x].op = "write"
  BY ZenonT(60) DEF IoInv, CallInv, write, In
<1>2. PICK p \in Pipes : call[x].file = WriteEnd(p)
  BY ZenonT(60), <1>1 DEF GoodCall
<1> DEFINE room == available_write(ring[p])
           n == Lesser(room, call[x].n)
           rb == WriteBytes(ring[p], call[x].byte, n)
<1>3. call[x].file[2] = p
  BY SMTT(60), <1>2 DEF WriteEnd
<1>4. ring[p] \in PipeRingBuffer /\ RingOK(ring[p]) /\ ring \in [Pipes -> PipeRingBuffer]
  BY ZenonT(60), <1>1 DEF RingInv
<1>5. room \in Nat
  BY SMTT(60), <1>4, AvailableFacts, SizeAssumption
<1>6. /\ ring' = [ring EXCEPT ![p] = rb]
      /\ IF call[x].n < room THEN Return(x) ELSE Set(x, [call[x] EXCEPT !.n = @ - n])
  BY Zenon, <1>3 DEF write
<1> HIDE DEF room
<1>7. n \in Nat /\ n <= room /\ n <= call[x].n /\ call[x].byte \in Bytes
  BY SMTT(60), <1>1, <1>5 DEF Lesser, Calls
<1> HIDE DEF n
<1>8. rb \in PipeRingBuffer /\ RingOK(rb) /\ Appends(Contents(ring[p]), Contents(rb))
  <2>1. n <= available_write(ring[p])
    BY ZenonT(60), <1>7 DEF room
  <2> QED
    BY Zenon, <1>4, <1>7, <2>1, WriteBytesAppend
<1> HIDE DEF rb
<1> QED
  BY ZenonT(60), <1>2, <1>6, <1>7, <1>8 DEF rb, n, room

\* read, a turn
LEMMA ReadInv ==
    ASSUME IoInv, NEW x \in Procs, prog' = prog, read(x)
    PROVE  IoInv'
<1>1. /\ TableInv /\ RingInv /\ CallInv /\ EofInv /\ ScanInv
      /\ panicked \in BOOLEAN /\ prog \in Programs
  BY ZenonT(60) DEF IoInv
<1>2. PICK p \in Pipes :
              LET avail == available_read(ring[p])
                  rb == ReadBytes(ring[p], Lesser(avail, call[x].n))
              IN  /\ call[x].file = ReadEnd(p)
                  /\ avail > 0 \/ write_end_close(p)
                  /\ ring' = [ring EXCEPT ![p] = rb]
                  /\ eof' = IF avail = 0 THEN eof \cup {p} ELSE eof
                  /\ rb \in PipeRingBuffer /\ RingOK(rb)
                  /\ Takes(Contents(ring[p]), Contents(rb))
                  /\ avail = 0 => available_read(rb) = 0
  BY ZenonT(60), ReadTakes
<1> DEFINE avail == available_read(ring[p])
           rb == ReadBytes(ring[p], Lesser(avail, call[x].n))
<1>3. Set(x, NoCall) /\ TableStep(Epoll) /\ events' = events /\ evlock' = evlock /\ panicked' = panicked
  BY ZenonT(60) DEF read, Return, TableStep, EpollPart
<1>4. /\ ring' = [ring EXCEPT ![p] = rb] /\ rb \in PipeRingBuffer /\ RingOK(rb)
      /\ (avail = 0 => available_read(rb) = 0)
      /\ eof' = (IF avail = 0 THEN eof \cup {p} ELSE eof)
      /\ (avail > 0 \/ write_end_close(p))
  BY ZenonT(60), <1>2
<1> HIDE DEF rb
<1>5. RingInv' /\ ring'[p] = rb /\ \A q \in Pipes : q # p => ring'[q] = ring[q]
  BY ZenonT(60), <1>1, <1>4, RingSet
<1>6. TableInv' /\ CallInv' /\ ScanInv'
  BY ZenonT(60), <1>1, <1>3, NoCallOk, Kinds, TableStepInv, SetInv, ScanKept
<1>7. EofInv'
  <2>1. ASSUME NEW q \in eof' PROVE q \in Pipes /\ ~ Live(WriteEnd(q))' /\ available_read(ring'[q]) = 0
    <3>1. q \in Pipes /\ ~ Live(WriteEnd(q)) /\ available_read(ring[q]) = 0
      <4>1. CASE q \in eof
        BY ZenonT(60), <1>1, <4>1 DEF EofInv, EofIsFinal
      <4>2. CASE q \notin eof
        <5>1. avail = 0 /\ q = p /\ ~(avail > 0)
          BY SMTT(60), <1>4, <2>1, <4>2
        <5> QED
          BY ZenonT(60), <1>4, <5>1 DEF write_end_close
      <4> QED
        BY ZenonT(60), <4>1, <4>2
    <3> DEFINE f == WriteEnd(q)
    <3>2. f # NoFile /\ Epoll # f /\ NoCall.file # f /\ ~ Live(f)
      BY ZenonT(60), <3>1, Kinds, NoCallOk
    <3> HIDE DEF f
    <3>3. ~ Live(f)'
      BY ZenonT(60), <1>1, <1>3, <3>2, NoCallOk, LiveKept
    <3>4. available_read(ring'[q]) = 0
      <4>1. CASE q = p
        BY ZenonT(60), <1>4, <1>5, <3>1, <4>1
      <4>2. CASE q # p
        BY ZenonT(60), <1>5, <3>1, <4>2
      <4> QED
        BY ZenonT(60), <4>1, <4>2
    <3> QED
      BY ZenonT(60), <3>1, <3>3, <3>4 DEF f
  <2> QED
    BY ZenonT(60), <2>1 DEF EofInv, EofIsFinal, available_read
<1> QED
  BY ZenonT(60), <1>1, <1>3, <1>5, <1>6, <1>7 DEF IoInv

\* write, a turn
LEMMA WriteInv ==
    ASSUME IoInv, NEW x \in Procs, prog' = prog, write(x)
    PROVE  IoInv'
<1>1. /\ TableInv /\ RingInv /\ CallInv /\ EofInv /\ ScanInv
      /\ panicked \in BOOLEAN /\ prog \in Programs
      /\ call[x] \in Calls /\ GoodCall(call[x]) /\ call[x].op = "write"
  BY ZenonT(60) DEF IoInv, CallInv, write, In
<1>2. PICK p \in Pipes :
              LET room == available_write(ring[p])
                  n == Lesser(room, call[x].n)
                  rb == WriteBytes(ring[p], call[x].byte, n)
              IN  /\ call[x].file = WriteEnd(p)
                  /\ ring' = [ring EXCEPT ![p] = rb]
                  /\ n \in Nat /\ n <= call[x].n
                  /\ IF call[x].n < room THEN Return(x) ELSE Set(x, [call[x] EXCEPT !.n = @ - n])
                  /\ rb \in PipeRingBuffer /\ RingOK(rb)
                  /\ Appends(Contents(ring[p]), Contents(rb))
  BY ZenonT(60), WriteAppends
<1> DEFINE room == available_write(ring[p])
           n == Lesser(room, call[x].n)
           rb == WriteBytes(ring[p], call[x].byte, n)
           d == [call[x] EXCEPT !.n = @ - n]
           c == IF call[x].n < room THEN NoCall ELSE d
<1>3. TableStep(Epoll) /\ eof' = eof /\ events' = events /\ evlock' = evlock /\ panicked' = panicked
  BY ZenonT(60) DEF write, TableStep, EpollPart
<1>4. /\ ring' = [ring EXCEPT ![p] = rb] /\ rb \in PipeRingBuffer /\ RingOK(rb)
      /\ n \in Nat /\ n <= call[x].n /\ call[x].file = WriteEnd(p)
  BY ZenonT(60), <1>2
<1>5. Set(x, c)
  <2>1. IF call[x].n < room THEN Return(x) ELSE Set(x, d)
    BY ZenonT(60), <1>2
  <2> HIDE DEF d, room
  <2> QED
    BY ZenonT(60), <2>1 DEF Return
<1> HIDE DEF rb, n, room
<1>6. d \in Calls /\ d.op = "write" /\ d.file = call[x].file
  <2>1. call[x].n - n \in Nat
    BY SMTT(60), <1>1, <1>4 DEF Calls
  <2> QED
    BY ZenonT(60), <1>1, <2>1 DEF Calls
<1> HIDE DEF d
<1>7. /\ c \in Calls /\ GoodCall(c) /\ c.op # "scan"
      /\ (c.file = NoFile \/ c.file = WriteEnd(p))
  BY ZenonT(60), <1>1, <1>4, <1>6, NoCallOk DEF GoodCall, CtlOps
<1> HIDE DEF c
<1>8. RingInv' /\ \A q \in Pipes : q # p => ring'[q] = ring[q]
  BY ZenonT(60), <1>1, <1>4, RingSet
<1>9. TableInv' /\ CallInv' /\ ScanInv'
  BY ZenonT(60), <1>1, <1>3, <1>5, <1>7, Kinds, TableStepInv, SetInv, ScanKept
<1>10. EofInv'
  <2>1. Live(WriteEnd(p))
    BY ZenonT(60), <1>4 DEF Live, Held
  <2>2. \A q \in Pipes : Epoll = WriteEnd(q) \/ c.file = WriteEnd(q) => Live(WriteEnd(q))
    BY Zenon, <1>7, <2>1, Kinds
  <2>3. \A q \in eof : q \in Pipes /\ q # p /\ available_read(ring[q]) = 0
    BY ZenonT(60), <1>1, <2>1 DEF EofInv, EofIsFinal
  <2>4. \A q \in eof : available_read(ring'[q]) = 0
    BY ZenonT(60), <1>8, <2>3
  <2> QED
    BY ZenonT(60), <1>1, <1>3, <1>5, <1>7, <2>2, <2>4, EofKept
<1> QED
  BY ZenonT(60), <1>1, <1>3, <1>8, <1>9, <1>10 DEF IoInv

-----------------------------------------------------------------------------
(* The invariant holds.                                                    *)

\* IoInv holds at the start.
LEMMA InitInv == Init => IoInv
<1> SUFFICES ASSUME Init PROVE IoInv
  BY ZenonT(60)
<1>1. TableInv
  <2>1. objects = [fd \in Fds |-> IF fd \in StdFds THEN Stdio ELSE NoFile]
        /\ count = Cardinality(StdFds)
    BY ZenonT(60) DEF Init, TableInit
  <2>2. objects \in [Fds -> Files \cup {NoFile}]
    BY ZenonT(60), <2>1, FdAssumption
  <2>3. {fd \in Fds : is_assigned(fd)} = StdFds
    BY ZenonT(60), <2>1, FdAssumption DEF is_assigned
  <2>4. count \in 0..RUX_FILE_LIMIT
    BY ZenonT(60), <2>1, FdAssumption, FdsFinite
  <2> QED
    BY ZenonT(60), <2>1, <2>2, <2>3, <2>4 DEF TableInv, CountMatches
<1>2. RingInv
  BY ZenonT(60), NewRing DEF Init, RingInv
<1>3. CallInv
  BY ZenonT(60), NoCallOk DEF Init, CallInv
<1>4. EofInv
  BY ZenonT(60) DEF Init, EofInv, EofIsFinal
<1>5. ScanInv
  <2>1. \A x \in Procs : call[x].op # "scan"
    BY ZenonT(60), NoCallOk DEF Init
  <2> QED
    BY ZenonT(60), <2>1 DEF Init, ScanInv, ScanSeesMap, Interest
<1> QED
  BY ZenonT(60), <1>1, <1>2, <1>3, <1>4, <1>5 DEF IoInv, Init

\* Every call keeps it, from its first step ...
LEMMA CallKeeps ==
    ASSUME IoInv, prog' = prog, NEW x \in Procs, Call(x) PROVE IoInv'
<1>1. prog.reads \subseteq Nat /\ prog.writes \subseteq Nat /\ prog.bytes \subseteq Bytes
  BY ZenonT(60), ProgramAssumption DEF IoInv
<1>2. Watched \subseteq Fds
  BY ZenonT(60), ProgramAssumption
<1>3. ASSUME NEW fd \in Fds, sys_close(x, fd) PROVE IoInv'
  BY ZenonT(60), <1>3, CloseInv
<1>4. ASSUME NEW fd \in Fds, sys_dup(x, fd) PROVE IoInv'
  BY ZenonT(60), <1>4, DupInv
<1>5. ASSUME NEW fd \in Fds, NEW new_fd \in Fds, sys_dup2(x, fd, new_fd) PROVE IoInv'
  BY ZenonT(60), <1>5, Dup2Inv
<1>6. ASSUME NEW fd \in Fds, NEW n \in prog.reads, sys_read(x, fd, n) PROVE IoInv'
  <2>1. n \in Nat
    BY ZenonT(60), <1>1
  <2> QED
    BY ZenonT(60), <1>6, <2>1, SysReadInv
<1>7. ASSUME NEW fd \in Fds, NEW n \in prog.writes, NEW byte \in prog.bytes, sys_write(x, fd, n, byte)
      PROVE  IoInv'
  <2>1. n \in Nat /\ byte \in Bytes
    BY ZenonT(60), <1>1
  <2> QED
    BY ZenonT(60), <1>7, <2>1, SysWriteInv
<1>8. ASSUME NEW fd \in Fds, NEW timed \in {"never", "running"}, sys_epoll_wait(x, fd, timed) PROVE IoInv'
  BY ZenonT(60), <1>8, SysWaitInv
<1>9. ASSUME NEW fd \in Fds, NEW op \in CtlOps, NEW infd \in Watched, NEW ev \in Interests,
             sys_epoll_ctl(x, fd, op, infd, ev)
      PROVE  IoInv'
  <2>1. infd \in Fds
    BY ZenonT(60), <1>2
  <2> QED
    BY ZenonT(60), <1>9, <2>1, SysCtlInv
<1>10. ASSUME NEW p \in Pipes, sys_pipe(x, p) PROVE IoInv'
  BY ZenonT(60), <1>10, PipeInv
<1>11. ASSUME sys_epoll_create(x) PROVE IoInv'
  BY ZenonT(60), <1>11, CreateInv
<1>12. ASSUME NEW fds \in PollSets, NEW timed \in {"never", "running"}, sys_poll(x, fds, timed) PROVE IoInv'
  BY ZenonT(60), <1>12, SysPollInv
<1> QED
  BY ZenonT(60), <1>3, <1>4, <1>5, <1>6, <1>7, <1>8, <1>9, <1>10, <1>11, <1>12 DEF Call

\* ... to its last.
LEMMA StepKeeps ==
    ASSUME IoInv, prog' = prog, NEW x \in Procs, Step(x) \/ LockStep(x) \/ deadline_passes(x)
    PROVE  IoInv'
  BY ZenonT(60), DupAddInv, Dup2GetInv, Dup2AddInv, PipeWriteInv, ReadInv, WriteInv, PollAllFdInv,
     PollAllEndInv, PollFdInv, PollEndInv, ControlInv, PollAllInv, CleanInv, DeadlineInv
     DEF Step, LockStep

\* Nothing changes, and IoInv stays.
LEMMA StutterInv == ASSUME IoInv, UNCHANGED vars PROVE IoInv'
<1>1. TableInv'
  BY ZenonT(60) DEF vars, IoInv, TableInv, CountMatches, is_assigned
<1>2. RingInv' /\ CallInv'
  BY ZenonT(60) DEF vars, IoInv, RingInv, CallInv
<1>3. EofInv'
  BY ZenonT(60) DEF vars, IoInv, EofInv, EofIsFinal, Live, Named, Held
<1>4. ScanInv'
  BY ZenonT(60) DEF vars, IoInv, ScanInv, ScanSeesMap
<1> QED
  BY ZenonT(60), <1>1, <1>2, <1>3, <1>4 DEF vars, IoInv

\* A step keeps IoInv.
LEMMA NextInv == ASSUME IoInv, [Next]_vars PROVE IoInv'
<1>1. ASSUME Next PROVE IoInv'
  <2>1. prog' = prog /\ \E x \in Procs : Call(x) \/ Step(x) \/ LockStep(x) \/ deadline_passes(x)
    BY ZenonT(60), <1>1 DEF Next
  <2>2. PICK x \in Procs : Call(x) \/ Step(x) \/ LockStep(x) \/ deadline_passes(x)
    BY ZenonT(60), <2>1
  <2> QED
    BY ZenonT(60), <2>1, <2>2, CallKeeps, StepKeeps
<1> QED
  BY ZenonT(60), <1>1, StutterInv

\* IoInv holds in every state of every behaviour.
THEOREM IoInvThm == Spec => []IoInv
<1>1. IoInv /\ [Next]_vars => IoInv'
  BY ZenonT(60), NextInv
<1> QED
  BY InitInv, <1>1, PTL DEF Spec

\* Descriptors are counted right and end of file is final, for every size of
\* the table and of the buffers, any number of threads and pipes and any
\* program they run.
THEOREM PipeEndsThm == Spec => []PipeEnds
<1>1. IoInv => PipeEnds
  BY ZenonT(60) DEF IoInv, TableInv, RingInv, CallInv, EofInv, ScanInv, PipeEnds, TypeOK
<1> QED
  BY IoInvThm, <1>1, PTL

-----------------------------------------------------------------------------
(* What a step may do.                                                     *)

\* The bytes of a pipe that a step leaves alone.
LEMMA SameBytes == ASSUME NEW rb \in PipeRingBuffer, RingOK(rb) PROVE Appends(Contents(rb), Contents(rb))
<1>1. Len(Contents(rb)) \in Nat
  BY SMTT(60), ContentsLen, SizeAssumption
<1> QED
  BY SMTT(60), <1>1 DEF Appends

Fifo(p) == \/ Appends(Contents(ring[p]), Contents(ring'[p]))
           \/ Takes(Contents(ring[p]), Contents(ring'[p]))

\* Steps that leave the buffers alone.
LEMMA QuietRing ==
    ASSUME NEW x \in Procs, Call(x) \/ Step(x) \/ LockStep(x) \/ deadline_passes(x)
    PROVE  ring' = ring \/ read(x) \/ write(x) \/ \E p \in Pipes : sys_pipe(x, p)
<1>1. CASE Call(x)
  BY ZenonT(60), <1>1 DEF Call, PipePart, sys_close, sys_dup, sys_dup2, sys_read, sys_write, sys_epoll_wait,
     sys_epoll_ctl, sys_epoll_create, sys_poll
<1>2. CASE Step(x)
  BY ZenonT(60), <1>2 DEF Step, PipePart, dup_add, dup2_get, dup2_add, sys_pipe_write_fd, poll_all_fd,
     poll_all_end, sys_poll_fd, sys_poll_end
<1>3. CASE LockStep(x)
  BY ZenonT(60), <1>3 DEF LockStep, PipePart, control, poll_all, epoll_clean
<1>4. CASE deadline_passes(x)
  BY ZenonT(60), <1>4 DEF deadline_passes, PipePart
<1> QED
  BY ZenonT(60), <1>1, <1>2, <1>3, <1>4

\* A step changes one buffer, at one of its ends.
LEMMA FifoStep ==
    ASSUME IoInv, Next, NEW p \in Pipes PROVE Fifo(p)
<1>1. RingInv /\ ring[p] \in PipeRingBuffer /\ RingOK(ring[p])
  BY ZenonT(60) DEF IoInv, RingInv
<1>2. PICK x \in Procs : Call(x) \/ Step(x) \/ LockStep(x) \/ deadline_passes(x)
  BY ZenonT(60) DEF Next
<1>3. ASSUME ring'[p] = ring[p] PROVE Fifo(p)
  BY ZenonT(60), <1>1, <1>3, SameBytes DEF Fifo
<1>4. CASE ring' = ring
  BY ZenonT(60), <1>3, <1>4
<1>5. CASE read(x)
  <2>1. PICK q \in Pipes, rb \in PipeRingBuffer :
           RingOK(rb) /\ ring' = [ring EXCEPT ![q] = rb] /\ Takes(Contents(ring[q]), Contents(rb))
    BY ZenonT(60), <1>5, ReadTakes
  <2>2. ring'[q] = rb /\ (p # q => ring'[p] = ring[p])
    BY ZenonT(60), <1>1, <2>1, RingSet
  <2> QED
    BY ZenonT(60), <1>3, <2>1, <2>2 DEF Fifo
<1>6. CASE write(x)
  <2>1. PICK q \in Pipes, rb \in PipeRingBuffer :
           RingOK(rb) /\ ring' = [ring EXCEPT ![q] = rb] /\ Appends(Contents(ring[q]), Contents(rb))
    BY ZenonT(60), <1>6, WriteAppends
  <2>2. ring'[q] = rb /\ (p # q => ring'[p] = ring[p])
    BY ZenonT(60), <1>1, <2>1, RingSet
  <2> QED
    BY ZenonT(60), <1>3, <2>1, <2>2 DEF Fifo
<1>7. ASSUME NEW q \in Pipes, sys_pipe(x, q) PROVE Fifo(p)
  <2> DEFINE rb == NewRingBuffer(ZeroByte)
  <2>1. ring' = [ring EXCEPT ![q] = rb]
    BY ZenonT(60), <1>7 DEF sys_pipe
  <2>2. rb \in PipeRingBuffer /\ RingOK(rb) /\ available_read(rb) = 0
    BY ZenonT(60), NewRing
  <2> HIDE DEF rb
  <2>3. ring'[q] = rb /\ (p # q => ring'[p] = ring[p])
    BY ZenonT(60), <1>1, <2>1, <2>2, RingSet
  <2>4. Len(Contents(rb)) = 0 /\ Len(Contents(ring[p])) \in Nat
    BY SMTT(60), <1>1, <2>2, ContentsLen, SizeAssumption
  <2>5. Takes(Contents(ring[p]), Contents(rb))
    BY SMTT(60), <2>4 DEF Takes
  <2> QED
    BY ZenonT(60), <1>3, <2>3, <2>5 DEF Fifo
<1> QED
  BY ZenonT(60), <1>2, <1>4, <1>5, <1>6, <1>7, QuietRing

\* A pipe is first in, first out, for every size of its buffer.
THEOREM PipeIsFifoThm == Spec => PipeIsFifo
<1>1. IoInv /\ [Next]_vars => [\A p \in Pipes : Fifo(p)]_ring
  BY ZenonT(60), FifoStep DEF vars
<1>2. [\A p \in Pipes : Fifo(p)]_ring =>
      [\A p \in Pipes : \/ Appends(Contents(ring[p]), Contents(ring'[p]))
                        \/ Takes(Contents(ring[p]), Contents(ring'[p]))]_ring
  BY ZenonT(60) DEF Fifo
<1> QED
  BY IoInvThm, <1>1, <1>2, PTL DEF Spec, PipeIsFifo

Kept(fd) ==
    events[fd] # {} /\ events'[fd] = {} /\ is_assigned(fd) /\ Live(Epoll) =>
        \E x \in Procs : call[x].op = "EPOLL_CTL_DEL" /\ call[x].fd = fd

\* Steps that leave the map alone.
LEMMA QuietMap ==
    ASSUME NEW x \in Procs, Call(x) \/ Step(x) \/ LockStep(x) \/ deadline_passes(x)
    PROVE  events' = events \/ control(x) \/ epoll_clean(x) \/ sys_epoll_create(x)
<1>1. CASE Call(x)
  BY ZenonT(60), <1>1 DEF Call, EpollPart, sys_close, sys_dup, sys_dup2, sys_read, sys_write, sys_epoll_wait,
     sys_epoll_ctl, sys_pipe, sys_poll
<1>2. CASE Step(x)
  BY ZenonT(60), <1>2 DEF Step, EpollPart, dup_add, dup2_get, dup2_add, sys_pipe_write_fd, poll_all_fd,
     poll_all_end, sys_poll_fd, sys_poll_end, read, write
<1>3. CASE LockStep(x)
  BY ZenonT(60), <1>3 DEF LockStep, EpollPart, poll_all
<1>4. CASE deadline_passes(x)
  BY ZenonT(60), <1>4 DEF deadline_passes, EpollPart
<1> QED
  BY ZenonT(60), <1>1, <1>2, <1>3, <1>4

\* A step drops an interest in an open descriptor only for EPOLL_CTL_DEL.
LEMMA KeptStep ==
    ASSUME IoInv, Next, NEW fd \in Fds PROVE Kept(fd)
<1>1. PICK x \in Procs : Call(x) \/ Step(x) \/ LockStep(x) \/ deadline_passes(x)
  BY ZenonT(60) DEF Next
<1>2. /\ events \in [Fds -> Interest] /\ call[x] \in Calls /\ GoodCall(call[x])
  BY ZenonT(60) DEF IoInv, ScanInv, CallInv
<1>3. CASE events' = events
  BY ZenonT(60), <1>3 DEF Kept
<1>4. CASE control(x)
  <2>1. call[x].op \in CtlOps /\ call[x].fd \in Fds
    BY ZenonT(60), <1>2, <1>4 DEF control, Calls
  <2>2. events' = events \/ events' = [events EXCEPT ![call[x].fd] = call[x].ev]
    BY ZenonT(60), <1>4 DEF control
  <2>3. CASE call[x].op = "EPOLL_CTL_DEL"
    BY ZenonT(60), <1>2, <2>1, <2>2, <2>3 DEF Kept
  <2>4. CASE call[x].op = "EPOLL_CTL_MOD"
    <3>1. call[x].ev # {}
      BY ZenonT(60), <1>2, <2>4 DEF GoodCall
    <3> QED
      BY ZenonT(60), <1>2, <2>1, <2>2, <3>1 DEF Kept
  <2>5. CASE call[x].op = "EPOLL_CTL_ADD"
    <3>1. events' = IF events[call[x].fd] = {}
                    THEN [events EXCEPT ![call[x].fd] = call[x].ev] ELSE events
      BY ZenonT(60), <1>4, <2>5 DEF control
    <3> QED
      BY ZenonT(60), <1>2, <2>1, <3>1 DEF Kept
  <2> QED
    BY ZenonT(60), <2>1, <2>3, <2>4, <2>5 DEF CtlOps
<1>5. CASE epoll_clean(x)
  BY ZenonT(60), <1>2, <1>5 DEF epoll_clean, Kept
<1>6. CASE sys_epoll_create(x)
  BY ZenonT(60), <1>6 DEF sys_epoll_create, Kept
<1> QED
  BY ZenonT(60), <1>1, <1>3, <1>4, <1>5, <1>6, QuietMap

\* The map of an epoll instance is stable under a scan and loses no interest
\* in an open descriptor, for any number of threads and descriptors.
THEOREM EpollMapThm == Spec => EpollMap
<1>1. IoInv => ScanSeesMap
  BY ZenonT(60) DEF IoInv, ScanInv
<1>2. IoInv /\ [Next]_vars => [\A fd \in Fds : Kept(fd)]_events
  BY ZenonT(60), KeptStep DEF vars
<1>3. [\A fd \in Fds : Kept(fd)]_events =>
      [\A fd \in Fds :
        events[fd] # {} /\ events'[fd] = {} /\ is_assigned(fd) /\ Live(Epoll) =>
            \E x \in Procs : call[x].op = "EPOLL_CTL_DEL" /\ call[x].fd = fd]_events
  BY Zenon DEF Kept
<1> QED
  BY IoInvThm, <1>1, <1>2, <1>3, PTL DEF Spec, EpollMap, RegistrationKept
=============================================================================
