------------------------------- MODULE FileIo -------------------------------
(***************************************************************************)
(* Descriptors, pipes and readiness (ruxos_posix_api: fd_ops, pipe, io and *)
(* io_mpx).  Processes are threads that share FD_TABLE.  A call holds an   *)
(* Arc of the file it looked up until it returns, so a file lives while a  *)
(* descriptor or a call names it.  Each lookup and each critical section   *)
(* of a pipe's buffer or an epoll's map is a step of its own; a call that  *)
(* yields stays where it is.                                               *)
(***************************************************************************)
EXTENDS Integers, Sequences, FiniteSetsExt

CONSTANTS
    RING_BUFFER_SIZE,
    Bytes,
    RUX_FILE_LIMIT,     \* capacity of the table
    StdFds,             \* the descriptors MUST_EXEC opens: 0, 1 and 2 in the code
    Files,              \* every object a descriptor can name
    Stdio,              \* Stdin or Stdout
    NoFile,             \* a clear bit of id_bitmap
    Procs,
    Pipes,          \* slots for pipes: a slot is reused once nothing names it
    Epoll,          \* the one EpollInstance: created again once nothing names it
    None,           \* no process
    ZeroByte,       \* the byte a new buffer is filled with
    MaxEvents,      \* maxevents of epoll_wait
    Programs,       \* what the threads may do: the calls each makes, the lengths
                    \* of reads and writes, the bytes written
    PollSets,       \* the sets of descriptors a poll may name
    Watched,        \* the descriptors an epoll_ctl may name
    Interests       \* the events an epoll_ctl may ask for

VARIABLES
    objects,    \* FlattenObjects::objects and id_bitmap: NoFile where the bit is clear
    count,      \* FlattenObjects::count
    ring,       \* PipeRingBuffer of each pipe
    events,     \* EpollInstance::events: the interest in each descriptor, {} if none
    evlock,     \* holder of the mutex around events
    prog,       \* the program that runs, which never changes
    call,       \* the call each process is in
    eof,        \* pipes on which a read returned 0 (history)
    panicked

vars == <<objects, count, ring, events, evlock, prog, call, eof, panicked>>

Fds == 0..(RUX_FILE_LIMIT - 1)
ReadEnd(p) == <<"read", p>>
WriteEnd(p) == <<"write", p>>

ASSUME SizeAssumption == RING_BUFFER_SIZE \in Nat \ {0}

ASSUME FdAssumption ==
    /\ RUX_FILE_LIMIT \in Nat \ {0}
    /\ StdFds \subseteq Fds
    /\ Stdio \in Files
    /\ NoFile \notin Files

ASSUME FileAssumption ==
    /\ Epoll \in Files
    /\ \A p \in Pipes : {ReadEnd(p), WriteEnd(p)} \subseteq Files \ {Epoll}
    /\ ZeroByte \in Bytes
    /\ None \notin Procs
    /\ MaxEvents \in Nat

ASSUME ProgramAssumption ==
    /\ \A g \in Programs : g.reads \subseteq Nat /\ g.writes \subseteq Nat /\ g.bytes \subseteq Bytes
    /\ PollSets \subseteq SUBSET Fds
    /\ Watched \subseteq Fds
    /\ Interests \subseteq (SUBSET {"in", "out"}) \ {{}}

-----------------------------------------------------------------------------
(* PipeRingBuffer: the bytes of a pipe.                                    *)

Positions == 0..(RING_BUFFER_SIZE - 1)

RingBufferStatus == {"Full", "Empty", "Normal"}

PipeRingBuffer == [arr : [Positions -> Bytes], head : Positions, tail : Positions,
                   status : RingBufferStatus]

NewRingBuffer(byte) ==
    [arr |-> [i \in Positions |-> byte], head |-> 0, tail |-> 0, status |-> "Empty"]

mut_NextPosition(i) == i + 1

NextPosition(i) == (i + 1) % RING_BUFFER_SIZE

write_byte(rb, byte) ==
    LET tail == NextPosition(rb.tail)
    IN  [arr |-> [rb.arr EXCEPT ![rb.tail] = byte], head |-> rb.head, tail |-> tail,
         status |-> IF tail = rb.head THEN "Full" ELSE "Normal"]

mut_read_byte(rb) ==
    [arr |-> rb.arr, head |-> NextPosition(rb.head), tail |-> rb.tail, status |-> "Normal"]

\* The buffer after read_byte, which returns arr[head].
read_byte(rb) ==
    LET head == NextPosition(rb.head)
    IN  [arr |-> rb.arr, head |-> head, tail |-> rb.tail,
         status |-> IF head = rb.tail THEN "Empty" ELSE "Normal"]

available_read(rb) ==
    IF rb.status = "Empty" THEN 0
    ELSE IF rb.tail > rb.head THEN rb.tail - rb.head
    ELSE rb.tail + RING_BUFFER_SIZE - rb.head

available_write(rb) ==
    IF rb.status = "Full" THEN 0 ELSE RING_BUFFER_SIZE - available_read(rb)

\* The status tells an empty buffer from a full one when head and tail meet.
RingOK(rb) == rb.status = "Normal" <=> rb.head # rb.tail

\* The bytes in the buffer, oldest first.
Contents(rb) ==
    [i \in 1..available_read(rb) |-> rb.arr[(rb.head + i - 1) % RING_BUFFER_SIZE]]

-----------------------------------------------------------------------------
(* FD_TABLE: the FlattenObjects that maps descriptors to files, and the    *)
(* four operations fd_ops builds on it.  Every operation holds the         *)
(* RwLock<FlattenObjects> from its first look at the table to its last     *)
(* write, so each is one step.                                             *)

TableInit ==
    /\ objects = [fd \in Fds |-> IF fd \in StdFds THEN Stdio ELSE NoFile]
    /\ count = Cardinality(StdFds)

is_assigned(fd) == fd \in Fds /\ objects[fd] # NoFile

Free == {fd \in Fds : ~ is_assigned(fd)}

\* FlattenObjects::add, given that some id is free.
first_false_index == Min(Free)

\* FlattenObjects::add_at of an id that is not assigned.
add_at(fd, file) ==
    /\ objects' = [objects EXCEPT ![fd] = file]
    /\ count' = count + 1

\* FlattenObjects::remove of an id that is assigned.
remove(fd) ==
    /\ objects' = [objects EXCEPT ![fd] = NoFile]
    /\ count' = count - 1

TableUnchanged == UNCHANGED <<objects, count>>

-----------------------------------------------------------------------------
(* Calls.                                                                  *)

Interest == SUBSET {"in", "out"}
CtlOps == {"EPOLL_CTL_ADD", "EPOLL_CTL_MOD", "EPOLL_CTL_DEL"}

Ops == {"idle", "read", "write", "dup", "dup2", "dup2_add", "pipe", "epoll",
        "scan", "clean", "poll"} \cup CtlOps

\* n: bytes still wanted, or events found; want: the descriptors a poll names;
\* todo: the ones a scan has still to look at; ev: the event of an epoll_ctl;
\* timed: the deadline of a wait.
Calls == [op : Ops, file : Files \cup {NoFile}, fd : Fds, fd2 : Fds, n : Nat,
          byte : Bytes, want : SUBSET Fds, todo : SUBSET Fds, ev : Interest,
          timed : {"never", "running", "passed"}]

NoCall == [op |-> "idle", file |-> NoFile, fd |-> 0, fd2 |-> 0, n |-> 0,
           byte |-> ZeroByte, want |-> {}, todo |-> {}, ev |-> {}, timed |-> "never"]

Init ==
    /\ TableInit
    /\ ring = [p \in Pipes |-> NewRingBuffer(ZeroByte)]
    /\ events = [fd \in Fds |-> {}]
    /\ evlock = None
    /\ prog \in Programs
    /\ call = [x \in Procs |-> NoCall]
    /\ eof = {}
    /\ panicked = FALSE

-----------------------------------------------------------------------------
Named(f) == \E fd \in Fds : objects[fd] = f
Held(f) == \E x \in Procs : call[x].file = f

Live(f) == Named(f) \/ Held(f)

mut_write_end_close(p) == ~ Named(WriteEnd(p))

\* Arc::strong_count(buffer) = 1: only the read end is left.
write_end_close(p) == ~ Live(WriteEnd(p))

Idle(x) == ~ panicked /\ call[x].op = "idle"
In(x, op) == ~ panicked /\ call[x].op = op
Set(x, c) == call' = [call EXCEPT ![x] = c]
Return(x) == Set(x, NoCall)

PipePart == <<ring, eof>>
EpollPart == <<events, evlock, panicked>>

-----------------------------------------------------------------------------
(* fd_ops                                                                  *)

\* Closing a standard descriptor returns 0 and does nothing; closing one that
\* is not open returns EBADF.
sys_close(x, fd) ==
    /\ Idle(x)
    /\ fd \notin StdFds
    /\ is_assigned(fd)
    /\ remove(fd)
    /\ UNCHANGED <<PipePart, EpollPart, call>>

\* dup_fd looks the file up ...
sys_dup(x, fd) ==
    /\ Idle(x)
    /\ is_assigned(fd)
    /\ Set(x, [NoCall EXCEPT !.op = "dup", !.file = objects[fd]])
    /\ TableUnchanged
    /\ UNCHANGED <<PipePart, EpollPart>>

\* ... and adds it under the lowest free descriptor, or returns EMFILE.
dup_add(x) ==
    /\ In(x, "dup")
    /\ IF Free # {} THEN add_at(first_false_index, call[x].file) ELSE TableUnchanged
    /\ Return(x)
    /\ UNCHANGED <<PipePart, EpollPart>>

\* close_file_like(new_fd), whose EBADF ends the call; the standard
\* descriptors are closed like any other.
sys_dup2(x, old_fd, new_fd) ==
    /\ Idle(x)
    /\ old_fd # new_fd
    /\ is_assigned(new_fd)
    /\ remove(new_fd)
    /\ Set(x, [NoCall EXCEPT !.op = "dup2", !.fd = old_fd, !.fd2 = new_fd])
    /\ UNCHANGED <<PipePart, EpollPart>>

\* EBADF leaves new_fd closed.
dup2_get(x) ==
    /\ In(x, "dup2")
    /\ IF is_assigned(call[x].fd)
       THEN Set(x, [call[x] EXCEPT !.op = "dup2_add", !.file = objects[call[x].fd]])
       ELSE Return(x)
    /\ TableUnchanged
    /\ UNCHANGED <<PipePart, EpollPart>>

mut_dup2_add(x) ==
    /\ In(x, "dup2_add")
    /\ add_at(call[x].fd2, call[x].file)
    /\ Return(x)
    /\ UNCHANGED <<PipePart, EpollPart>>

\* EMFILE when another thread took new_fd meanwhile.
dup2_add(x) ==
    /\ In(x, "dup2_add")
    /\ IF is_assigned(call[x].fd2) THEN TableUnchanged
                                    ELSE add_at(call[x].fd2, call[x].file)
    /\ Return(x)
    /\ UNCHANGED <<PipePart, EpollPart>>

-----------------------------------------------------------------------------
(* Pipe                                                                    *)

\* Pipe::new and the descriptor of the read end.  The call holds the write
\* end.  With no free descriptor both ends are dropped and nothing remains.
sys_pipe(x, p) ==
    /\ Idle(x)
    /\ ~ Live(ReadEnd(p)) /\ ~ Live(WriteEnd(p))
    /\ Free # {}
    /\ add_at(first_false_index, ReadEnd(p))
    /\ ring' = [ring EXCEPT ![p] = NewRingBuffer(ZeroByte)]
    /\ eof' = eof \ {p}
    /\ Set(x, [NoCall EXCEPT !.op = "pipe", !.fd = first_false_index, !.file = WriteEnd(p)])
    /\ UNCHANGED EpollPart

\* The descriptor of the write end; without one, whatever read_fd names now is
\* closed.
sys_pipe_write_fd(x) ==
    /\ In(x, "pipe")
    /\ \/ Free # {} /\ add_at(first_false_index, call[x].file)
       \/ Free = {} /\ remove(call[x].fd)
    /\ Return(x)
    /\ UNCHANGED <<PipePart, EpollPart>>

\* sys_read and sys_write of a pipe up to the lookup; the other end returns
\* EPERM, an epoll instance ENOSYS, and the console is not part of this module.
sys_read(x, fd, n) ==
    /\ Idle(x)
    /\ \E p \in Pipes : objects[fd] = ReadEnd(p)
    /\ Set(x, [NoCall EXCEPT !.op = "read", !.file = objects[fd], !.n = n])
    /\ TableUnchanged
    /\ UNCHANGED <<PipePart, EpollPart>>

sys_write(x, fd, n, byte) ==
    /\ Idle(x)
    /\ \E p \in Pipes : objects[fd] = WriteEnd(p)
    /\ Set(x, [NoCall EXCEPT !.op = "write", !.file = objects[fd], !.n = n, !.byte = byte])
    /\ TableUnchanged
    /\ UNCHANGED <<PipePart, EpollPart>>

Lesser(m, n) == IF m < n THEN m ELSE n

\* The buffer after n calls of write_byte or read_byte.
WriteBytes(rb, byte, n) ==
    LET after[k \in 0..n] == IF k = 0 THEN rb ELSE write_byte(after[k - 1], byte)
    IN  after[n]
ReadBytes(rb, n) ==
    LET after[k \in 0..n] == IF k = 0 THEN rb ELSE read_byte(after[k - 1])
    IN  after[n]

mut_read(x) ==
    LET p == call[x].file[2]
        len == available_read(ring[p])
    IN  /\ In(x, "read")
        /\ len > 0
        /\ ring' = [ring EXCEPT ![p] = ReadBytes(@, Lesser(len, call[x].n))]
        /\ Return(x)
        /\ TableUnchanged
        /\ UNCHANGED <<eof, EpollPart>>

\* One turn of Pipe::read with the buffer locked.  An empty pipe whose write
\* end is open lets others run and looks again.
read(x) ==
    LET p == call[x].file[2]
        len == available_read(ring[p])
    IN  /\ In(x, "read")
        /\ len > 0 \/ write_end_close(p)
        /\ ring' = [ring EXCEPT ![p] = ReadBytes(@, Lesser(len, call[x].n))]
        /\ eof' = IF len = 0 THEN eof \cup {p} ELSE eof
        /\ Return(x)
        /\ TableUnchanged
        /\ UNCHANGED EpollPart

\* One turn of Pipe::write with the buffer locked.  The loop that copies ends
\* the call only if it meets room for one byte more than it had to write: a
\* write that fills the buffer exactly takes another turn.
write(x) ==
    LET p == call[x].file[2]
        room == available_write(ring[p])
        n == Lesser(room, call[x].n)
    IN  /\ In(x, "write")
        /\ room > 0
        /\ ring' = [ring EXCEPT ![p] = WriteBytes(@, call[x].byte, n)]
        /\ IF call[x].n < room THEN Return(x) ELSE Set(x, [call[x] EXCEPT !.n = @ - n])
        /\ TableUnchanged
        /\ UNCHANGED <<eof, EpollPart>>

-----------------------------------------------------------------------------
(* EpollInstance                                                           *)

sys_epoll_create(x) ==
    /\ Idle(x)
    /\ ~ Live(Epoll)
    /\ Free # {}
    /\ add_at(first_false_index, Epoll)
    /\ events' = [fd \in Fds |-> {}]
    /\ UNCHANGED <<PipePart, evlock, panicked, call>>

\* from_fd(epfd), and control's check that fd is open: nothing keeps it open.
sys_epoll_ctl(x, epfd, op, fd, ev) ==
    /\ Idle(x)
    /\ objects[epfd] = Epoll
    /\ is_assigned(fd)
    /\ Set(x, [NoCall EXCEPT !.op = op, !.file = Epoll, !.fd = fd,
                             !.ev = IF op = "EPOLL_CTL_DEL" THEN {} ELSE ev])
    /\ TableUnchanged
    /\ UNCHANGED <<PipePart, EpollPart>>

mut_control(x) ==
    LET fd == call[x].fd
        vacant == events[fd] = {}
    IN  /\ ~ panicked
        /\ call[x].op \in CtlOps
        /\ events' = IF vacant <=> call[x].op = "EPOLL_CTL_ADD"
                     THEN [events EXCEPT ![fd] = call[x].ev] ELSE events
        /\ Return(x)
        /\ TableUnchanged
        /\ UNCHANGED <<PipePart, evlock, panicked>>

\* The update of the map: ADD needs a vacant entry (else EEXIST), MOD and DEL an
\* occupied one (else ENOENT).
control(x) ==
    LET fd == call[x].fd
        vacant == events[fd] = {}
    IN  /\ ~ panicked
        /\ call[x].op \in CtlOps
        /\ evlock = None
        /\ events' = IF vacant <=> call[x].op = "EPOLL_CTL_ADD"
                     THEN [events EXCEPT ![fd] = call[x].ev] ELSE events
        /\ Return(x)
        /\ TableUnchanged
        /\ UNCHANGED <<PipePart, evlock, panicked>>

sys_epoll_wait(x, epfd, timed) ==
    /\ Idle(x)
    /\ objects[epfd] = Epoll
    /\ Set(x, [NoCall EXCEPT !.op = "epoll", !.file = Epoll, !.timed = timed])
    /\ TableUnchanged
    /\ UNCHANGED <<PipePart, EpollPart>>

\* poll_all locks the map and goes through it in the order of the descriptors.
poll_all(x) ==
    /\ In(x, "epoll")
    /\ evlock = None
    /\ evlock' = x
    /\ Set(x, [call[x] EXCEPT !.op = "scan", !.todo = {fd \in Fds : events[fd] # {}}])
    /\ TableUnchanged
    /\ UNCHANGED <<PipePart, events, panicked>>

\* FileLike::poll of the file: the console is always ready, an epoll instance
\* returns ENOSYS.
poll(f) ==
    {e \in {"in", "out"} :
        \/ f = Stdio
        \/ \E p \in Pipes : \/ e = "in" /\ f = ReadEnd(p) /\ available_read(ring[p]) > 0
                            \/ e = "out" /\ f = WriteEnd(p) /\ available_write(ring[p]) > 0}

\* The descriptor is looked up again, and polled.  Every event takes a slot of
\* the caller's array, which has maxevents: an index beyond it panics.  EBADF
\* unlocks the map and leaves the scan.
poll_all_fd(x) ==
    LET fd == Min(call[x].todo)
        n == call[x].n + Cardinality(events[fd] \cap poll(objects[fd]))
    IN  /\ In(x, "scan")
        /\ call[x].todo # {}
        /\ IF is_assigned(fd)
           THEN /\ Set(x, [call[x] EXCEPT !.todo = @ \ {fd}, !.n = n])
                /\ panicked' = (n > MaxEvents)
                /\ UNCHANGED evlock
           ELSE /\ Set(x, [call[x] EXCEPT !.op = "clean", !.todo = {}, !.n = 0])
                /\ evlock' = None
                /\ UNCHANGED panicked
        /\ TableUnchanged
        /\ UNCHANGED <<PipePart, events>>

\* Events or the deadline end the call; otherwise it yields and scans again.
poll_all_end(x) ==
    /\ In(x, "scan")
    /\ call[x].todo = {}
    /\ evlock' = None
    /\ IF call[x].n > 0 \/ call[x].timed = "passed"
       THEN Return(x)
       ELSE Set(x, [call[x] EXCEPT !.op = "epoll"])
    /\ TableUnchanged
    /\ UNCHANGED <<PipePart, events, panicked>>

mut_epoll_clean(x) ==
    /\ In(x, "clean")
    /\ evlock = None
    /\ events' = [fd \in Fds |-> {}]
    /\ Return(x)
    /\ TableUnchanged
    /\ UNCHANGED <<PipePart, evlock, panicked>>

\* After EBADF, with the map locked again: entries of descriptors that are
\* closed now go, and the call returns 0.
epoll_clean(x) ==
    /\ In(x, "clean")
    /\ evlock = None
    /\ events' = [fd \in Fds |-> IF is_assigned(fd) THEN events[fd] ELSE {}]
    /\ Return(x)
    /\ TableUnchanged
    /\ UNCHANGED <<PipePart, evlock, panicked>>

-----------------------------------------------------------------------------
(* poll and select                                                         *)

\* Both scan a set of descriptors the caller owns; nothing is locked between
\* two lookups.
sys_poll(x, fds, timed) ==
    /\ Idle(x)
    /\ Set(x, [NoCall EXCEPT !.op = "poll", !.want = fds, !.todo = fds, !.timed = timed])
    /\ TableUnchanged
    /\ UNCHANGED <<PipePart, EpollPart>>

\* EBADF ends the call.
sys_poll_fd(x) ==
    LET fd == Min(call[x].todo)
    IN  /\ In(x, "poll")
        /\ call[x].todo # {}
        /\ IF is_assigned(fd)
           THEN Set(x, [call[x] EXCEPT !.todo = @ \ {fd},
                                       !.n = @ + Cardinality(poll(objects[fd]))])
           ELSE Return(x)
        /\ TableUnchanged
        /\ UNCHANGED <<PipePart, EpollPart>>

mut_sys_poll_end(x) ==
    /\ In(x, "poll")
    /\ call[x].todo = {}
    /\ IF call[x].n > 0 THEN Return(x)
                         ELSE Set(x, [call[x] EXCEPT !.todo = call[x].want])
    /\ TableUnchanged
    /\ UNCHANGED <<PipePart, EpollPart>>

sys_poll_end(x) ==
    /\ In(x, "poll")
    /\ call[x].todo = {}
    /\ IF call[x].n > 0 \/ call[x].timed = "passed"
       THEN Return(x)
       ELSE Set(x, [call[x] EXCEPT !.todo = call[x].want])
    /\ TableUnchanged
    /\ UNCHANGED <<PipePart, EpollPart>>

\* current_time() reaches the deadline of a wait.
deadline_passes(x) ==
    /\ ~ panicked
    /\ call[x].timed = "running"
    /\ Set(x, [call[x] EXCEPT !.timed = "passed"])
    /\ TableUnchanged
    /\ UNCHANGED <<PipePart, EpollPart>>

-----------------------------------------------------------------------------
Call(x) ==
    \/ \E fd \in Fds :
        \/ "close" \in prog.uses[x] /\ sys_close(x, fd)
        \/ "dup" \in prog.uses[x] /\ sys_dup(x, fd)
        \/ "dup2" \in prog.uses[x] /\ \E new_fd \in Fds : sys_dup2(x, fd, new_fd)
        \/ "read" \in prog.uses[x] /\ \E n \in prog.reads : sys_read(x, fd, n)
        \/ "write" \in prog.uses[x] /\ \E n \in prog.writes, byte \in prog.bytes : sys_write(x, fd, n, byte)
        \/ "epoll" \in prog.uses[x] /\ \E timed \in {"never", "running"} : sys_epoll_wait(x, fd, timed)
        \/ "ctl" \in prog.uses[x] /\ \E op \in CtlOps, infd \in Watched, ev \in Interests :
                                    sys_epoll_ctl(x, fd, op, infd, ev)
    \/ "pipe" \in prog.uses[x] /\ \E p \in Pipes : sys_pipe(x, p)
    \/ "epoll_create" \in prog.uses[x] /\ sys_epoll_create(x)
    \/ "poll" \in prog.uses[x] /\ \E fds \in PollSets, timed \in {"never", "running"} :
                                sys_poll(x, fds, timed)

\* The steps of a call that need no lock another thread may hold on to.
Step(x) ==
    \/ dup_add(x) \/ dup2_get(x) \/ dup2_add(x) \/ sys_pipe_write_fd(x)
    \/ read(x) \/ write(x)
    \/ poll_all_fd(x) \/ poll_all_end(x)
    \/ sys_poll_fd(x) \/ sys_poll_end(x)

\* The steps that lock the epoll's map.
LockStep(x) == control(x) \/ poll_all(x) \/ epoll_clean(x)

Next == prog' = prog /\ \E x \in Procs : Call(x) \/ Step(x) \/ LockStep(x) \/ deadline_passes(x)

\* Every thread that can take a step of its call is scheduled; a waiter of the
\* map's mutex gets it in the end, for a scan that goes round yields unlocked.
Fairness ==
    \A x \in Procs : WF_vars(Step(x) /\ prog' = prog) /\ SF_vars(LockStep(x) /\ prog' = prog) /\ WF_vars(deadline_passes(x) /\ prog' = prog)

Spec == Init /\ [][Next]_vars

FairSpec == Spec /\ Fairness

-----------------------------------------------------------------------------
(* Properties.                                                             *)

\* The variables have their types; head and tail stay inside the ring buffer.
TypeOK ==
    /\ objects \in [Fds -> Files \cup {NoFile}]
    /\ count \in 0..RUX_FILE_LIMIT
    /\ ring \in [Pipes -> PipeRingBuffer]
    /\ events \in [Fds -> Interest]
    /\ evlock \in Procs \cup {None}
    /\ call \in [Procs -> Calls]
    /\ eof \subseteq Pipes
    /\ panicked \in BOOLEAN

(* FlattenObjects::count is the number of descriptors in use, whatever     *)
(* interleaving of add, add_at and remove led here: count is kept beside   *)
(* the bitmap and never recomputed from it.                                *)
CountMatches == count = Cardinality({fd \in Fds : is_assigned(fd)})

(* A read that returned 0 told the truth for good: the pipe stays empty and *)
(* no descriptor and no call in progress can write to it again.  The write  *)
(* end may survive its last descriptor inside a write, a dup, a dup2 or a   *)
(* pipe call, which Pipe::write_end_close sees by counting references.      *)
EofIsFinal ==
    \A p \in eof : ~ Live(WriteEnd(p)) /\ available_read(ring[p]) = 0

(* Pipes and descriptors keep count: every variable has its type, the       *)
(* counter of the table is the number of descriptors, and end of file is    *)
(* final.                                                                   *)
PipeEnds == TypeOK /\ CountMatches /\ EofIsFinal

\* What happens to the bytes of a pipe: some are added at the end, or some are
\* taken from the front.
Appends(old, new) ==
    Len(old) <= Len(new) /\ \A i \in 1..Len(old) : new[i] = old[i]
Takes(old, new) ==
    Len(new) <= Len(old) /\ \A i \in 1..Len(new) : new[i] = old[i + Len(old) - Len(new)]

(* A step of any thread appends to the bytes of a pipe or takes bytes from  *)
(* its front, so readers and writers that overlap lose, repeat and reorder  *)
(* nothing, also where head and tail of the PipeRingBuffer meet.            *)
PipeIsFifo ==
    [][\A p \in Pipes : \/ Appends(Contents(ring[p]), Contents(ring'[p]))
                        \/ Takes(Contents(ring[p]), Contents(ring'[p]))]_ring

(* The descriptors EpollInstance::poll_all has still to visit are in its    *)
(* map: the lock it holds across the lookups keeps epoll_ctl and the clean  *)
(* up of another waiter from changing the map under the scan.               *)
ScanSeesMap ==
    \A x \in Procs : call[x].op = "scan" => \A fd \in call[x].todo : events[fd] # {}

(* An interest in a descriptor that is open leaves the map only through an  *)
(* EPOLL_CTL_DEL that names it: the clean up after EBADF in sys_epoll_wait  *)
(* drops entries of closed descriptors, even if the descriptor was opened   *)
(* again between the failed scan and the clean up.                          *)
RegistrationKept ==
    [][\A fd \in Fds :
        events[fd] # {} /\ events'[fd] = {} /\ is_assigned(fd) /\ Live(Epoll) =>
            \E x \in Procs : call[x].op = "EPOLL_CTL_DEL" /\ call[x].fd = fd]_events

(* The map of an epoll instance under its users: a scan sees what is in it, *)
(* and a registration of an open descriptor stays.                          *)
EpollMap == []ScanSeesMap /\ RegistrationKept

(* A reader of a pipe whose write end is gone returns, with the bytes left  *)
(* or with 0: Pipe::read polls and has nobody to wake it.                   *)
ReadEnds ==
    \A x \in Procs, p \in Pipes :
        (call[x].op = "read" /\ call[x].file = ReadEnd(p) /\ write_end_close(p))
            ~> (call[x].op # "read" \/ panicked)

(* A poll, select or epoll_wait whose deadline has passed returns, whatever *)
(* descriptors other threads open, close and register meanwhile.            *)
TimedWaitEnds ==
    \A x \in Procs : (call[x].timed = "passed") ~> (call[x].op = "idle" \/ panicked)
=============================================================================
