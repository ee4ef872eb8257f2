-------------------------------- MODULE Stdio --------------------------------
(***************************************************************************)
(* The streams of the C library (ulib/ruxlibc/c/stdio.c) over the          *)
(* descriptors of the kernel. Output goes through a buffer that is written *)
(* at a line break or when it is full; puts, fwrite, fread and fgets go to *)
(* the descriptor directly. One thread uses the streams and others call    *)
(* puts, the only call that takes a lock.                                  *)
(***************************************************************************)
EXTENDS Integers, Sequences, FiniteSets, SequencesExt, FiniteSetsExt

CONSTANTS
    FILE_BUF_SIZE,
    StdThreads,    \* the threads that call puts
    StdTexts,      \* what the program prints: sequences over "a", "b" and "n", a line break
    StdModes,      \* the modes of fopen
    StdData,       \* what the file holds at first
    StdItems,      \* the pairs of size and nmemb for fread and fwrite
    StdLines,      \* the lengths for fgets
    StdFaults,     \* bound: the writes that fail or are cut short
    StdCalls       \* bound: the calls of a behaviour

VARIABLES
    std_sys,       \* the descriptors, the file and the log of what write took
    std_buf,       \* stream -> its buf, buffer_len bytes long
    std_given,     \* stream -> what the program gave it, and for which device
    std_lossy,     \* a write of a buffer was cut short or failed
    std_puts,      \* thread -> where it is in puts
    std_lock,      \* lock: the threads that hold it
    std_stream,    \* the stream fopen or fdopen gave: its fd, or 0
    std_ret,       \* what a call returned, and what it should have
    std_spins,     \* fread or fwrite goes round for ever
    std_faults, std_calls

std_vars == <<std_sys, std_buf, std_given, std_lossy, std_puts, std_lock, std_stream, std_ret, std_spins,
              std_faults, std_calls>>

Streams == {"stdout", "stderr"}

FdOf(f) == IF f = "stdout" THEN 1 ELSE 2

StdFds == 1..4

ClosedStream == [dev |-> "none", pos |-> 0, can |-> {}]

\* FUNCTIONS OF THE KERNEL -------------------------------------------------

\* A file that was truncated meanwhile is filled up with zeros.
std_overwritten(data, pos, bytes) ==
    SubSeq(data, 1, Min({pos, Len(data)})) \o [i \in 1..(pos - Len(data)) |-> "0"] \o bytes \o SubSeq(data, pos + Len(bytes) + 1, Len(data))

\* write(2): all of bytes, all but one of them ("short") or none and an error.
std_write(sys, fd, from, bytes, fault) ==
    LET d == sys.fd[fd]
        n == IF fault = "short" THEN Len(bytes) - 1 ELSE Len(bytes)
        at == IF "append" \in d.can THEN Len(sys.data) ELSE d.pos
        taken == SubSeq(bytes, 1, n)
    IN  IF "write" \notin d.can \/ fault = "error" THEN [sys |-> sys, r |-> -1]
        ELSE [r |-> n,
              sys |-> [sys EXCEPT !.fd[fd].pos = at + n,
                                  !.data = IF d.dev = "file" THEN std_overwritten(sys.data, at, taken) ELSE sys.data,
                                  !.log = sys.log \o [i \in 1..n |-> [dev |-> d.dev, from |-> from, byte |-> taken[i]]]]]

std_read(sys, fd, n, fault) ==
    LET d == sys.fd[fd]
        here == IF d.pos >= Len(sys.data) THEN 0 ELSE Min({n, Len(sys.data) - d.pos})
        len == IF fault = "short" /\ here > 1 THEN here - 1 ELSE here
    IN  IF "read" \notin d.can THEN [sys |-> sys, r |-> -1, bytes |-> <<>>]
        ELSE [sys |-> [sys EXCEPT !.fd[fd].pos = @ + len], r |-> len,
              bytes |-> SubSeq(sys.data, d.pos + 1, d.pos + len)]

LowestFd(sys) == Min({fd \in StdFds : sys.fd[fd] = ClosedStream})

std_open(sys, flags) ==
    IF ~sys.exists /\ "create" \notin flags THEN [sys |-> sys, fd |-> -1]
    ELSE [sys |-> [sys EXCEPT !.exists = TRUE,
                              !.data = IF "trunc" \in flags \/ ~sys.exists THEN <<>> ELSE @,
                              !.fd[LowestFd(sys)] = [dev |-> "file", pos |-> 0,
                                                     can |-> flags \cap {"read", "write", "append"}]],
          fd |-> LowestFd(sys)]

\* THE LIBRARY -------------------------------------------------------------

mut_out_full(buf, c) == Len(buf) = FILE_BUF_SIZE

out_full(buf, c) == Len(buf) = FILE_BUF_SIZE \/ c = "n"

\* out() of the characters s on stream f: st holds the kernel, the buffer and what the next write meets.
RECURSIVE out_chars(_, _, _)
out_chars(f, st, s) ==
    IF s = <<>> THEN st
    ELSE LET c == Head(s)
             buf == Append(st.buf, c)
             w == std_write(st.sys, FdOf(f), f, buf, st.fault)
             next == [sys |-> w.sys, buf |-> <<>>, fault |-> "none", lossy |-> st.lossy \/ w.r < Len(buf)]
         IN  IF ~out_full(buf, c) THEN out_chars(f, [st EXCEPT !.buf = buf], Tail(s))
             ELSE IF w.r < 0 THEN next
             ELSE out_chars(f, next, Tail(s))

\* vfprintf hands over one character at a time and ignores what out returns.
RECURSIVE vfprintf_chars(_, _, _)
vfprintf_chars(f, st, s) ==
    IF s = <<>> THEN st ELSE vfprintf_chars(f, out_chars(f, st, <<Head(s)>>), Tail(s))

\* perror: the message, a separator, the description and a line break, each by a call of out.
perror_chars(f, st, msg) ==
    LET one == out_chars(f, st, msg)
        two == out_chars(f, one, <<"b">>)
    IN  out_chars(f, out_chars(f, two, <<"a">>), <<"n">>)

Stream(f, fault) == [sys |-> std_sys, buf |-> std_buf[f], fault |-> fault, lossy |-> std_lossy]

mut_fflushed(f, fault) == Stream(f, fault)

fflushed(f, fault) ==
    LET st == Stream(f, fault)
        w == std_write(st.sys, FdOf(f), f, st.buf, fault)
    IN  IF st.buf = <<>> THEN st
        ELSE [st EXCEPT !.sys = w.sys, !.buf = <<>>, !.lossy = @ \/ w.r < Len(st.buf)]

fmodeflags(mode) ==
    (IF "+" \in mode THEN {"read", "write"} ELSE IF "r" \in mode THEN {"read"} ELSE {"write"})
    \cup (IF "r" \notin mode THEN {"create"} ELSE {})
    \cup (IF "w" \in mode THEN {"trunc"} ELSE {})
    \cup (IF "a" \in mode THEN {"append"} ELSE {})

\* The loops of fread and fwrite end when nothing comes; an error adds SIZE_MAX, and they go on for ever.
RECURSIVE fread_loop(_, _, _, _)
fread_loop(fd, st, total, fault) ==
    LET r == std_read(st.sys, fd, total - Len(st.got), fault)
        next == [st EXCEPT !.sys = r.sys, !.got = @ \o r.bytes]
    IN  IF r.r < 0 THEN [st EXCEPT !.spins = TRUE]
        ELSE IF r.r = 0 THEN next
        ELSE fread_loop(fd, next, total, "none")

RECURSIVE fwrite_loop(_, _, _, _)
fwrite_loop(fd, st, bytes, fault) ==
    LET w == std_write(st.sys, fd, "f", SubSeq(bytes, st.len + 1, Len(bytes)), fault)
    IN  IF w.r < 0 THEN [st EXCEPT !.spins = TRUE]
        ELSE IF w.r = 0 THEN [st EXCEPT !.sys = w.sys]
        ELSE fwrite_loop(fd, [st EXCEPT !.sys = w.sys, !.len = @ + w.r], bytes, "none")

RECURSIVE fgets_loop(_, _, _)
fgets_loop(fd, st, n) ==
    LET r == std_read(st.sys, fd, 1, "none")
        next == [st EXCEPT !.sys = r.sys, !.got = @ \o r.bytes]
    IN  IF Len(st.got) >= n - 1 \/ r.r <= 0 THEN st
        ELSE IF r.bytes = <<"n">> THEN next
        ELSE fgets_loop(fd, next, n)

items(len, size, nmemb) == IF len = size * nmemb THEN nmemb ELSE len \div size

-----------------------------------------------------------------------------

StdInit ==
    /\ std_sys = [fd |-> [fd \in StdFds |-> IF fd <= 2 THEN [dev |-> "tty", pos |-> 0, can |-> {"write"}] ELSE ClosedStream],
                  exists |-> TRUE, data |-> StdData, log |-> <<>>]
    /\ std_buf = [f \in Streams |-> <<>>]
    /\ std_given = [f \in Streams |-> <<>>]
    /\ std_lossy = FALSE
    /\ std_puts = [t \in StdThreads |-> "idle"]
    /\ std_lock = {}
    /\ std_stream = 0
    /\ std_ret = [got |-> 0, want |-> 0]
    /\ std_spins = FALSE
    /\ std_faults = 0
    /\ std_calls = 0

StdCall(fault) ==
    /\ ~std_spins
    /\ std_calls < StdCalls
    /\ std_calls' = std_calls + 1
    /\ fault # "none" => std_faults < StdFaults
    /\ std_faults' = IF fault = "none" THEN std_faults ELSE std_faults + 1

Faults == {"none", "short", "error"}

\* A call that goes through the buffer of f ends with st, having been given text.
Buffered(f, st, text) ==
    /\ std_sys' = st.sys
    /\ std_buf' = [std_buf EXCEPT ![f] = st.buf]
    /\ std_lossy' = st.lossy
    /\ std_given' = [std_given EXCEPT
          ![f] = @ \o [i \in 1..Len(text) |-> [dev |-> std_sys.fd[FdOf(f)].dev, byte |-> text[i]]]]
    /\ UNCHANGED <<std_puts, std_lock, std_stream, std_ret, std_spins>>

\* A stream that a failed freopen has closed is not used again by a program.
Usable(f) == std_sys.fd[FdOf(f)] # ClosedStream /\ std_stream # FdOf(f)

fputc(f, c, fault) ==
    /\ Usable(f)
    /\ StdCall(fault)
    /\ Buffered(f, out_chars(f, Stream(f, fault), <<c>>), <<c>>)

vfprintf(f, text, fault) ==
    /\ Usable(f)
    /\ StdCall(fault)
    /\ Buffered(f, vfprintf_chars(f, Stream(f, fault), text), text)

perror(msg, fault) ==
    /\ Usable("stderr")
    /\ StdCall(fault)
    /\ Buffered("stderr", perror_chars("stderr", Stream("stderr", fault), msg), msg \o <<"b", "a", "n">>)

fflush(f, fault) ==
    /\ Usable(f)
    /\ StdCall(fault)
    /\ Buffered(f, fflushed(f, fault), <<>>)

mut_puts_lock(t) == std_lock' = std_lock \cup {t}

puts_lock(t) == std_lock = {} /\ std_lock' = {t}

puts_begin(t) ==
    /\ std_puts[t] = "idle"
    /\ std_calls < StdCalls
    /\ std_calls' = std_calls + 1
    /\ puts_lock(t)
    /\ std_puts' = [std_puts EXCEPT ![t] = "text"]
    /\ UNCHANGED <<std_sys, std_buf, std_given, std_lossy, std_stream, std_ret, std_spins, std_faults>>

puts_text(t) ==
    /\ std_puts[t] = "text"
    /\ std_puts' = [std_puts EXCEPT ![t] = "break"]
    /\ std_sys' = std_write(std_sys, 1, t, <<"a">>, "none").sys
    /\ UNCHANGED <<std_buf, std_given, std_lossy, std_lock, std_stream, std_ret, std_spins, std_faults, std_calls>>

puts_break(t) ==
    /\ std_puts[t] = "break"
    /\ std_puts' = [std_puts EXCEPT ![t] = "idle"]
    /\ std_sys' = std_write(std_sys, 1, t, <<"n">>, "none").sys
    /\ std_lock' = std_lock \ {t}
    /\ UNCHANGED <<std_buf, std_given, std_lossy, std_stream, std_ret, std_spins, std_faults, std_calls>>

fopen(mode) ==
    LET o == std_open(std_sys, fmodeflags(mode))
    IN  /\ std_stream = 0
        /\ StdCall("none")
        /\ std_sys' = o.sys
        /\ std_stream' = IF o.fd < 0 THEN 0 ELSE o.fd
        /\ UNCHANGED <<std_buf, std_given, std_lossy, std_puts, std_lock, std_ret, std_spins>>

fclose ==
    /\ std_stream # 0
    /\ StdCall("none")
    /\ std_sys' = [std_sys EXCEPT !.fd[std_stream] = ClosedStream]
    /\ std_stream' = 0
    /\ UNCHANGED <<std_buf, std_given, std_lossy, std_puts, std_lock, std_ret, std_spins>>

\* A call on the stream of fopen that ends in the state st of the kernel with the value got.
Direct(st, spins, got, want) ==
    /\ std_sys' = st
    /\ std_spins' = spins
    /\ std_ret' = IF spins THEN std_ret ELSE [got |-> got, want |-> want]
    /\ UNCHANGED <<std_buf, std_given, std_lossy, std_puts, std_lock, std_stream>>

\* What is left of the file behind the position of the stream.
Rest == SubSeq(std_sys.data, std_sys.fd[std_stream].pos + 1, Len(std_sys.data))

fread(size, nmemb, fault) ==
    /\ std_stream # 0
    /\ fault # "error"
    /\ StdCall(fault)
    /\ LET total == size * nmemb
           st == fread_loop(std_stream, [sys |-> std_sys, got |-> <<>>, spins |-> FALSE], total, fault)
           want == SubSeq(Rest, 1, Min({total, Len(Rest)}))
       IN  Direct(st.sys, st.spins, <<items(Len(st.got), size, nmemb), st.got>>, <<Len(want) \div size, want>>)

\* fputs is fwrite of items of one byte.
fwrite(size, nmemb, fault) ==
    /\ std_stream # 0
    /\ fault # "error"
    /\ StdCall(fault)
    /\ LET bytes == [i \in 1..(size * nmemb) |-> "b"]
           st == fwrite_loop(std_stream, [sys |-> std_sys, len |-> 0, spins |-> FALSE], bytes, fault)
           d == std_sys.fd[std_stream]
           at == IF "append" \in d.can THEN Len(std_sys.data) ELSE d.pos
       IN  Direct(st.sys, st.spins, <<items(st.len, size, nmemb), st.sys.data>>,
                  <<nmemb, std_overwritten(std_sys.data, at, bytes)>>)

\* A line: up to and with its break, and n - 1 characters at most.
fgets(n) ==
    /\ std_stream # 0
    /\ StdCall("none")
    /\ LET st == fgets_loop(std_stream, [sys |-> std_sys, got |-> <<>>], n)
           breaks == {i \in 1..Len(Rest) : Rest[i] = "n"}
           want == SubSeq(Rest, 1, Min({n - 1, Len(Rest)} \cup breaks))
       IN  IF n <= 1 THEN Direct(std_sys, FALSE, <<>>, <<>>)
           ELSE Direct(st.sys, FALSE, st.got, IF "read" \in std_sys.fd[std_stream].can THEN want ELSE <<>>)

\* freopen of stderr: flush, open the file, and put its descriptor in the place of fd 2.
freopen(mode, fault) ==
    LET st == fflushed("stderr", fault)
        o == std_open(st.sys, fmodeflags(mode))
        sys == IF o.fd < 0 THEN [st.sys EXCEPT !.fd[2] = ClosedStream]
               ELSE IF o.fd = 2 THEN o.sys
               ELSE [o.sys EXCEPT !.fd[2] = o.sys.fd[o.fd], !.fd[o.fd] = ClosedStream]
    IN  /\ std_stream # 2
        /\ StdCall(fault)
        /\ Buffered("stderr", [st EXCEPT !.sys = sys], <<>>)

\* std_remove: a name is gone, open descriptors are not part of this model.
std_remove ==
    /\ std_sys.exists
    /\ \A fd \in StdFds : std_sys.fd[fd].dev # "file"
    /\ StdCall("none")
    /\ std_sys' = [std_sys EXCEPT !.exists = FALSE, !.data = <<>>]
    /\ UNCHANGED <<std_buf, std_given, std_lossy, std_puts, std_lock, std_stream, std_ret, std_spins>>

StdNext ==
    \/ \E f \in Streams, fault \in Faults :
          \/ \E c \in {"a", "n"} : fputc(f, c, fault)
          \/ \E text \in StdTexts : vfprintf(f, text, fault)
          \/ fflush(f, fault)
    \/ \E fault \in Faults : perror(<<"a">>, fault) \/ \E mode \in StdModes : freopen(mode, fault)
    \/ \E t \in StdThreads : puts_begin(t) \/ puts_text(t) \/ puts_break(t)
    \/ \E mode \in StdModes : fopen(mode)
    \/ fclose \/ std_remove
    \/ \E item \in StdItems, fault \in Faults : fread(item[1], item[2], fault) \/ fwrite(item[1], item[2], fault)
    \/ \E n \in StdLines : fgets(n)

-----------------------------------------------------------------------------

StdSent(f) == LET mine == SelectSeq(std_sys.log, LAMBDA e : e.from = f)
           IN  [i \in 1..Len(mine) |-> [dev |-> mine[i].dev, byte |-> mine[i].byte]]

ByPuts == SelectSeq(std_sys.log, LAMBDA e : e.from \in StdThreads)

\* What a stream has written and what its buffer holds are together what the program gave it, in order
\* and each byte at the device it was meant for: nothing is left behind by out, fflush or freopen
\* (stdio.c:66, 350) unless a write was cut short or failed, and then nothing is written twice. No
\* complete line waits in a buffer. The two writes of puts (stdio.c:123, 125) stay together although
\* threads call it at the same time. fread, fwrite and fgets return what the file holds there, across
\* reads and writes that are cut short and whatever mode it was opened with.
StdioMatches ==
    /\ \A f \in Streams :
          /\ Len(StdSent(f)) + Len(std_buf[f]) <= Len(std_given[f])
          /\ ~std_lossy =>
                /\ StdSent(f) = SubSeq(std_given[f], 1, Len(StdSent(f)))
                /\ Len(StdSent(f)) + Len(std_buf[f]) = Len(std_given[f])
                /\ \A i \in 1..Len(std_buf[f]) :
                      std_given[f][Len(StdSent(f)) + i] = [dev |-> std_sys.fd[FdOf(f)].dev, byte |-> std_buf[f][i]]
          /\ \A i \in 1..Len(std_buf[f]) : std_buf[f][i] # "n"
    /\ \A i \in 1..(Len(ByPuts) - 1) : i % 2 = 1 =>
          ByPuts[i].from = ByPuts[i + 1].from /\ ByPuts[i].byte = "a" /\ ByPuts[i + 1].byte = "n"
    /\ std_ret.got = std_ret.want
=============================================================================
