-------------------------------- MODULE Tty --------------------------------
(***************************************************************************)
(* The terminal: the UART interrupts, the line discipline edits a line and *)
(* echoes it, a complete line can be read, and standard input reads it     *)
(* through a BufReader shared by the threads.  Without the tty feature the *)
(* bytes go through a ring to the reader as they are.  A terminal on the   *)
(* other end of the line shows what is echoed.                             *)
(***************************************************************************)
EXTENDS Integers, Sequences, FiniteSets, FiniteSetsExt, SequencesExt

CONSTANTS TTY_BUF_SIZE, RX_BUFFER_SIZE, BUF_READER_SIZE,
          TtyModes,     \* the features of the build, what arrives with one interrupt,
                        \* and how many interrupts and reads there are: [tty, smp, inputs, irqs, reads]
          TtyReaders,   \* the threads that read standard input
          TtyLens       \* the sizes of their buffers

VARIABLES tty_mode, tty_irq, tty_rec, tty_echo, tty_read, tty_screen, tty_rx,
          tty_fault,    \* the kernel has panicked, or hangs in the interrupt
          tty_filled,   \* some buffer has been full
          tty_typed,    \* everything the UART has received
          tty_stdin,    \* the BufReader and who has its lock
          tty_got,      \* what the readers got, in the order in which they had the lock
          tty_pc, tty_irqs, tty_reads
tty_vars == <<tty_mode, tty_irq, tty_rec, tty_echo, tty_read, tty_screen, tty_rx, tty_fault,
              tty_filled, tty_typed, tty_stdin, tty_got, tty_pc, tty_irqs, tty_reads>>

-----------------------------------------------------------------------------
(* TtyBuffer: head stays 0; tail wraps below 0 when a full buffer shrinks.  *)

EmptyBuf == [data |-> <<>>, tail |-> 0]
TtyFull(b) == Len(b.data) = TTY_BUF_SIZE
\* tail is the index that is written: out of bounds, the kernel panics.
PushPanics(b) == ~TtyFull(b) /\ b.tail < 0
tty_push(b, ch) == IF TtyFull(b) THEN b ELSE [data |-> Append(b.data, ch), tail |-> (b.tail + 1) % TTY_BUF_SIZE]
mut_tty_insert(b, ch, i) ==
  IF TtyFull(b) \/ i > Len(b.data) THEN b
  ELSE [data |-> Append(b.data, ch), tail |-> (b.tail + 1) % TTY_BUF_SIZE]
tty_insert(b, ch, i) ==
  IF TtyFull(b) \/ i > Len(b.data) THEN b
  ELSE [data |-> InsertAt(b.data, i + 1, ch), tail |-> (b.tail + 1) % TTY_BUF_SIZE]
tty_delete(b, i) == IF i < Len(b.data) THEN [data |-> RemoveAt(b.data, i + 1), tail |-> b.tail - 1] ELSE b

\* RxRingBuffer of the UART, without the tty feature.
rx_push(q, ch) == IF q.tail # q.head \/ q.empty
                  THEN [q EXCEPT !.buffer[q.tail] = ch, !.tail = (@ + 1) % RX_BUFFER_SIZE, !.empty = FALSE] ELSE q
rx_pop(q) == [q EXCEPT !.head = (@ + 1) % RX_BUFFER_SIZE, !.empty = (q.head + 1) % RX_BUFFER_SIZE = q.tail]
RxLen(q) == IF q.empty THEN 0 ELSE IF q.tail > q.head THEN q.tail - q.head ELSE q.tail + RX_BUFFER_SIZE - q.head
RxData(q) == [i \in 1..RxLen(q) |-> q.buffer[(q.head + i - 1) % RX_BUFFER_SIZE]]

-----------------------------------------------------------------------------
(* The other end: what a terminal does with the bytes it gets.              *)

Arrow(ch) == <<"ESC", "[", ch>>
RECURSIVE Shows(_, _)
Shows(s, out) ==
  IF out = <<>> THEN s
  ELSE CASE out[1] = "ESC" -> Shows([s EXCEPT !.cur = IF out[3] = "D" THEN @ - 1 ELSE @ + 1], SubSeq(out, 4, Len(out)))
         [] out[1] = "BS" -> Shows([s EXCEPT !.cur = @ - 1], Tail(out))
         [] out[1] = "LF" -> Shows([line |-> <<>>, cur |-> 0], Tail(out))
         [] OTHER -> Shows([line |-> [i \in 1..Max({Len(s.line), s.cur + 1}) |->
                                        IF i = s.cur + 1 THEN out[1] ELSE s.line[i]], cur |-> s.cur + 1], Tail(out))
Repeated(n, out) == FlattenSeq([i \in 1..n |-> out])
LineRest(b, col) == SubSeq(b.data, col + 1, Len(b.data))

-----------------------------------------------------------------------------
(* receive_buf.  s is the state of the line discipline while it runs.      *)

arrow(s, ch) ==
  CASE ch = "D" /\ s.echo.col > 0 -> [s EXCEPT !.out = @ \o Arrow(ch), !.echo.col = @ - 1]
    [] ch = "C" /\ s.echo.col < Len(s.echo.b.data) -> [s EXCEPT !.out = @ \o Arrow(ch), !.echo.col = @ + 1]
    [] OTHER -> s

\* The whole line, with its end, goes to the read buffer.
RECURSIVE line_moved(_)
line_moved(s) ==
  IF s.echo.b.data = <<>> THEN s
  ELSE IF PushPanics(s.read) THEN [s EXCEPT !.fault = TRUE]
  ELSE line_moved([s EXCEPT !.read = tty_push(@, s.echo.b.data[1]), !.echo.b = tty_delete(@, 0),
                       !.filled = @ \/ TtyFull(s.read) \/ Len(s.read.data) + 1 = TTY_BUF_SIZE])
newline(s) ==
  IF PushPanics(s.echo.b) THEN [s EXCEPT !.fault = TRUE]
  ELSE [line_moved([s EXCEPT !.out = Append(@, "LF"), !.echo.b = tty_push(@, "LF"),
                        !.filled = @ \/ Len(s.echo.b.data) + 1 >= TTY_BUF_SIZE]) EXCEPT !.echo.col = 0]

backspace(s) ==
  LET col == s.echo.col
      len == Len(s.echo.b.data) IN
  IF col = 0 THEN s
  ELSE IF len - col + 1 < 0 THEN [s EXCEPT !.fault = TRUE]
  ELSE [s EXCEPT !.out = @ \o <<"BS", "SPACE", "BS">> \o
                         (IF col = len THEN <<>>
                          ELSE LineRest(s.echo.b, col) \o <<"SPACE">> \o Repeated(len - col + 1, Arrow("D"))),
                 !.echo.b = tty_delete(@, col - 1), !.echo.col = @ - 1]

\* The column moves even if the line is full; then len - col wraps and the
\* loop that moves the cursor back does not end.
ordinary(s, ch) ==
  LET col == s.echo.col
      len == Len(s.echo.b.data) IN
  IF col > len THEN [s EXCEPT !.fault = TRUE]
  ELSE [s EXCEPT !.out = @ \o <<ch>> \o LineRest(s.echo.b, col) \o Repeated(len - col, Arrow("D")),
                 !.echo.b = tty_insert(@, ch, col), !.echo.col = @ + 1,
                 !.filled = @ \/ len + 1 >= TTY_BUF_SIZE]

RecPop(s, n) == [s EXCEPT !.rec = SubSeq(@, n + 1, Len(@))]
RECURSIVE receive(_)
receive(s) ==
  IF s.rec = <<>> \/ s.fault THEN s
  ELSE IF s.rec[1] = "ESC"
       THEN CASE Len(s.rec) < 3 -> s
              \* not an arrow: two bytes are dropped and the loop is left
              [] Len(s.rec) >= 3 /\ s.rec[2] # "[" -> RecPop(s, 2)
              [] Len(s.rec) >= 3 /\ s.rec[2] = "[" -> receive(arrow(RecPop(s, 3), s.rec[3]))
       ELSE receive(CASE s.rec[1] \in {"CR", "LF"} -> newline(RecPop(s, 1))
                      [] s.rec[1] \in {"BS", "DEL"} -> backspace(RecPop(s, 1))
                      [] OTHER -> ordinary(RecPop(s, 1), s.rec[1]))

-----------------------------------------------------------------------------
FirstPanics == tty_fault \/ tty_mode = {}
TtyMode == CHOOSE m \in tty_mode : TRUE

tty_boot ==
  /\ tty_mode = {} /\ \E m \in TtyModes : tty_mode' = {m}
  /\ UNCHANGED <<tty_irq, tty_rec, tty_echo, tty_read, tty_screen, tty_rx, tty_fault, tty_filled,
                 tty_typed, tty_stdin, tty_got, tty_pc, tty_irqs, tty_reads>>

\* The handler takes the lock of the UART and empties it.
irq_handler ==
  /\ ~FirstPanics /\ tty_irq = <<>> /\ tty_irqs < TtyMode.irqs
  /\ tty_irqs' = tty_irqs + 1
  /\ \E buf \in TtyMode.inputs :
       /\ tty_typed' = tty_typed \o buf
       /\ IF TtyMode.tty THEN tty_irq' = buf /\ UNCHANGED <<tty_rx, tty_filled>>
          ELSE /\ tty_rx' = FoldLeft(rx_push, tty_rx, buf) /\ UNCHANGED tty_irq
               /\ tty_filled' = (tty_filled \/ RxLen(tty_rx) + Len(buf) > RX_BUFFER_SIZE)
  /\ UNCHANGED <<tty_mode, tty_rec, tty_echo, tty_read, tty_screen, tty_fault, tty_stdin, tty_got, tty_pc, tty_reads>>

\* Echoing takes the lock of the UART again: with smp it is a real lock, and
\* the handler waits for itself.
tty_receive_buf ==
  /\ ~FirstPanics /\ tty_irq # <<>>
  /\ LET r == receive([rec |-> tty_rec \o tty_irq, echo |-> tty_echo, read |-> tty_read, out |-> <<>>,
                       fault |-> FALSE, filled |-> tty_filled]) IN
     /\ ~TtyMode.smp \/ r.out = <<>>
     /\ tty_rec' = r.rec /\ tty_echo' = r.echo /\ tty_read' = r.read
     /\ tty_fault' = r.fault /\ tty_filled' = r.filled
     /\ tty_screen' = Shows(tty_screen, r.out)
  /\ tty_irq' = <<>>
  /\ UNCHANGED <<tty_mode, tty_rx, tty_typed, tty_stdin, tty_got, tty_pc, tty_irqs, tty_reads>>

-----------------------------------------------------------------------------
(* Standard input.  A thread runs when no interrupt is handled, or on       *)
(* another CPU.                                                            *)

ThreadRuns(t, pc) == ~FirstPanics /\ tty_pc[t].at = pc /\ (TtyMode.smp \/ tty_irq = <<>>)
ThreadGoes(t, r) == tty_pc' = [tty_pc EXCEPT ![t] = r]
TtyWaiting == IF TtyMode.tty THEN Len(tty_read.data) ELSE RxLen(tty_rx)

\* read_blocked waits for the lock, read_nonblocked gives up.
stdin_read(t) ==
  /\ ThreadRuns(t, "idle") /\ tty_reads < TtyMode.reads /\ tty_reads' = tty_reads + 1
  /\ \E n \in TtyLens, nonblock \in BOOLEAN :
       IF nonblock /\ tty_stdin.held # {} THEN UNCHANGED tty_pc
       ELSE ThreadGoes(t, [at |-> "lock", n |-> n, nonblock |-> nonblock, into |-> "user", left |-> 0, data |-> <<>>])
  /\ UNCHANGED <<tty_mode, tty_irq, tty_rec, tty_echo, tty_read, tty_screen, tty_rx, tty_fault, tty_filled,
                 tty_typed, tty_stdin, tty_got, tty_irqs>>

\* BufReader::read: with an empty buffer a large read goes past it, another
\* fills it; how much there is to read is asked once.
buf_read(t) ==
  /\ ThreadRuns(t, "lock") /\ tty_stdin.held = {}
  /\ tty_stdin' = [tty_stdin EXCEPT !.held = {t}]
  /\ LET n == tty_pc[t].n
         empty == tty_stdin.data = <<>> IN
     ThreadGoes(t, CASE empty /\ n >= BUF_READER_SIZE ->
                          [tty_pc[t] EXCEPT !.at = "pop", !.into = "user", !.left = Min({n, TtyWaiting})]
                     [] empty /\ n < BUF_READER_SIZE ->
                          [tty_pc[t] EXCEPT !.at = "pop", !.into = "buf", !.left = Min({BUF_READER_SIZE, TtyWaiting})]
                     [] ~empty -> [tty_pc[t] EXCEPT !.at = "copy"])
  /\ UNCHANGED <<tty_mode, tty_irq, tty_rec, tty_echo, tty_read, tty_screen, tty_rx, tty_fault, tty_filled,
                 tty_typed, tty_got, tty_irqs, tty_reads>>

\* One byte at a time, each under the lock of the buffer.
read_pop(t) ==
  /\ ThreadRuns(t, "pop") /\ tty_pc[t].left > 0
  /\ LET ch == IF TtyMode.tty THEN tty_read.data[1] ELSE RxData(tty_rx)[1]
         to == IF ch = "CR" THEN "LF" ELSE ch IN
     ThreadGoes(t, [tty_pc[t] EXCEPT !.left = @ - 1, !.data = Append(@, to)])
  /\ tty_read' = IF TtyMode.tty THEN tty_delete(tty_read, 0) ELSE tty_read
  /\ tty_rx' = IF TtyMode.tty THEN tty_rx ELSE rx_pop(tty_rx)
  /\ UNCHANGED <<tty_mode, tty_irq, tty_rec, tty_echo, tty_screen, tty_fault, tty_filled,
                 tty_typed, tty_stdin, tty_got, tty_irqs, tty_reads>>

ReadOver(t) == ThreadRuns(t, "copy") \/ (ThreadRuns(t, "pop") /\ tty_pc[t].left = 0)
\* As if the buffer were consumed up to its end.
mut_read_done(t) ==
  /\ ReadOver(t)
  /\ LET p == tty_pc[t]
         avail == IF p.into = "buf" /\ p.at = "pop" THEN p.data ELSE tty_stdin.data
         nread == IF p.at = "pop" /\ p.into = "user" THEN p.data ELSE SubSeq(avail, 1, Min({p.n, Len(avail)})) IN
     /\ tty_got' = tty_got \o nread
     /\ tty_stdin' = [data |-> <<>>, held |-> {}]
     /\ ThreadGoes(t, IF nread = <<>> /\ ~p.nonblock /\ p.n > 0 THEN [p EXCEPT !.at = "lock", !.data = <<>>]
                      ELSE [p EXCEPT !.at = "idle", !.data = <<>>])
  /\ UNCHANGED <<tty_mode, tty_irq, tty_rec, tty_echo, tty_read, tty_screen, tty_rx, tty_fault, tty_filled,
                 tty_typed, tty_irqs, tty_reads>>

\* The end of the read: what does not fit stays in the buffer; a blocking
\* reader that got nothing tries again.
read_done(t) ==
  /\ ReadOver(t)
  /\ LET p == tty_pc[t]
         avail == IF p.into = "buf" /\ p.at = "pop" THEN p.data ELSE tty_stdin.data
         nread == IF p.at = "pop" /\ p.into = "user" THEN p.data ELSE SubSeq(avail, 1, Min({p.n, Len(avail)})) IN
     /\ tty_got' = tty_got \o nread
     /\ tty_stdin' = [data |-> IF p.at = "pop" /\ p.into = "user" THEN <<>> ELSE SubSeq(avail, Len(nread) + 1, Len(avail)),
                      held |-> {}]
     /\ ThreadGoes(t, IF nread = <<>> /\ ~p.nonblock /\ p.n > 0 THEN [p EXCEPT !.at = "lock", !.data = <<>>]
                      ELSE [p EXCEPT !.at = "idle", !.data = <<>>])
  /\ UNCHANGED <<tty_mode, tty_irq, tty_rec, tty_echo, tty_read, tty_screen, tty_rx, tty_fault, tty_filled,
                 tty_typed, tty_irqs, tty_reads>>

TtyInit ==
  /\ tty_mode = {} /\ tty_irq = <<>> /\ tty_rec = <<>> /\ tty_echo = [b |-> EmptyBuf, col |-> 0]
  /\ tty_read = EmptyBuf /\ tty_screen = [line |-> <<>>, cur |-> 0]
  /\ tty_rx = [buffer |-> [i \in 0..(RX_BUFFER_SIZE - 1) |-> "NUL"], head |-> 0, tail |-> 0, empty |-> TRUE]
  /\ tty_fault = FALSE /\ tty_filled = FALSE /\ tty_typed = <<>>
  /\ tty_stdin = [data |-> <<>>, held |-> {}] /\ tty_got = <<>>
  /\ tty_pc = [t \in TtyReaders |-> [at |-> "idle", n |-> 0, nonblock |-> FALSE, into |-> "user", left |-> 0, data |-> <<>>]]
  /\ tty_irqs = 0 /\ tty_reads = 0
TtyNext ==
  \/ tty_boot \/ irq_handler \/ tty_receive_buf
  \/ \E t \in TtyReaders : stdin_read(t) \/ buf_read(t) \/ read_pop(t) \/ read_done(t)

-----------------------------------------------------------------------------
\* A line editor: what is left and right of the cursor, and the lines entered.
RECURSIVE Edited(_, _)
Edited(e, in) ==
  IF in = <<>> THEN e
  ELSE IF in[1] = "ESC"
       THEN IF Len(in) < 3 THEN e
            ELSE IF in[2] # "[" THEN Edited(e, SubSeq(in, 3, Len(in)))
            ELSE Edited(CASE in[3] = "D" /\ e.left # <<>> ->
                               [e EXCEPT !.left = Front(@), !.right = <<Last(e.left)>> \o @]
                          [] in[3] = "C" /\ e.right # <<>> ->
                               [e EXCEPT !.left = Append(@, e.right[1]), !.right = Tail(@)]
                          [] OTHER -> e, SubSeq(in, 4, Len(in)))
       ELSE Edited(CASE in[1] \in {"CR", "LF"} -> [left |-> <<>>, right |-> <<>>, lines |-> e.lines \o e.left \o e.right \o <<"LF">>]
                     [] in[1] \in {"BS", "DEL"} /\ e.left # <<>> -> [e EXCEPT !.left = Front(@)]
                     [] in[1] \in {"BS", "DEL"} /\ e.left = <<>> -> e
                     [] OTHER -> [e EXCEPT !.left = Append(@, in[1])], Tail(in))
TypedDone == SubSeq(tty_typed, 1, Len(tty_typed) - Len(tty_rec) - Len(tty_irq))
Editor == Edited([left |-> <<>>, right |-> <<>>, lines |-> <<>>], TypedDone)
InFlight == FlattenSeq(SetToSeq({tty_pc[t].data : t \in TtyReaders}))

\* As long as no buffer has been full, the readers have got, in order and each
\* byte once, the lines as an editor would have them (the bytes as they came
\* without the tty feature): what they have, what the BufReader and a reader
\* still have, and what can be read are together all that was entered.
StdinIsTyped ==
  tty_mode # {} /\ ~tty_filled =>
    tty_got \o tty_stdin.data \o InFlight \o (IF TtyMode.tty THEN tty_read.data ELSE [i \in 1..RxLen(tty_rx) |-> IF RxData(tty_rx)[i] = "CR" THEN "LF" ELSE RxData(tty_rx)[i]])
      = IF TtyMode.tty THEN Editor.lines
        ELSE [i \in 1..Len(tty_typed) |-> IF tty_typed[i] = "CR" THEN "LF" ELSE tty_typed[i]]

\* As long as no buffer has been full, the terminal shows the line that is
\* being edited, and its cursor is where the next character goes.
ScreenMatches ==
  ~tty_filled /\ (\E m \in tty_mode : m.tty) =>
    /\ tty_screen.cur = tty_echo.col /\ tty_echo.b.data = Editor.left \o Editor.right
    /\ tty_echo.col = Len(Editor.left)
    /\ \A i \in 1..Max({Len(tty_screen.line), Len(tty_echo.b.data)}) :
         IF i <= Len(tty_echo.b.data) THEN i <= Len(tty_screen.line) /\ tty_screen.line[i] = tty_echo.b.data[i]
         ELSE tty_screen.line[i] = "SPACE"

\* What arrives is processed and echoed (TtyLdisc::receive_buf, running in the
\* interrupt): the handler comes to its end.
EchoComes == (tty_irq # <<>>) ~> (tty_irq = <<>>)
TtyFairness == WF_tty_vars(tty_receive_buf)
=============================================================================
