-------------------------------- MODULE Net --------------------------------
(***************************************************************************)
(* The sockets of ruxnet over smoltcp, and the posix calls on them.  Every *)
(* socket of the program sits in a mutex (Socket in net.rs); below it are  *)
(* the set of smoltcp sockets (SOCKET_SET), one entry per port of the      *)
(* LISTEN_TABLE and the interface (ETH0), each with a mutex of its own.    *)
(* A step ends where a thread takes one of these for longer than a moment  *)
(* or lets the network move (poll_interfaces).                             *)
(*                                                                         *)
(* smoltcp is external: a socket of the set has a TCP state, and receives  *)
(* what the network sends when somebody polls the interface.               *)
(***************************************************************************)
EXTENDS Integers, Sequences, FiniteSets, SequencesExt

CONSTANTS Threads,            \* 1..n
          Ports,              \* 1..n, the ephemeral ports too
          Socks,              \* the descriptors of the program
          Handles,            \* the bound on the sockets of the set
          Peers,              \* the addresses of other hosts
          LISTEN_QUEUE_SIZE,
          MaxPackets,         \* the bound on what the network sends
          Programs            \* what may run: [ops: calls, sockets, also, times]

VARIABLES sk,      \* the TcpSockets and UdpSockets of the descriptors
          set,     \* SOCKET_SET
          table,   \* LISTEN_TABLE, the syn_queue of each port
          lock,    \* who holds which mutex
          th,      \* what each thread is doing
          curr,    \* CURR of get_ephemeral_port
          program, \* the program that runs
          budget   \* the calls and the packets that are left

vars == <<sk, set, table, lock, th, curr, program, budget>>

None == 0
MSG_PEEK == 2
MSG_DONTWAIT == 64
IOV == 2  \* the parts of a message
Iface == <<"iface", 0>>
Set == <<"set", 0>>
Entry(p) == <<"entry", p>>
Sock(s) == <<"sock", s>>
Locks == {Iface, Set} \cup {Entry(p) : p \in Ports} \cup {Sock(s) : s \in Socks}

NoSock == [kind |-> "free", open |-> FALSE, st |-> "CLOSED", handle |-> None, port |-> 0, peer |-> 0, nonblock |-> FALSE]
NoEntry == [listening |-> FALSE, queue |-> <<>>]
NoSocket == [st |-> "none", port |-> 0, rx |-> 0, tx |-> 0, q |-> <<>>]
Idle == [pc |-> "idle", op |-> "", s |-> 0, arg |-> 0, i |-> 0, port |-> 0, then |-> "", res |-> "", more |-> 0]

\* A moment with the set: nobody else may hold it.
SetFree == lock[Set] = None
Acquire(t, l) == lock[l] = None /\ lock' = [lock EXCEPT ![l] = t]

At(t, pc) == th[t].pc = pc
Goes(t, pc) == th' = [th EXCEPT ![t].pc = pc]
Polls(t, pc) == th' = [th EXCEPT ![t].pc = "p_iface", ![t].then = pc]
Me(t) == sk[th[t].s]
Mine(t) == set[Me(t).handle]

\* The call returns; the descriptor is free again in the same step.
Returns(t, res, locks) ==
  /\ th' = [th EXCEPT ![t].pc = "ret", ![t].res = res]
  /\ lock' = [l \in Locks |-> IF l \in locks THEN None ELSE lock[l]]

\* The thread lets go of the descriptor.  The last one to do so after a close
\* runs the destructor of the socket.
LastUser(t) == ~Me(t).open /\ \A u \in Threads \ {t} : th[u].pc = "idle" \/ th[u].s # th[t].s

ret(t) ==
  /\ At(t, "ret")
  /\ IF LastUser(t) /\ ~(th[t].more > 0 /\ th[t].res = "ok")
     THEN th' = [th EXCEPT ![t].pc = IF Me(t).kind = "tcp" THEN "shutdown" ELSE "u_close", ![t].op = "drop"]
     ELSE th' = [th EXCEPT ![t] = IF @.more > 0 /\ @.res = "ok" THEN [@ EXCEPT !.pc = "lock", !.more = @ - 1] ELSE Idle]
  /\ lock' = [lock EXCEPT ![Sock(th[t].s)] = IF @ = t THEN None ELSE @]
  /\ UNCHANGED <<sk, set, table, curr, program, budget>>

-----------------------------------------------------------------------------
(* Ports, and the entries of the listen table.                             *)

\* As if listen did not look whether the port is taken.
mut_can_listen(p) == TRUE

can_listen(p) == ~table[p].listening

\* The first port from CURR on that nobody listens on, 0 when there is none.
PortAt(k) == ((curr - 1 + k) % Cardinality(Ports)) + 1
Tries == {k \in 0..(Cardinality(Ports) - 1) : can_listen(PortAt(k))}
FirstTry == CHOOSE k \in Tries : \A j \in Tries : k <= j
get_ephemeral_port == IF Tries = {} THEN 0 ELSE PortAt(FirstTry)
NextCurr == IF Tries = {} THEN curr ELSE PortAt(FirstTry + 1)
EntriesFree == \A p \in Ports : lock[Entry(p)] = None

bound_endpoint(t) == IF Me(t).port # 0 THEN Me(t).port ELSE get_ephemeral_port

is_connected(h) == set[h].st \notin {"Listen", "SynReceived"}

\* As if accept only looked at the queue.
mut_swap_remove_front(q, i) == q

\* VecDeque::swap_remove_front: the front takes the place of the one removed.
swap_remove_front(q, i) == Tail([q EXCEPT ![i] = q[1]])

FreeHandles == {h \in Handles : set[h].st = "none"}
NewHandle == CHOOSE h \in FreeHandles : \A g \in FreeHandles : h <= g
new_tcp_socket == [NoSocket EXCEPT !.st = "Closed"]

-----------------------------------------------------------------------------
(* The interface: poll takes it and the set, and handles what has come.    *)

poll_iface(t) ==
  /\ At(t, "p_iface") /\ Acquire(t, Iface) /\ Goes(t, "p_set")
  /\ UNCHANGED <<sk, set, table, curr, program, budget>>

poll_set(t) ==
  /\ At(t, "p_set") /\ Acquire(t, Set) /\ Goes(t, "p_rx")
  /\ UNCHANGED <<sk, set, table, curr, program, budget>>

\* Whatever was queued is transmitted.
Sent(s) == [h \in Handles |-> [s[h] EXCEPT !.tx = 0]]
PollEnds(t, s) ==
  /\ At(t, "p_rx")
  /\ set' = Sent(s)
  /\ lock' = [lock EXCEPT ![Iface] = None, ![Set] = None]
  /\ Goes(t, th[t].then)

poll_idle(t) == PollEnds(t, set) /\ UNCHANGED <<sk, table, curr, program, budget>>

Arrives == budget.packets > 0 /\ budget' = [budget EXCEPT !.packets = @ - 1]
Packet(t, s) == Arrives /\ PollEnds(t, s) /\ UNCHANGED <<sk, table, curr, program>>

\* The first packet of a connection: snoop_tcp_packet takes the entry of the
\* port, with the interface and the set held, and queues a new socket, which
\* then takes the packet.
snoop_tcp_packet(t) ==
  /\ At(t, "p_rx") /\ Arrives
  /\ \E p \in Ports : th' = [th EXCEPT ![t].pc = "p_syn", ![t].port = p]
  /\ UNCHANGED <<sk, set, table, lock, curr, program>>

incoming_tcp_packet(t) ==
  LET p == th[t].port IN
  /\ At(t, "p_syn") /\ lock[Entry(p)] = None
  /\ IF table[p].listening /\ Len(table[p].queue) < LISTEN_QUEUE_SIZE /\ FreeHandles # {}
     THEN /\ table' = [table EXCEPT ![p].queue = Append(@, NewHandle)]
          /\ set' = [set EXCEPT ![NewHandle] = [NoSocket EXCEPT !.st = "SynReceived", !.port = p]]
     ELSE UNCHANGED <<table, set>>
  /\ Goes(t, "p_rx")
  /\ UNCHANGED <<sk, lock, curr, program, budget>>

\* What a socket does with a later packet.
Moves == {<<"SynReceived", "Established">>, <<"SynSent", "Established">>, <<"SynSent", "Closed">>,
          <<"Established", "Closed">>, <<"asked", "answered">>, <<"Established", "CloseWait">>}
Received(s) == {[s EXCEPT !.st = m[2]] : m \in {x \in Moves : x[1] = s.st}}
               \cup {r \in {[s EXCEPT !.rx = 1]} : s.st = "Established" /\ s.rx = 0}

later_packet(t) == \E h \in Handles : \E s \in Received(set[h]) : Packet(t, [set EXCEPT ![h] = s])

datagram(t) ==
  \E h \in Handles, a \in Peers :
    /\ set[h].st = "udp" /\ set[h].port # 0 /\ Len(set[h].q) < 2
    /\ Packet(t, [set EXCEPT ![h].q = Append(@, a)])

-----------------------------------------------------------------------------
(* The calls.  A call takes the mutex of its descriptor and keeps it.      *)

Open == {s \in Socks : sk[s].open}
FreeSock == {s \in Socks : sk[s].kind = "free"}
NewSock == CHOOSE s \in FreeSock : \A r \in FreeSock : s <= r

Calls == budget.calls > 0 /\ budget' = [budget EXCEPT !.calls = @ - 1]

\* What the system calls make of their arguments: the operation of the socket,
\* or an error before there is one.  c.addr and c.buf are the pointers.
Error == [op |-> "error", arg |-> 0]
Op(op, arg) == [op |-> op, arg |-> arg]

from_sockaddr(c, r) == IF c.addr = "ok" THEN r ELSE Error
sys_bind(c, kind) == from_sockaddr(c, Op("bind", c.arg))
sys_connect(c, kind) == from_sockaddr(c, Op("connect", c.arg))
sys_send(c, kind) == IF c.buf THEN Op("send", 0) ELSE Error
sys_sendto(c, kind) ==
  IF c.addr = "null" THEN sys_send(c, kind)
  ELSE IF ~c.buf \/ kind = "tcp" THEN Error ELSE from_sockaddr(c, Op("sendto", c.arg))
sys_recv(c, kind) == IF c.buf THEN Op("recv", c.arg) ELSE Error
sys_recvfrom(c, kind) ==
  IF c.addr = "null" THEN sys_recv(c, kind) ELSE IF c.buf THEN Op("recv", 0) ELSE Error
sys_listen(c, kind) == IF kind = "tcp" THEN Op("listen", 0) ELSE Error
sys_accept(c, kind) == IF kind = "tcp" /\ c.addr # "null" THEN Op("accept", 0) ELSE Error
sys_shutdown(c, kind) == Op("shutdown", 0)
sys_getsockname(c, kind) == IF c.addr = "ok" THEN Op("local_addr", 0) ELSE Error
sys_getpeername(c, kind) == IF c.addr = "ok" THEN Op("peer_addr", 0) ELSE Error
\* A message of several parts is sent part by part, the descriptor's mutex
\* taken anew for each.
sys_sendmsg(c, kind) ==
  IF ~c.buf THEN Error ELSE IF kind = "udp" THEN from_sockaddr(c, Op("sendto", c.arg)) ELSE Op("send", 0)
\* The calls on any descriptor.
FileLike(c, kind) == CASE c.call = "write" -> Op("send", 0)
                       [] c.call = "read" -> Op("recv", 0)
                       [] OTHER -> Op(c.call, c.arg)

Entered(c, kind) ==
  CASE c.call = "sys_bind" -> sys_bind(c, kind)
    [] c.call = "sys_connect" -> sys_connect(c, kind)
    [] c.call = "sys_send" -> sys_send(c, kind)
    [] c.call = "sys_sendto" -> sys_sendto(c, kind)
    [] c.call = "sys_recv" -> sys_recv(c, kind)
    [] c.call = "sys_recvfrom" -> sys_recvfrom(c, kind)
    [] c.call = "sys_listen" -> sys_listen(c, kind)
    [] c.call = "sys_accept" -> sys_accept(c, kind)
    [] c.call = "sys_shutdown" -> sys_shutdown(c, kind)
    [] c.call = "sys_getsockname" -> sys_getsockname(c, kind)
    [] c.call = "sys_getpeername" -> sys_getpeername(c, kind)
    [] c.call = "sys_sendmsg" -> sys_sendmsg(c, kind)
    [] OTHER -> FileLike(c, kind)

begin(t) ==
  /\ At(t, "idle") /\ Calls
  /\ \E s \in Open, c \in program.ops :
       LET e == Entered(c, sk[s].kind) IN
       th' = IF e.op = "error" THEN th
             ELSE [th EXCEPT ![t] = [Idle EXCEPT !.pc = "lock", !.op = e.op, !.s = s, !.arg = e.arg,
                                                 !.more = IF c.call = "sys_sendmsg" THEN IOV - 1 ELSE 0]]
  /\ UNCHANGED <<sk, set, table, lock, curr, program>>

\* A stream socket has no smoltcp socket yet; a datagram socket adds its own.
sys_socket(t) ==
  /\ At(t, "idle") /\ FreeSock # {} /\ Calls
  /\ \E k \in program.sockets :
       /\ k.kind = "udp" => SetFree /\ FreeHandles # {}
       /\ sk' = [sk EXCEPT ![NewSock] = [NoSock EXCEPT !.kind = k.kind, !.open = TRUE, !.nonblock = k.nonblock,
                                            !.handle = IF k.kind = "udp" THEN NewHandle ELSE None]]
       /\ set' = IF k.kind = "udp" THEN [set EXCEPT ![NewHandle] = [NoSocket EXCEPT !.st = "udp"]] ELSE set
  /\ UNCHANGED <<table, lock, th, curr, program>>

enter(t) ==
  /\ At(t, "lock") /\ Acquire(t, Sock(th[t].s)) /\ Goes(t, "run")
  /\ UNCHANGED <<sk, set, table, curr, program, budget>>

\* close only takes the descriptor out of the table.
close(t) ==
  /\ At(t, "idle") /\ "close" \in program.also /\ Calls
  /\ \E s \in Open :
       /\ sk' = [sk EXCEPT ![s].open = FALSE]
       /\ th' = [th EXCEPT ![t] = [Idle EXCEPT !.pc = "ret", !.s = s, !.op = "close"]]
  /\ UNCHANGED <<set, table, lock, curr, program>>

Runs(t, kind, op) == At(t, "run") /\ th[t].op = op /\ Me(t).kind = kind
TcpRuns(t, op) == Runs(t, "tcp", op)

\* A call that has an answer without touching anything.
Answers(t, res) == Returns(t, res, {}) /\ UNCHANGED <<sk, set, table, curr, program, budget>>

\* block_on: a nonblocking socket tries once, and does not poll.
Blocks(t, pc) ==
  /\ IF Me(t).nonblock THEN Goes(t, pc) ELSE Polls(t, pc)
  /\ UNCHANGED <<sk, set, table, lock, curr, program, budget>>
Retries(t, pc, locks) ==
  /\ IF Me(t).nonblock
     THEN Returns(t, "EAGAIN", locks)
     ELSE /\ Polls(t, pc)
          /\ lock' = [l \in Locks |-> IF l \in locks THEN None ELSE lock[l]]
  /\ UNCHANGED <<sk, set, table, curr, program, budget>>

set_nonblocking(t) ==
  /\ At(t, "run") /\ th[t].op = "nonblock"
  /\ sk' = [sk EXCEPT ![th[t].s].nonblock = (th[t].arg = 1)]
  /\ Returns(t, "ok", {}) /\ UNCHANGED <<set, table, curr, program, budget>>

\* Only a connected or listening stream has addresses, which do not change
\* while it is; a datagram socket has what it was given.
addresses(t) ==
  /\ At(t, "run") /\ th[t].op \in {"local_addr", "peer_addr"}
  /\ IF Me(t).kind = "tcp" THEN Answers(t, IF Me(t).st \in {"CONNECTED", "LISTENING"} THEN "ok" ELSE "ENOTCONN")
     ELSE Answers(t, IF (IF th[t].op = "peer_addr" THEN Me(t).peer ELSE Me(t).port) # 0 THEN "ok" ELSE "ENOTCONN")

\* bind leaves the socket BUSY; a second one finds it so.
bind(t) ==
  /\ TcpRuns(t, "bind")
  /\ IF Me(t).st # "CLOSED" THEN Answers(t, "EINVAL")
     ELSE LET p == IF th[t].arg = 0 THEN get_ephemeral_port ELSE th[t].arg IN
          /\ th[t].arg = 0 => EntriesFree
          /\ curr' = IF th[t].arg = 0 THEN NextCurr ELSE curr
          /\ IF p = 0 \/ Me(t).port # 0
             THEN Returns(t, "EINVAL", {}) /\ UNCHANGED sk
             ELSE /\ sk' = [sk EXCEPT ![th[t].s].st = "BUSY", ![th[t].s].port = p]
                  /\ Returns(t, "ok", {})
          /\ UNCHANGED <<set, table, program, budget>>

\* Only the socket that bind left BUSY listens; any other is answered Ok.
listen(t) ==
  /\ TcpRuns(t, "listen")
  /\ IF Me(t).st # "BUSY" THEN Answers(t, "ok")
     ELSE LET p == Me(t).port IN
          /\ lock[Entry(p)] = None
          /\ IF can_listen(p)
             THEN /\ table' = [table EXCEPT ![p] = [listening |-> TRUE, queue |-> <<>>]]
                  /\ sk' = [sk EXCEPT ![th[t].s].st = "LISTENING"]
                  /\ Returns(t, "ok", {})
             ELSE Returns(t, "EADDRINUSE", {}) /\ UNCHANGED <<sk, table>>
          /\ UNCHANGED <<set, curr, program, budget>>

\* connect adds a smoltcp socket if the descriptor has none.  The handle is
\* stored only when the connection is under way: on an error it is lost.
connect(t) ==
  /\ TcpRuns(t, "connect")
  /\ IF Me(t).st # "CLOSED" THEN Answers(t, "EEXIST")
     ELSE LET h == IF Me(t).handle = None THEN NewHandle ELSE Me(t).handle
              p == bound_endpoint(t) IN
          /\ SetFree /\ EntriesFree
          /\ Me(t).handle = None => FreeHandles # {}
          /\ set' = IF Me(t).handle = None THEN [set EXCEPT ![h] = new_tcp_socket] ELSE set
          /\ curr' = IF Me(t).port = 0 THEN NextCurr ELSE curr
          /\ IF p = 0
             THEN Returns(t, "EADDRINUSE", {}) /\ UNCHANGED sk
             ELSE /\ sk' = [sk EXCEPT ![th[t].s].st = "BUSY"]
                  /\ th' = [th EXCEPT ![t].pc = "c_set", ![t].i = <<h, p>>]
                  /\ UNCHANGED lock
          /\ UNCHANGED <<table, program, budget>>

\* The set is held while the interface is taken.
connect_set(t) ==
  /\ At(t, "c_set") /\ Acquire(t, Set) /\ Goes(t, "c_iface")
  /\ UNCHANGED <<sk, set, table, curr, program, budget>>

connect_iface(t) ==
  LET h == th[t].i[1]
      p == th[t].i[2] IN
  /\ At(t, "c_iface") /\ lock[Iface] = None
  /\ IF set[h].st # "Closed" \/ th[t].arg = 0
     THEN /\ sk' = [sk EXCEPT ![th[t].s].st = "CLOSED"]
          /\ Returns(t, "EINVAL", {Set}) /\ UNCHANGED set
     ELSE /\ set' = [set EXCEPT ![h].st = "SynSent", ![h].port = p]
          /\ sk' = [sk EXCEPT ![th[t].s] = [@ EXCEPT !.st = "CONNECTING", !.handle = h, !.port = p, !.peer = th[t].arg]]
          /\ IF Me(t).nonblock THEN Goes(t, "c_poll") ELSE Polls(t, "c_poll")
          /\ lock' = [lock EXCEPT ![Set] = None]
  /\ UNCHANGED <<table, curr, program, budget>>

\* Anything but SynSent and Established is a failed connection.
Connected(t, st) ==
  sk' = [sk EXCEPT ![th[t].s] = IF st = "Established" THEN [@ EXCEPT !.st = "CONNECTED"]
                                ELSE [@ EXCEPT !.st = "CLOSED", !.port = 0, !.peer = 0]]

poll_connect(t) ==
  /\ At(t, "c_poll") /\ SetFree
  /\ IF Mine(t).st = "SynSent" THEN Retries(t, "c_poll", {})
     ELSE /\ Connected(t, Mine(t).st)
          /\ Returns(t, IF Mine(t).st = "Established" THEN "ok" ELSE "ECONNREFUSED", {})
          /\ UNCHANGED <<set, table, curr, program, budget>>

\* accept: the entry is held while the queue is searched, and every look at a
\* socket of the queue takes the set.  poll searches in the same way.
accept(t) ==
  /\ TcpRuns(t, "accept")
  /\ IF Me(t).st # "LISTENING" THEN Answers(t, "EINVAL") ELSE Blocks(t, "a_entry")

accept_entry(t) ==
  /\ At(t, "a_entry") /\ Acquire(t, Entry(Me(t).port))
  /\ th' = [th EXCEPT ![t].pc = "a_scan", ![t].i = 1]
  /\ UNCHANGED <<sk, set, table, curr, program, budget>>

accept_scan(t) ==
  LET p == Me(t).port
      q == table[p].queue IN
  /\ At(t, "a_scan")
  /\ IF th[t].i > Len(q)
     THEN IF th[t].op = "poll"
          THEN Returns(t, "no", {Entry(p)}) /\ UNCHANGED <<sk, set, table, curr, program, budget>>
          ELSE Retries(t, "a_entry", {Entry(p)})
     ELSE /\ SetFree
          /\ IF ~is_connected(q[th[t].i])
             THEN th' = [th EXCEPT ![t].i = @ + 1] /\ UNCHANGED lock
             ELSE IF th[t].op = "poll"
             THEN Returns(t, "yes", {Entry(p)})
             ELSE Goes(t, "a_take") /\ UNCHANGED lock
          /\ UNCHANGED <<sk, set, table, curr, program, budget>>

\* A connection that was reset while it waited has no endpoints: the unwrap
\* of get_addr_tuple stops the machine.
accept_take(t) ==
  LET p == Me(t).port
      h == table[p].queue[th[t].i] IN
  /\ At(t, "a_take") /\ SetFree
  /\ IF set[h].st = "Closed"
     THEN Goes(t, "panic") /\ UNCHANGED <<sk, table, lock>>
     ELSE /\ table' = [table EXCEPT ![p].queue = swap_remove_front(@, th[t].i)]
          /\ \E n \in Socks :
               /\ sk[n].kind = "free" /\ \A m \in Socks : sk[m].kind = "free" => n <= m
               /\ sk' = [sk EXCEPT ![n] = [NoSock EXCEPT !.kind = "tcp", !.open = TRUE, !.st = "CONNECTED",
                                                         !.handle = h, !.port = p]]
          /\ Returns(t, "ok", {Entry(p)})
  /\ UNCHANGED <<set, curr, program, budget>>

\* posix shutdown asks for the peer first, which only a connected or listening
\* socket has; the destructor does not.
Socket_shutdown(t) ==
  /\ TcpRuns(t, "shutdown")
  /\ IF Me(t).st \notin {"CONNECTED", "LISTENING"} THEN Answers(t, "ENOTCONN")
     ELSE Goes(t, "shutdown") /\ UNCHANGED <<sk, set, table, lock, curr, program, budget>>

Closed(s) == CASE s.st \in {"Established", "SynReceived"} -> [s EXCEPT !.st = "FinWait"]
               [] s.st = "CloseWait" -> [s EXCEPT !.st = "LastAck"]
               [] s.st \in {"SynSent", "Listen"} -> [s EXCEPT !.st = "Closed"]
               [] OTHER -> s

shutdown(t) ==
  /\ At(t, "shutdown")
  /\ \/ /\ Me(t).st = "CONNECTED" /\ SetFree
        /\ set' = [set EXCEPT ![Me(t).handle] = Closed(@)]
        /\ sk' = [sk EXCEPT ![th[t].s] = [@ EXCEPT !.st = "BUSY", !.port = 0]]
        /\ Polls(t, "s_done") /\ UNCHANGED lock
     \/ /\ Me(t).st = "LISTENING" /\ Acquire(t, Entry(Me(t).port))
        /\ th' = [th EXCEPT ![t].pc = "unlisten", ![t].i = Me(t).port]
        /\ sk' = [sk EXCEPT ![th[t].s] = [@ EXCEPT !.st = "BUSY", !.port = 0]]
        /\ UNCHANGED set
     \/ /\ Me(t).st \notin {"CONNECTED", "LISTENING"}
        /\ Goes(t, "s_end") /\ UNCHANGED <<sk, set, lock>>
  /\ UNCHANGED <<table, curr, program, budget>>

\* The entry is held while it is dropped, one queued socket after the other.
unlisten(t) ==
  LET p == th[t].i
      q == table[p].queue IN
  /\ At(t, "unlisten")
  /\ IF q = <<>>
     THEN /\ table' = [table EXCEPT ![p] = NoEntry]
          /\ lock' = [lock EXCEPT ![Entry(p)] = None]
          /\ Polls(t, "s_done") /\ UNCHANGED set
     ELSE /\ SetFree
          /\ set' = [set EXCEPT ![Head(q)] = NoSocket]
          /\ table' = [table EXCEPT ![p].queue = Tail(q)]
          /\ UNCHANGED <<lock, th>>
  /\ UNCHANGED <<sk, curr, program, budget>>

shutdown_done(t) ==
  /\ At(t, "s_done")
  /\ sk' = [sk EXCEPT ![th[t].s].st = "CLOSED"]
  /\ Goes(t, "s_end") /\ UNCHANGED <<set, table, lock, curr, program, budget>>

\* The destructor then takes the socket out of the set.
shutdown_end(t) ==
  /\ At(t, "s_end")
  /\ IF th[t].op # "drop"
     THEN Returns(t, "ok", {}) /\ UNCHANGED <<sk, set>>
     ELSE /\ SetFree
          /\ set' = IF Me(t).handle = None THEN set ELSE [set EXCEPT ![Me(t).handle] = NoSocket]
          /\ sk' = [sk EXCEPT ![th[t].s] = NoSock]
          /\ th' = [th EXCEPT ![t] = Idle] /\ UNCHANGED lock
  /\ UNCHANGED <<table, curr, program, budget>>

\* recv and send of a stream.
Streams(t, op, pc) ==
  /\ TcpRuns(t, op)
  /\ CASE Me(t).st = "CONNECTING" -> Answers(t, "EAGAIN")
       [] Me(t).st = "CONNECTED" -> Blocks(t, pc)
       [] OTHER -> Answers(t, "ENOTCONN")

recv(t) == Streams(t, "recv", "r_try")
send(t) == Streams(t, "send", "w_try")

\* MSG_DONTWAIT makes the socket nonblocking, when there is something to read.
recv_try(t) ==
  /\ At(t, "r_try") /\ SetFree
  /\ CASE Mine(t).st = "Closed" -> Answers(t, "ECONNREFUSED")
       [] Mine(t).st # "Closed" /\ Mine(t).rx > 0 ->
            /\ set' = IF th[t].arg = MSG_PEEK THEN set ELSE [set EXCEPT ![Me(t).handle].rx = 0]
            /\ sk' = [sk EXCEPT ![th[t].s].nonblock = @ \/ th[t].arg = MSG_DONTWAIT]
            /\ Returns(t, "data", {}) /\ UNCHANGED <<table, curr, program, budget>>
       [] Mine(t).st \in {"CloseWait", "LastAck"} /\ Mine(t).rx = 0 -> Answers(t, "eof")
       [] OTHER -> Retries(t, "r_try", {})

send_try(t) ==
  /\ At(t, "w_try") /\ SetFree
  /\ CASE Mine(t).st \notin {"Established", "CloseWait"} -> Answers(t, "ECONNRESET")
       [] Mine(t).st \in {"Established", "CloseWait"} /\ Mine(t).tx = 0 ->
            /\ set' = [set EXCEPT ![Me(t).handle].tx = 1]
            /\ Returns(t, "ok", {}) /\ UNCHANGED <<sk, table, curr, program, budget>>
       [] OTHER -> Retries(t, "w_try", {})

\* poll: a connection under way may turn out to be made, or to have failed.
poll(t) ==
  /\ TcpRuns(t, "poll")
  /\ CASE Me(t).st = "CONNECTING" ->
            /\ SetFree
            /\ IF Mine(t).st = "SynSent" THEN UNCHANGED sk ELSE Connected(t, Mine(t).st)
            /\ Returns(t, "ok", {}) /\ UNCHANGED <<set, table, curr, program, budget>>
       [] Me(t).st = "CONNECTED" -> SetFree /\ Answers(t, "ok")
       [] Me(t).st = "LISTENING" ->
            Goes(t, "a_entry") /\ UNCHANGED <<sk, set, table, lock, curr, program, budget>>
       [] OTHER -> Answers(t, "no")

-----------------------------------------------------------------------------
(* Datagrams.  The posix recv calls recv_from; UdpSocket::recv is what the *)
(* native interface calls ("recv_peer").                                   *)

UdpRuns(t, op) == Runs(t, "udp", op)

\* Its ephemeral ports come in turn, used or not.
Binds(t, p) ==
  /\ SetFree
  /\ sk' = [sk EXCEPT ![th[t].s].port = p]
  /\ set' = [set EXCEPT ![Me(t).handle].port = p]

udp_bind(t) ==
  /\ UdpRuns(t, "bind")
  /\ IF Me(t).port # 0 THEN Answers(t, "EINVAL")
     ELSE /\ \E p \in (IF th[t].arg = 0 THEN Ports ELSE {th[t].arg}) : Binds(t, p)
          /\ Returns(t, "ok", {}) /\ UNCHANGED <<table, curr, program, budget>>

udp_connect(t) ==
  /\ UdpRuns(t, "connect")
  /\ IF Me(t).port # 0
     THEN sk' = [sk EXCEPT ![th[t].s].peer = th[t].arg] /\ UNCHANGED set
     ELSE /\ SetFree
          /\ \E p \in Ports :
               /\ sk' = [sk EXCEPT ![th[t].s].port = p, ![th[t].s].peer = th[t].arg]
               /\ set' = [set EXCEPT ![Me(t).handle].port = p]
  /\ Returns(t, "ok", {}) /\ UNCHANGED <<table, curr, program, budget>>

\* send needs a peer, sendto an address, and either binds the socket if nothing has.
udp_send(t) ==
  /\ At(t, "run") /\ Me(t).kind = "udp" /\ th[t].op \in {"send", "sendto"}
  /\ IF (IF th[t].op = "send" THEN Me(t).peer ELSE th[t].arg) = 0 THEN Answers(t, "ENOTCONN")
     ELSE IF Me(t).port # 0 THEN Blocks(t, "us_try")
     ELSE /\ \E p \in Ports : Binds(t, p)
          /\ IF Me(t).nonblock THEN Goes(t, "us_try") ELSE Polls(t, "us_try")
          /\ UNCHANGED <<table, lock, curr, program, budget>>

udp_send_try(t) ==
  /\ At(t, "us_try") /\ SetFree
  /\ IF Mine(t).tx = 0
     THEN /\ set' = [set EXCEPT ![Me(t).handle].tx = 1]
          /\ Returns(t, "ok", {}) /\ UNCHANGED <<sk, table, curr, program, budget>>
     ELSE Retries(t, "us_try", {})

udp_recv(t) ==
  /\ At(t, "run") /\ Me(t).kind = "udp" /\ th[t].op \in {"recv", "recv_peer"}
  /\ CASE th[t].op = "recv_peer" /\ Me(t).peer = 0 -> Answers(t, "ENOTCONN")
       [] Me(t).port = 0 -> Answers(t, "ENOTCONN")
       [] OTHER -> Blocks(t, "ur_try")

\* A datagram is taken off the queue before its sender is looked at.
Filtered(t) == th[t].op = "recv_peer"

udp_recv_try(t) ==
  LET q == Mine(t).q IN
  /\ At(t, "ur_try") /\ SetFree
  /\ IF q = <<>> THEN Retries(t, "ur_try", {})
     ELSE /\ set' = [set EXCEPT ![Me(t).handle].q = Tail(q)]
          /\ IF Filtered(t) /\ Head(q) # Me(t).peer
             THEN IF Me(t).nonblock THEN Returns(t, "EAGAIN", {}) ELSE Polls(t, "ur_try") /\ UNCHANGED lock
             ELSE th' = [th EXCEPT ![t].pc = "ret", ![t].i = Head(q), ![t].res = "data"] /\ UNCHANGED lock
          /\ UNCHANGED <<sk, table, curr, program, budget>>

udp_shutdown(t) ==
  /\ UdpRuns(t, "shutdown")
  /\ IF Me(t).peer = 0 THEN Answers(t, "ENOTCONN")
     ELSE Goes(t, "u_close") /\ UNCHANGED <<sk, set, table, lock, curr, program, budget>>

udp_poll(t) == UdpRuns(t, "poll") /\ SetFree /\ Answers(t, "ok")

udp_close(t) ==
  /\ At(t, "u_close") /\ SetFree
  /\ set' = [set EXCEPT ![Me(t).handle] = [NoSocket EXCEPT !.st = "udp"]]
  /\ Polls(t, "s_end")
  /\ UNCHANGED <<sk, table, lock, curr, program, budget>>

-----------------------------------------------------------------------------
(* A name server is asked with a socket of its own, and the set and then   *)
(* the interface are taken as connect does.                                *)

dns_query(t) ==
  /\ SetFree /\ FreeHandles # {}
  /\ set' = [set EXCEPT ![NewHandle] = [NoSocket EXCEPT !.st = "dns"]]
  /\ th' = [th EXCEPT ![t] = [Idle EXCEPT !.pc = "d_set", !.op = "dns", !.i = NewHandle]]

\* An address that is written out, or no name at all, needs no server.
sys_getaddrinfo(t) ==
  /\ At(t, "idle") /\ "dns" \in program.also /\ Calls
  /\ \/ dns_query(t)
     \/ UNCHANGED <<set, th>>
  /\ UNCHANGED <<sk, table, lock, curr, program>>

dns_set(t) ==
  /\ At(t, "d_set") /\ Acquire(t, Set) /\ Goes(t, "d_iface")
  /\ UNCHANGED <<sk, set, table, curr, program, budget>>

\* A name that is no name is refused.
dns_iface(t) ==
  /\ At(t, "d_iface") /\ lock[Iface] = None
  /\ lock' = [lock EXCEPT ![Set] = None]
  /\ \/ Polls(t, "d_try") /\ set' = [set EXCEPT ![th[t].i].st = "asked"]
     \/ Goes(t, "d_end") /\ UNCHANGED set
  /\ UNCHANGED <<sk, table, curr, program, budget>>

dns_try(t) ==
  /\ At(t, "d_try") /\ SetFree
  /\ IF set[th[t].i].st = "asked" THEN Polls(t, "d_try") ELSE Goes(t, "d_end")
  /\ UNCHANGED <<sk, set, table, lock, curr, program, budget>>

dns_end(t) ==
  /\ At(t, "d_end") /\ SetFree
  /\ set' = [set EXCEPT ![th[t].i] = NoSocket]
  /\ th' = [th EXCEPT ![t] = Idle]
  /\ UNCHANGED <<sk, table, lock, curr, program, budget>>

-----------------------------------------------------------------------------
Init ==
  /\ program \in Programs
  /\ sk = [s \in Socks |-> NoSock]
  /\ set = [h \in Handles |-> NoSocket]
  /\ table = [p \in Ports |-> NoEntry]
  /\ lock = [l \in Locks |-> None]
  /\ th = [t \in Threads |-> Idle]
  /\ curr = 1
  /\ budget = [calls |-> program.times, packets |-> MaxPackets]

Step(t) ==
  \/ ret(t) \/ begin(t) \/ sys_socket(t) \/ enter(t) \/ close(t)
  \/ poll_iface(t) \/ poll_set(t) \/ poll_idle(t) \/ snoop_tcp_packet(t) \/ incoming_tcp_packet(t) \/ later_packet(t) \/ datagram(t)
  \/ set_nonblocking(t) \/ bind(t) \/ listen(t)
  \/ connect(t) \/ connect_set(t) \/ connect_iface(t) \/ poll_connect(t)
  \/ accept(t) \/ accept_entry(t) \/ accept_scan(t) \/ accept_take(t)
  \/ Socket_shutdown(t) \/ shutdown(t) \/ unlisten(t) \/ shutdown_done(t) \/ shutdown_end(t)
  \/ recv(t) \/ send(t) \/ recv_try(t) \/ send_try(t) \/ poll(t)
  \/ udp_bind(t) \/ udp_connect(t) \/ udp_send(t) \/ udp_send_try(t)
  \/ udp_recv(t) \/ udp_recv_try(t) \/ udp_shutdown(t) \/ udp_close(t) \/ udp_poll(t)
  \/ addresses(t) \/ sys_getaddrinfo(t) \/ dns_set(t) \/ dns_iface(t) \/ dns_try(t) \/ dns_end(t)

Next == \E t \in Threads : Step(t)

Spec == Init /\ [][Next]_vars
\* A thread that is let in again and again goes on.
FairSpec == Spec /\ \A t \in Threads : SF_vars(Step(t) /\ ~begin(t) /\ ~sys_socket(t) /\ ~close(t) /\ ~sys_getaddrinfo(t))

-----------------------------------------------------------------------------
Queued == UNION {ToSet(table[p].queue) : p \in Ports}
Held == {sk[s].handle : s \in Socks} \ {None}
Asking == {th[t].i : t \in {u \in Threads : th[u].op = "dns"}}

\* Every smoltcp socket that a TcpSocket, a UdpSocket or a queue of the listen
\* table refers to is in the set, and each has one owner: accept hands a queued
\* connection to one caller, and a destructor frees what nobody else uses.
HandleOwnedOnce ==
  /\ \A h \in Queued \cup Held \cup Asking : set[h].st # "none"
  /\ Queued \cap Held = {} /\ Asking \cap (Queued \cup Held) = {}
  /\ \A s, r \in Socks : s # r /\ sk[s].handle # None => sk[s].handle # sk[r].handle
  /\ \A p, r \in Ports : p # r => ToSet(table[p].queue) \cap ToSet(table[r].queue) = {}

\* A port of the listen table is taken exactly while one socket listens on it
\* or is giving it up: listen and unlisten keep the table and the states of the
\* sockets together, whoever closes which descriptor when.
Listeners(p) == {s \in Socks : sk[s].st = "LISTENING" /\ sk[s].port = p}
Leaving(p) == {t \in Threads : th[t].pc = "unlisten" /\ th[t].i = p}
ListenerOwnsPort ==
  \A p \in Ports : Cardinality(Listeners(p)) + Cardinality(Leaving(p)) = (IF table[p].listening THEN 1 ELSE 0)

\* A datagram socket that was connected "only receive[s] data from the
\* specified address" (UdpSocket::connect).
UdpFromPeer ==
  \A t \in Threads :
    th[t].pc = "ret" /\ th[t].op \in {"recv", "recv_peer"} /\ Me(t).kind = "udp" /\ Me(t).peer # 0 /\ th[t].res = "data"
    => th[t].i = Me(t).peer

\* "If the socket is non-blocking, it calls the function once and returns
\* immediately" (block_on).
NonblockReturns ==
  \A t \in Threads : th[t].pc = "run" /\ th[t].op \in {"accept", "recv", "send"} /\ Me(t).nonblock ~> th[t].pc = "idle"
=============================================================================
