-------------------------------- MODULE Lwip --------------------------------
(***************************************************************************)
(* The sockets of ruxnet over lwIP (lwip_impl): tcp.rs, udp.rs, dns.rs,    *)
(* addr.rs and driver.rs.  Every call that waits polls the device itself,  *)
(* in lwip_loop_once, under LWIP_MUTEX; lwIP then calls back with what has *)
(* arrived, for whatever socket, and a callback locks that socket's queue. *)
(* recv locks in the other order, the queue and then LWIP_MUTEX.  A socket *)
(* is used by one thread at a time (the fd holds it in a mutex); its       *)
(* callbacks run in any thread.  lwIP and the peers are external.          *)
(***************************************************************************)
EXTENDS Integers, Sequences, FiniteSets, SequencesExt

CONSTANTS
    LwThreads, LwTcp, LwUdp,    \* threads; TCP sockets that may be made; UDP sockets
    LwUses,                     \* the sockets each thread of the program works with
    LwPorts, LwPeers,           \* ports a program binds; addresses of peers, four bytes
    LwBufs,                     \* the receive buffers of the device
    RX_BUF_QUEUE_SIZE, TCP_MSS,
    PORT_START, PORT_END,       \* the ephemeral ports of UDP
    LwSends, LwReads,           \* sizes of a packet or a send, and of the buffer of a read
    LwListening, LwConnected,   \* sockets a first part of the program has set up
    LwCalls, LwFrames,          \* bounds on calls and on frames of the peers,
    LwEvents                    \* and on both together

VARIABLES
    lw_pc,          \* what each thread is in
    lw_mutex,       \* the holder of LWIP_MUTEX, or "free"
    lw_qlock,       \* the holder of each socket's recv_queue, or "free"
    lw_pcb,         \* each socket's pcb: its state (unused or null while there is none), port and callbacks
    lw_inner,       \* each socket's inner
    lw_port,        \* CURR of get_ephemeral_port
    lw_dns,         \* each thread's DnsQueryEntry: unfinished, found or not
    lw_dev,         \* frames the device has received, with their buffers
    lw_rx,          \* rx_buf_queue
    lw_free,        \* the buffers the device may receive into
    lw_log,         \* for each socket: bytes its peer sent, bytes read, chunks of the sends, how each send ended
    lw_calls, lw_frames
lw_vars == <<lw_pc, lw_mutex, lw_qlock, lw_pcb, lw_inner, lw_port, lw_dns, lw_dev, lw_rx, lw_free, lw_log, lw_calls, lw_frames>>

LwSockets == LwTcp \cup LwUdp
LwIdle == [op |-> "idle"]
Pcb(state) == [state |-> state, port |-> 0, arg |-> TRUE, recv |-> FALSE, peer |-> <<>>]
Inner == [nonblock |-> FALSE, remote_closed |-> FALSE, connect_result |-> 0, recv_queue |-> <<>>, accept_queue |-> <<>>]
NoLog == [peer |-> 0, read |-> <<>>, out |-> <<>>, sends |-> <<>>]
LwInit ==
    /\ lw_pc = [t \in LwThreads |-> LwIdle]
    /\ lw_mutex = "free" /\ lw_qlock = [s \in LwSockets |-> "free"]
    /\ lw_pcb = [s \in LwSockets |->
        IF s = LwListening THEN [Pcb("LISTEN") EXCEPT !.port = CHOOSE p \in LwPorts : TRUE]
        ELSE IF s = LwConnected THEN [Pcb("ESTABLISHED") EXCEPT !.port = CHOOSE p \in LwPorts : TRUE, !.recv = TRUE]
        ELSE Pcb("unused")]
    /\ lw_inner = [s \in LwSockets |-> Inner]
    /\ lw_port = PORT_START /\ lw_dns = [t \in LwThreads |-> "none"] /\ lw_dev = <<>> /\ lw_rx = <<>> /\ lw_free = LwBufs
    /\ lw_log = [s \in LwSockets |-> NoLog] /\ lw_calls = 0 /\ lw_frames = 0

-----------------------------------------------------------------------------
(* Addresses.  A word is the sequence of its bytes, the lowest first, which *)
(* is the order lwIP puts them on the wire.                                 *)

to_u32(addr) == [i \in 1 .. 4 |-> addr[i]]
ip_addr_from(val) == to_u32(val)
from_ip_addr(word) == [i \in 1 .. 4 |-> word[5 - i]]
ip4_addr_gen(a, b, c, d) == <<a, b, c, d>>
init_interface == [ipaddr |-> ip4_addr_gen(10, 0, 2, 15), netmask |-> ip4_addr_gen(255, 255, 255, 0), gw |-> ip4_addr_gen(10, 0, 2, 2)]
RECURSIVE prefix_of(_, _)
prefix_of(bits, prefix) ==
    IF prefix < 32 /\ bits[prefix + 1] = 1 THEN prefix_of(bits, prefix + 1)
    ELSE IF \E i \in prefix + 1 .. 32 : bits[i] = 1 THEN -1 ELSE prefix
BitOf(byte, i) == (byte \div 2^(7 - i)) % 2
mask_to_prefix(mask) == prefix_of([i \in 1 .. 32 |-> BitOf(to_u32(mask)[4 - ((i - 1) \div 8)], (i - 1) % 8)], 0)

-----------------------------------------------------------------------------
(* The state of the sockets.                                                *)

State(s) == lw_pcb[s].state
LwOpen(s) == State(s) \notin {"unused", "null"}
Using(s) == \E t \in LwThreads : lw_pc[t].op # "idle" /\ (lw_pc[t].s = s \/ s \in ToSet(lw_pc[t].then))
Queued(s) == \E l \in LwTcp : s \in ToSet(lw_inner[l].accept_queue)
NewPcb == Pcb("CLOSED")
CanCall(t, s) == lw_pc[t] = LwIdle /\ s \in LwUses[t] /\ lw_calls < LwCalls /\ lw_calls + lw_frames < LwEvents /\ ~Using(s) /\ ~Queued(s)
LwCalled == lw_calls' = lw_calls + 1 /\ UNCHANGED lw_frames
InCall(t, op, s, at) == lw_pc' = [lw_pc EXCEPT ![t] = [op |-> op, s |-> s, at |-> at, then |-> <<>>, len |-> 0]]
Goto(t, at) == lw_pc' = [lw_pc EXCEPT ![t].at = at]
Return(t) == lw_pc' = [lw_pc EXCEPT ![t] = LwIdle]
\* LWIP_MUTEX is taken and released within the step.
LwipFree == lw_mutex = "free"

LwLocks == <<lw_mutex, lw_qlock>>
LwBudget == <<lw_calls, lw_frames>>
LwMisc == <<lw_port, lw_dns>>
LwDevice == <<lw_dev, lw_rx, lw_free>>

tcp_new(t, s) ==
    /\ CanCall(t, s) /\ s \in LwTcp /\ State(s) = "unused" /\ LwipFree /\ LwCalled
    /\ lw_pcb' = [lw_pcb EXCEPT ![s] = NewPcb]
    /\ UNCHANGED <<lw_pc, LwLocks, lw_inner, LwMisc, LwDevice, lw_log>>
set_nonblocking(t, s) ==
    /\ CanCall(t, s) /\ LwOpen(s) /\ ~lw_inner[s].nonblock /\ LwCalled
    /\ lw_inner' = [lw_inner EXCEPT ![s].nonblock = TRUE]
    /\ UNCHANGED <<lw_pc, LwLocks, lw_pcb, LwMisc, LwDevice, lw_log>>
udp_new(t, s) ==
    /\ CanCall(t, s) /\ s \in LwUdp /\ State(s) = "unused" /\ LwipFree /\ LwCalled
    /\ lw_pcb' = [lw_pcb EXCEPT ![s] = [NewPcb EXCEPT !.recv = TRUE, !.state = "UDP"]]
    /\ UNCHANGED <<lw_pc, LwLocks, lw_inner, LwMisc, LwDevice, lw_log>>

InUse(S, p) == \E s \in S : LwOpen(s) /\ lw_pcb[s].port = p
tcp_bind(t, s, p) ==
    /\ CanCall(t, s) /\ s \in LwTcp /\ LwOpen(s) /\ LwipFree /\ LwCalled
    /\ lw_pcb' = IF State(s) # "CLOSED" \/ InUse(LwTcp, p) THEN lw_pcb ELSE [lw_pcb EXCEPT ![s].port = p]
    /\ UNCHANGED <<lw_pc, LwLocks, lw_inner, LwMisc, LwDevice, lw_log>>
get_ephemeral_port == [port |-> lw_port, curr |-> IF lw_port = PORT_END THEN PORT_START ELSE lw_port + 1]
udp_bind(t, s, p) ==
    LET port == IF p = 0 THEN get_ephemeral_port.port ELSE p
    IN  /\ CanCall(t, s) /\ s \in LwUdp /\ LwOpen(s) /\ lw_pcb[s].port = 0 /\ LwipFree /\ LwCalled
        /\ lw_port' = IF p = 0 THEN get_ephemeral_port.curr ELSE lw_port
        /\ lw_pcb' = IF InUse(LwUdp, port) THEN lw_pcb ELSE [lw_pcb EXCEPT ![s].port = port]
        /\ UNCHANGED <<lw_pc, LwLocks, lw_inner, lw_dns, LwDevice, lw_log>>
tcp_listen(t, s) ==
    /\ CanCall(t, s) /\ s \in LwTcp /\ LwOpen(s) /\ lw_pcb[s].port # 0 /\ LwipFree /\ LwCalled
    /\ lw_pcb' = IF State(s) = "CLOSED" THEN [lw_pcb EXCEPT ![s].state = "LISTEN"] ELSE lw_pcb
    /\ UNCHANGED <<lw_pc, LwLocks, lw_inner, LwMisc, LwDevice, lw_log>>
udp_connect(t, s, a) ==
    /\ CanCall(t, s) /\ s \in LwUdp /\ LwOpen(s) /\ LwipFree /\ LwCalled
    /\ lw_pcb' = [lw_pcb EXCEPT ![s].peer = ip_addr_from(a)]
    /\ UNCHANGED <<lw_pc, LwLocks, lw_inner, LwMisc, LwDevice, lw_log>>

-----------------------------------------------------------------------------
(* lwip_loop_once: at "lock", then at "poll" with LWIP_MUTEX held, and at   *)
(* "after" when the caller goes on.                                         *)

\* DeviceWrapper::poll.
Taken == IF Len(lw_dev) < RX_BUF_QUEUE_SIZE - Len(lw_rx) THEN Len(lw_dev) ELSE RX_BUF_QUEUE_SIZE - Len(lw_rx)
lwip_loop_once(t) ==
    /\ lw_pc[t].op # "idle" /\ lw_pc[t].at = "lock" /\ LwipFree
    /\ lw_mutex' = t
    /\ lw_rx' = lw_rx \o SubSeq(lw_dev, 1, Taken)
    /\ lw_dev' = SubSeq(lw_dev, Taken + 1, Len(lw_dev))
    /\ Goto(t, "poll")
    /\ UNCHANGED <<lw_qlock, lw_pcb, lw_inner, LwMisc, lw_free, lw_log, LwBudget>>
loop_done(t) ==
    /\ lw_pc[t].op # "idle" /\ lw_pc[t].at = "poll" /\ lw_rx = <<>>
    /\ lw_mutex' = "free"
    /\ Goto(t, "after")
    /\ UNCHANGED <<lw_qlock, lw_pcb, lw_inner, LwMisc, LwDevice, lw_log, LwBudget>>

\* InterfaceWrapper::poll hands lwIP the next frame; lwIP frees what nobody takes.
Polling(t, kinds) == lw_pc[t].op # "idle" /\ lw_pc[t].at = "poll" /\ lw_rx # <<>> /\ Head(lw_rx).kind \in kinds
pbuf_free_custom(frame) == lw_free' = lw_free \cup {frame.buf}
NextFrame == lw_rx' = Tail(lw_rx) /\ UNCHANGED <<lw_pc, lw_mutex, lw_qlock, lw_port, lw_dev, lw_log, LwBudget>>
Pbuf(f) == [buf |-> f.buf, bytes |-> f.bytes, from |-> f.from, offset |-> 0]
Takes(frame) == LwOpen(frame.s) /\ lw_pcb[frame.s].arg /\ lw_pcb[frame.s].recv
Listener(p) == CHOOSE l \in LwTcp : State(l) = "LISTEN" /\ lw_pcb[l].port = p
Fresh == CHOOSE s \in LwTcp : State(s) = "unused"

accept_callback(t) ==
    LET p == Head(lw_rx).port
        heard == (\E l \in LwTcp : State(l) = "LISTEN" /\ lw_pcb[l].port = p) /\ \E s \in LwTcp : State(s) = "unused"
    IN  /\ Polling(t, {"syn"}) /\ NextFrame /\ UNCHANGED lw_dns /\ pbuf_free_custom(Head(lw_rx))
        /\ lw_pcb' = IF heard THEN [lw_pcb EXCEPT ![Fresh] = [NewPcb EXCEPT !.state = "ESTABLISHED", !.port = p, !.recv = TRUE]]
                     ELSE lw_pcb
        /\ lw_inner' = IF heard THEN [lw_inner EXCEPT ![Listener(p)].accept_queue = Append(@, Fresh), ![Fresh] = Inner] ELSE lw_inner
connect_callback(t) ==
    LET s == Head(lw_rx).s IN
    /\ Polling(t, {"synack"}) /\ NextFrame /\ UNCHANGED lw_dns /\ pbuf_free_custom(Head(lw_rx))
    /\ lw_pcb' = IF State(s) = "SYN_SENT" THEN [lw_pcb EXCEPT ![s].state = "ESTABLISHED"] ELSE lw_pcb
    /\ lw_inner' = IF State(s) = "SYN_SENT" THEN [lw_inner EXCEPT ![s].connect_result = 0] ELSE lw_inner
\* The pbuf is queued, with the buffer of the device in it; without one the
\* remote has closed.
recv_callback(t) ==
    LET f == Head(lw_rx) IN
    /\ Polling(t, {"data", "fin"}) /\ NextFrame /\ UNCHANGED lw_dns
    /\ IF Takes(f) /\ f.kind = "data"
       THEN /\ lw_qlock[f.s] = "free"
            /\ lw_inner' = [lw_inner EXCEPT ![f.s].recv_queue = Append(@, Pbuf(f))]
            /\ UNCHANGED lw_free
       ELSE /\ pbuf_free_custom(f)
            /\ lw_inner' = IF Takes(f) THEN [lw_inner EXCEPT ![f.s].remote_closed = TRUE] ELSE lw_inner
    /\ UNCHANGED lw_pcb
udp_recv_callback(t) ==
    LET f == Head(lw_rx) IN
    /\ Polling(t, {"datagram"}) /\ NextFrame /\ UNCHANGED lw_dns
    /\ Takes(f) /\ lw_qlock[f.s] = "free"
    /\ lw_inner' = [lw_inner EXCEPT ![f.s].recv_queue = Append(@, Pbuf(f))]
    /\ UNCHANGED <<lw_pcb, lw_free>>

\* The answer is written to the entry on the asker's stack.
dns_found_callback(t) ==
    LET f == Head(lw_rx) IN
    /\ Polling(t, {"found", "not found"}) /\ NextFrame /\ pbuf_free_custom(f)
    /\ lw_dns' = [lw_dns EXCEPT ![f.s] = f.kind]
    /\ UNCHANGED <<lw_pcb, lw_inner>>

-----------------------------------------------------------------------------
(* Calls that poll.                                                         *)

tcp_connect(t, s) ==
    /\ CanCall(t, s) /\ s \in LwTcp /\ State(s) = "CLOSED" /\ LwipFree /\ LwCalled
    /\ lw_inner' = [lw_inner EXCEPT ![s].connect_result = 1]
    /\ lw_pcb' = [lw_pcb EXCEPT ![s].state = "SYN_SENT", ![s].recv = TRUE]
    /\ InCall(t, "connect", s, "lock")
    /\ UNCHANGED <<LwLocks, LwMisc, LwDevice, lw_log>>
connect_wait(t) ==
    /\ lw_pc[t].op = "connect" /\ lw_pc[t].at = "after"
    /\ IF lw_inner[lw_pc[t].s].connect_result = 1 THEN Goto(t, "lock") ELSE Return(t)
    /\ UNCHANGED <<LwLocks, lw_pcb, lw_inner, LwMisc, LwDevice, lw_log, LwBudget>>

tcp_accept(t, s) ==
    /\ CanCall(t, s) /\ State(s) = "LISTEN" /\ LwCalled
    /\ InCall(t, "accept", s, "lock")
    /\ UNCHANGED <<LwLocks, lw_pcb, lw_inner, LwMisc, LwDevice, lw_log>>
accept_take(t) ==
    LET s == lw_pc[t].s IN
    /\ lw_pc[t].op = "accept" /\ lw_pc[t].at = "after"
    /\ IF lw_inner[s].accept_queue # <<>>
       THEN lw_inner' = [lw_inner EXCEPT ![s].accept_queue = Tail(@)] /\ Return(t)
       ELSE IF lw_inner[s].nonblock THEN Return(t) /\ UNCHANGED lw_inner
       ELSE Goto(t, "lock") /\ UNCHANGED lw_inner
    /\ UNCHANGED <<LwLocks, lw_pcb, LwMisc, LwDevice, lw_log, LwBudget>>

CallRecv(t, op, s, at, len) == lw_pc' = [lw_pc EXCEPT ![t] = [op |-> op, s |-> s, at |-> at, then |-> <<>>, len |-> len]]
tcp_recv(t, s, len) ==
    /\ CanCall(t, s) /\ State(s) = "ESTABLISHED" /\ LwCalled
    /\ CallRecv(t, "recv", s, "check", len)
    /\ UNCHANGED <<LwLocks, lw_pcb, lw_inner, LwMisc, LwDevice, lw_log>>
\* remote_closed is looked at before each poll, whatever is still queued.
recv_check(t) ==
    /\ lw_pc[t].op = "recv" /\ lw_pc[t].at = "check"
    /\ IF lw_inner[lw_pc[t].s].remote_closed THEN Return(t) ELSE Goto(t, "lock")
    /\ UNCHANGED <<LwLocks, lw_pcb, lw_inner, LwMisc, LwDevice, lw_log, LwBudget>>
RestOf(e) == SubSeq(e.bytes, e.offset + 1, Len(e.bytes))
LeastOf(a, b) == IF a < b THEN a ELSE b
CopyLen(t, e) == LeastOf(lw_pc[t].len, Len(e.bytes) - e.offset)
mut_put_back(e, copy_len, rest) == Append(rest, [e EXCEPT !.offset = @ + copy_len])
\* What is left of a pbuf goes back to the front of the queue.
put_back(e, copy_len, rest) == <<[e EXCEPT !.offset = @ + copy_len]>> \o rest
\* The head of the queue, in part or whole; a pbuf that is used up is freed
\* with the queue still locked.
TakeHead(t, s) ==
    LET q == lw_inner[s].recv_queue
        e == Head(q)
        copy_len == CopyLen(t, e)
    IN  /\ lw_log' = [lw_log EXCEPT ![s].read = @ \o SubSeq(RestOf(e), 1, copy_len)]
        /\ IF e.offset + copy_len < Len(e.bytes)
           THEN /\ lw_inner' = [lw_inner EXCEPT ![s].recv_queue = put_back(e, copy_len, Tail(q))]
                /\ Return(t) /\ UNCHANGED lw_qlock
           ELSE /\ lw_inner' = [lw_inner EXCEPT ![s].recv_queue = Tail(q)]
                /\ lw_qlock' = [lw_qlock EXCEPT ![s] = t]
                /\ CallRecv(t, "free", s, "free", e.buf)
recv_take(t) ==
    LET s == lw_pc[t].s IN
    /\ lw_pc[t].op = "recv" /\ lw_pc[t].at = "after" /\ lw_qlock[s] = "free"
    /\ IF lw_inner[s].recv_queue # <<>> THEN TakeHead(t, s)
       ELSE /\ IF lw_inner[s].nonblock THEN Return(t) ELSE Goto(t, "check")
            /\ UNCHANGED <<lw_qlock, lw_inner, lw_log>>
    /\ UNCHANGED <<lw_mutex, lw_pcb, LwMisc, LwDevice, LwBudget>>
udp_recv_from(t, s, len) ==
    /\ CanCall(t, s) /\ State(s) = "UDP" /\ LwCalled
    /\ CallRecv(t, "recv_from", s, "lock", len)
    /\ UNCHANGED <<LwLocks, lw_pcb, lw_inner, LwMisc, LwDevice, lw_log>>
recv_from_take(t) ==
    LET s == lw_pc[t].s IN
    /\ lw_pc[t].op = "recv_from" /\ lw_pc[t].at = "after" /\ lw_qlock[s] = "free"
    /\ IF lw_inner[s].recv_queue # <<>> THEN TakeHead(t, s)
       ELSE /\ IF lw_inner[s].nonblock THEN Return(t) ELSE Goto(t, "lock")
            /\ UNCHANGED <<lw_qlock, lw_inner, lw_log>>
    /\ UNCHANGED <<lw_mutex, lw_pcb, LwMisc, LwDevice, LwBudget>>
recv_free(t) ==
    /\ lw_pc[t].op = "free" /\ LwipFree
    /\ lw_free' = lw_free \cup {lw_pc[t].len}
    /\ lw_qlock' = [lw_qlock EXCEPT ![lw_pc[t].s] = "free"]
    /\ Return(t)
    /\ UNCHANGED <<lw_mutex, lw_pcb, lw_inner, LwMisc, lw_dev, lw_rx, lw_log, LwBudget>>

ethif_output(can_transmit) == IF can_transmit THEN "ERR_OK" ELSE "ERR_MEM"
\* tcp_write queues a copy and tcp_output sends it; a failure of tcp_output
\* (the device cannot transmit) is reported although the copy stays queued.
tcp_send(t, s, len) ==
    LET copy_len == LeastOf(len, TCP_MSS)
        n == Len(lw_log[s].sends) + 1
    IN  /\ CanCall(t, s) /\ State(s) = "ESTABLISHED" /\ LwipFree /\ LwCalled
        /\ \E written, can_transmit \in BOOLEAN :
            LET ok == written /\ ethif_output(can_transmit) = "ERR_OK" IN
            /\ lw_log' = [lw_log EXCEPT ![s].sends = Append(@, [len |-> copy_len, ok |-> ok]),
                                        ![s].out = IF written THEN Append(@, [n |-> n, len |-> copy_len, to |-> <<>>]) ELSE @]
            /\ IF ok THEN InCall(t, "send", s, "lock") ELSE UNCHANGED lw_pc
        /\ UNCHANGED <<LwLocks, lw_pcb, lw_inner, LwMisc, LwDevice>>
udp_send_to(t, s, len, a) ==
    LET n == Len(lw_log[s].sends) + 1 IN
    /\ CanCall(t, s) /\ s \in LwUdp /\ LwOpen(s) /\ LwipFree /\ LwCalled
    /\ \E ok \in {ethif_output(can) = "ERR_OK" : can \in BOOLEAN} :
        /\ lw_log' = [lw_log EXCEPT ![s].sends = Append(@, [len |-> len, ok |-> ok, to |-> a]),
                                    ![s].out = IF ok THEN Append(@, [n |-> n, len |-> len, to |-> ip_addr_from(a)]) ELSE @]
        /\ IF ok THEN InCall(t, "send", s, "lock") ELSE UNCHANGED lw_pc
    /\ UNCHANGED <<LwLocks, lw_pcb, lw_inner, LwMisc, LwDevice>>
lw_poll(t, s) ==
    /\ CanCall(t, s) /\ LwOpen(s) /\ LwCalled
    /\ InCall(t, "poll", s, "lock")
    /\ UNCHANGED <<LwLocks, lw_pcb, lw_inner, LwMisc, LwDevice, lw_log>>
polled(t) ==
    /\ lw_pc[t].op \in {"send", "poll"} /\ lw_pc[t].at = "after" /\ Return(t)
    /\ UNCHANGED <<LwLocks, lw_pcb, lw_inner, LwMisc, LwDevice, lw_log, LwBudget>>

\* drop closes a TCP socket, and then those nobody has accepted from it.
Close(t, s, then) ==
    /\ lw_pcb' = [lw_pcb EXCEPT ![s] = Pcb("null")]
    /\ lw_pc' = [lw_pc EXCEPT ![t] = [op |-> "drop", s |-> s, at |-> "lock", then |-> then, len |-> 0]]
tcp_drop(t, s) ==
    /\ CanCall(t, s) /\ s \in LwTcp /\ LwOpen(s) /\ LwipFree /\ LwCalled
    /\ Close(t, s, lw_inner[s].accept_queue)
    /\ lw_inner' = [lw_inner EXCEPT ![s].accept_queue = <<>>]
    /\ UNCHANGED <<LwLocks, LwMisc, LwDevice, lw_log>>
drop_rest(t) ==
    /\ lw_pc[t].op = "drop" /\ lw_pc[t].at = "after" /\ LwipFree
    /\ IF lw_pc[t].then = <<>> THEN Return(t) /\ UNCHANGED lw_pcb
       ELSE Close(t, Head(lw_pc[t].then), Tail(lw_pc[t].then))
    /\ UNCHANGED <<LwLocks, lw_inner, LwMisc, LwDevice, lw_log, LwBudget>>
\* shutdown of UDP goes into lwip_loop_once with LWIP_MUTEX still held.
udp_drop(t, s) ==
    /\ CanCall(t, s) /\ s \in LwUdp /\ LwOpen(s) /\ LwipFree /\ LwCalled
    /\ Close(t, s, <<>>)
    /\ lw_mutex' = t
    /\ UNCHANGED <<lw_qlock, lw_inner, LwMisc, LwDevice, lw_log>>

resolve_socket_addr(t) ==
    /\ CanCall(t, "dns") /\ LwipFree /\ LwCalled
    /\ lw_dns' = [lw_dns EXCEPT ![t] = "unfinished"]
    /\ InCall(t, "dns", "dns", "lock")
    /\ UNCHANGED <<LwLocks, lw_pcb, lw_inner, lw_port, LwDevice, lw_log>>
dns_wait(t) ==
    /\ lw_pc[t].op = "dns" /\ lw_pc[t].at = "after"
    /\ IF lw_dns[t] = "unfinished" THEN Goto(t, "lock") ELSE Return(t)
    /\ UNCHANGED <<LwLocks, lw_pcb, lw_inner, LwMisc, LwDevice, lw_log, LwBudget>>

-----------------------------------------------------------------------------
(* The peers: a frame reaches the device, into one of its buffers.          *)

Arrives(frame) ==
    /\ lw_free # {}
    /\ LET buf == CHOOSE b \in lw_free : TRUE
       IN  lw_free' = lw_free \ {buf} /\ lw_dev' = Append(lw_dev, [frame EXCEPT !.buf = buf])
    /\ UNCHANGED <<lw_pc, LwLocks, lw_pcb, lw_inner, LwMisc, lw_rx>>
Frame(kind, s) == [kind |-> kind, s |-> s, buf |-> 0, port |-> 0, bytes |-> <<>>, from |-> <<>>]
FromPeer == lw_frames < LwFrames /\ lw_calls + lw_frames < LwEvents /\ lw_frames' = lw_frames + 1 /\ UNCHANGED lw_calls
Ended(s) == \E q \in {lw_dev, lw_rx} : \E i \in DOMAIN q : q[i].kind = "fin" /\ q[i].s = s
peer_syn(p) == (\E l \in LwTcp : State(l) = "LISTEN" /\ lw_pcb[l].port = p) /\ FromPeer /\ Arrives([Frame("syn", CHOOSE s \in LwTcp : TRUE) EXCEPT !.port = p]) /\ UNCHANGED lw_log
peer_accepts(s) ==
    /\ State(s) = "SYN_SENT" /\ FromPeer
    /\ Arrives(Frame("synack", s)) /\ UNCHANGED lw_log
peer_sends(s, k, a) ==
    /\ State(s) \in {"ESTABLISHED", "UDP"} /\ ~Ended(s) /\ ~lw_inner[s].remote_closed /\ FromPeer
    /\ s \in LwUdp => lw_pcb[s].port # 0 /\ lw_pcb[s].peer \in {<<>>, a}
    /\ Arrives([Frame(IF s \in LwUdp THEN "datagram" ELSE "data", s) EXCEPT !.bytes = [i \in 1 .. k |-> lw_log[s].peer + i], !.from = a])
    /\ lw_log' = [lw_log EXCEPT ![s].peer = @ + k]
peer_closes(s) ==
    /\ State(s) = "ESTABLISHED" /\ ~Ended(s) /\ ~lw_inner[s].remote_closed /\ FromPeer
    /\ Arrives(Frame("fin", s)) /\ UNCHANGED lw_log

Asked(t) == \E q \in {lw_dev, lw_rx} : \E i \in DOMAIN q : q[i].s = t
dns_answers(t) ==
    /\ lw_dns[t] = "unfinished" /\ ~Asked(t)
    /\ FromPeer
    /\ \E kind \in {"found", "not found"} : Arrives(Frame(kind, t))
    /\ UNCHANGED lw_log

LwNext ==
    \/ \E t \in LwThreads :
        \/ lwip_loop_once(t) \/ loop_done(t) \/ accept_callback(t) \/ connect_callback(t) \/ recv_callback(t) \/ udp_recv_callback(t)
        \/ connect_wait(t) \/ accept_take(t) \/ recv_check(t) \/ recv_take(t) \/ recv_from_take(t) \/ recv_free(t) \/ polled(t) \/ drop_rest(t)
        \/ dns_found_callback(t) \/ resolve_socket_addr(t) \/ dns_wait(t) \/ dns_answers(t)
        \/ \E s \in LwSockets :
            \/ tcp_new(t, s) \/ udp_new(t, s) \/ set_nonblocking(t, s) \/ tcp_listen(t, s) \/ tcp_connect(t, s) \/ tcp_accept(t, s)
            \/ lw_poll(t, s) \/ tcp_drop(t, s) \/ udp_drop(t, s)
            \/ \E p \in LwPorts : tcp_bind(t, s, p) \/ udp_bind(t, s, p)
            \/ \E len \in LwReads : tcp_recv(t, s, len) \/ udp_recv_from(t, s, len)
            \/ \E len \in LwSends : tcp_send(t, s, len) \/ \E a \in LwPeers : udp_send_to(t, s, len, a)
            \/ \E a \in LwPeers : udp_connect(t, s, a)
    \/ \E p \in LwPorts : peer_syn(p)
    \/ \E s \in LwSockets : peer_accepts(s) \/ peer_closes(s) \/ \E k \in LwSends, a \in LwPeers : peer_sends(s, k, a)

-----------------------------------------------------------------------------
BytesTo(s, q) == FlattenSeq([i \in DOMAIN q |-> IF q[i].s = s THEN q[i].bytes ELSE <<>>])
UnreadBy(s) == LET q == lw_inner[s].recv_queue IN FlattenSeq([i \in DOMAIN q |-> RestOf(q[i])])
LwPlaces(name, q) == {<<name, i, q[i].buf>> : i \in DOMAIN q}
Held == LwPlaces("dev", lw_dev) \cup LwPlaces("rx", lw_rx) \cup UNION {LwPlaces(s, lw_inner[s].recv_queue) : s \in LwSockets}
HeldBufs == {h[3] : h \in Held}
InHand == {lw_pc[t].len : t \in {u \in LwThreads : lw_pc[u].op = "free"}}

\* What a program reads from a socket is what its peer sent, in order and
\* once, whichever thread polled it in and however the reads cut it up; every
\* receive buffer of the device is in one place; a send that succeeded is on
\* the wire once, in the order of the sends, to the address that was named;
\* an answer of DNS finds its asker waiting, so that the entry it is written to
\* is still there;
\* and the prefix of the interface's mask is that of 255.255.255.0.
LwipInOrder ==
    /\ \A s \in LwSockets : LwOpen(s) =>
        lw_log[s].read \o UnreadBy(s) \o BytesTo(s, lw_rx) \o BytesTo(s, lw_dev) = [i \in 1 .. lw_log[s].peer |-> i]
    /\ Cardinality(Held) = Cardinality(HeldBufs)
    /\ HeldBufs \cap lw_free = {} /\ InHand \cap (lw_free \cup HeldBufs) = {}
    /\ lw_free \cup InHand \cup HeldBufs = LwBufs
    /\ \A s \in LwSockets :
        LET out == lw_log[s].out
            sends == lw_log[s].sends
        IN  /\ \A i, j \in DOMAIN out : i < j => out[i].n < out[j].n
            /\ \A n \in DOMAIN sends : sends[n].ok =>
                \E i \in DOMAIN out : out[i].n = n /\ out[i].len = sends[n].len /\ (s \in LwUdp => out[i].to = sends[n].to)
    /\ \A t \in LwThreads : lw_dns[t] = "unfinished" \/ Asked(t) => lw_pc[t].op = "dns"
    /\ mask_to_prefix(from_ip_addr(init_interface.netmask)) = 24
=============================================================================
