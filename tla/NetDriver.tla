------------------------------ MODULE NetDriver ------------------------------
(***************************************************************************)
(* The buffers of a network card: the pool they come from                  *)
(* (driver_net/net_buf.rs), the virtio-net driver that lends them to its   *)
(* two rings (driver_virtio/net.rs) or the ixgbe driver with its queue     *)
(* (driver_net/ixgbe.rs), and the tokens smoltcp gets for receiving and    *)
(* sending (smoltcp_impl/mod.rs).  A buffer is its offset in the pool.     *)
(* The rings of virtio, the card behind them and smoltcp are external; the *)
(* whole of it runs under the lock of the interface.                       *)
(***************************************************************************)
EXTENDS Integers, Sequences, FiniteSets, SequencesExt

CONSTANTS
    QS,                 \* size of the rings
    NET_BUF_LEN, NdHdr, \* length of a buffer and of virtio's header
    NdMtu,              \* max_transmission_unit: the longest packet smoltcp sends
    RECV_BATCH_SIZE,
    NdPackets           \* bound on packets that arrive

VARIABLES
    nd_card,        \* "virtio" or "ixgbe"
    nd_pool,        \* free_list, a stack of offsets
    nd_rx, nd_tx,   \* rx_buffers and tx_buffers: the buffer of each token, or None
    nd_free_tx,     \* free_tx_bufs, a stack
    nd_queue,       \* ixgbe: rx_buffer_queue
    nd_ring,        \* external: tokens the card has filled, with the packet; packets it is sending; tokens sent
    nd_hand,        \* what smoltcp holds: a received buffer, and whether it has a token to send
    nd_wire,        \* packets that arrived, that smoltcp got, that were sent
    nd_panic        \* an unwrap of the driver's result has failed
nd_vars == <<nd_card, nd_pool, nd_rx, nd_tx, nd_free_tx, nd_queue, nd_ring, nd_hand, nd_wire, nd_panic>>

Token == 0 .. QS - 1
None == -1
NoHand == [buf |-> None, packet |-> 0, tx |-> FALSE]

-----------------------------------------------------------------------------
(* The pool.                                                                *)

NetBufPool_new(capacity, buf_len) == [i \in 1 .. capacity |-> (i - 1) * buf_len]
alloc(pool) == [buf |-> pool[Len(pool)], pool |-> Front(pool)]
dealloc(pool, pool_offset) == Append(pool, pool_offset)

\* virtio_net_try_new: every token of the receive ring has a buffer, and the others wait
\* to be sent.
RECURSIVE fill_rx_buffers(_, _)
fill_rx_buffers(pool, i) ==
    IF i = QS THEN [pool |-> pool, rx |-> <<>>]
    ELSE LET a == alloc(pool)
             rest == fill_rx_buffers(a.pool, i + 1)
         IN  [pool |-> rest.pool, rx |-> <<a.buf>> \o rest.rx]
RECURSIVE fill_tx_buffers(_, _)
fill_tx_buffers(pool, n) ==
    IF n = 0 THEN [pool |-> pool, free_tx |-> <<>>]
    ELSE LET a == alloc(pool)
             rest == fill_tx_buffers(a.pool, n - 1)
         IN  [pool |-> rest.pool, free_tx |-> <<a.buf>> \o rest.free_tx]
virtio_net_try_new ==
    LET received == fill_rx_buffers(NetBufPool_new(2 * QS, NET_BUF_LEN), 0)
        sent == fill_tx_buffers(received.pool, QS)
    IN  [pool |-> sent.pool, rx |-> [t \in Token |-> received.rx[t + 1]], free_tx |-> sent.free_tx]

NdInit ==
    /\ nd_card = "none" /\ nd_pool = <<>> /\ nd_free_tx = <<>>
    /\ nd_rx = [t \in Token |-> None] /\ nd_tx = [t \in Token |-> None]
    /\ nd_queue = <<>> /\ nd_ring = [filled |-> <<>>, sending |-> <<>>, sent |-> <<>>]
    /\ nd_hand = NoHand /\ nd_wire = [arrived |-> 0, got |-> <<>>, asked |-> <<>>, sent |-> <<>>]
    /\ nd_panic = FALSE
\* The driver that finds its card.
virtio_init ==
    /\ nd_card = "none" /\ nd_card' = "virtio"
    /\ nd_pool' = virtio_net_try_new.pool /\ nd_rx' = virtio_net_try_new.rx /\ nd_free_tx' = virtio_net_try_new.free_tx
    /\ UNCHANGED <<nd_tx, nd_queue, nd_ring, nd_hand, nd_wire, nd_panic>>
ixgbe_init ==
    /\ nd_card = "none" /\ nd_card' = "ixgbe"
    /\ nd_pool' = NetBufPool_new(2 * QS, NET_BUF_LEN)
    /\ UNCHANGED <<nd_rx, nd_tx, nd_free_tx, nd_queue, nd_ring, nd_hand, nd_wire, nd_panic>>

-----------------------------------------------------------------------------
(* virtio-net.                                                              *)

\* Descriptors of the send ring that are free.
FreeTokens == {t \in Token : nd_tx[t] = None}
\* recycle_tx_buffers: what the card has sent goes back to free_tx_bufs, or,
\* with ixgbe, to its pool.
SentTokens == nd_ring.sent
virtio_recycle_tx == nd_free_tx \o [i \in DOMAIN SentTokens |-> nd_tx[SentTokens[i]]]
ixgbe_recycle_tx == nd_pool \o SentTokens
recycle_tx_buffers ==
    /\ nd_free_tx' = IF nd_card = "virtio" THEN virtio_recycle_tx ELSE nd_free_tx
    /\ nd_tx' = [t \in Token |-> IF t \in ToSet(SentTokens) /\ nd_card = "virtio" THEN None ELSE nd_tx[t]]
    /\ nd_pool' = IF nd_card = "ixgbe" THEN ixgbe_recycle_tx ELSE nd_pool
\* can_transmit, after that.  The ixgbe crate says yes in any case.
mut_can_transmit == TRUE
can_transmit == nd_card = "ixgbe" \/ (virtio_recycle_tx # <<>> /\ FreeTokens \cup ToSet(SentTokens) # {})

\* alloc_tx_buffer: a buffer too short for the packet is dropped, back to the pool.
alloc_tx_buffer(len) ==
    LET buf == nd_free_tx[Len(nd_free_tx)] IN
    IF nd_free_tx = <<>> THEN [ok |-> FALSE, buf |-> None, pool |-> nd_pool, free_tx |-> <<>>]
    ELSE IF NdHdr + len > NET_BUF_LEN THEN [ok |-> FALSE, buf |-> None, pool |-> dealloc(nd_pool, buf), free_tx |-> Front(nd_free_tx)]
    ELSE [ok |-> TRUE, buf |-> buf, pool |-> nd_pool, free_tx |-> Front(nd_free_tx)]

-----------------------------------------------------------------------------
(* smoltcp: DeviceWrapper and its tokens.                                   *)

\* The next packet the driver has: virtio takes one from its ring; ixgbe takes
\* a batch when its queue is empty, and hands it out one by one.
AtMostBatch == IF Len(nd_ring.filled) < RECV_BATCH_SIZE THEN Len(nd_ring.filled) ELSE RECV_BATCH_SIZE
virtio_receive ==
    IF nd_ring.filled = <<>> THEN [ok |-> FALSE, filled |-> <<>>, queue |-> <<>>]
    ELSE LET used == Head(nd_ring.filled) IN
         [ok |-> TRUE, filled |-> Tail(nd_ring.filled), queue |-> <<>>, rx |-> [nd_rx EXCEPT ![used.token] = None],
          buf |-> nd_rx[used.token], packet |-> used.packet]
ixgbe_receive ==
    LET batch == IF nd_queue # <<>> THEN 0 ELSE AtMostBatch
        q == nd_queue \o SubSeq(nd_ring.filled, 1, batch)
    IN  IF q = <<>> THEN [ok |-> FALSE, filled |-> <<>>, queue |-> <<>>]
        ELSE [ok |-> TRUE, filled |-> SubSeq(nd_ring.filled, batch + 1, Len(nd_ring.filled)), queue |-> Tail(q), rx |-> nd_rx,
              buf |-> Head(q).token, packet |-> Head(q).packet]
\* receive: sent buffers are recycled first, and nothing is received while an
\* answer could not be sent.
device_receive ==
    LET r == IF nd_card = "virtio" THEN virtio_receive ELSE ixgbe_receive IN
    /\ nd_card # "none" /\ nd_hand = NoHand
    /\ recycle_tx_buffers
    /\ IF can_transmit /\ r.ok
       THEN /\ nd_hand' = [buf |-> r.buf, packet |-> r.packet, tx |-> TRUE]
            /\ nd_rx' = r.rx /\ nd_queue' = r.queue
            /\ nd_ring' = [nd_ring EXCEPT !.sent = <<>>, !.filled = r.filled]
       ELSE nd_ring' = [nd_ring EXCEPT !.sent = <<>>] /\ UNCHANGED <<nd_hand, nd_rx, nd_queue>>
    /\ UNCHANGED <<nd_card, nd_wire, nd_panic>>
device_transmit ==
    /\ nd_card # "none" /\ nd_hand = NoHand
    /\ recycle_tx_buffers
    /\ nd_ring' = [nd_ring EXCEPT !.sent = <<>>]
    /\ nd_hand' = IF can_transmit THEN [NoHand EXCEPT !.tx = TRUE] ELSE NoHand
    /\ UNCHANGED <<nd_card, nd_rx, nd_queue, nd_wire, nd_panic>>

\* TxToken::consume: a buffer is taken, filled and lent to the ring; both
\* results are unwrapped.
tx_consume(len) ==
    LET a == alloc_tx_buffer(len)
        taken == a.ok /\ FreeTokens # {}
        t == CHOOSE u \in FreeTokens : TRUE
    IN
    /\ nd_card = "virtio" /\ nd_hand.tx
    /\ nd_hand' = [nd_hand EXCEPT !.tx = FALSE]
    /\ nd_pool' = a.pool /\ nd_free_tx' = a.free_tx
    /\ nd_panic' = ~taken
    /\ nd_tx' = IF taken THEN [nd_tx EXCEPT ![t] = a.buf] ELSE nd_tx
    /\ nd_ring' = IF taken THEN [nd_ring EXCEPT !.sending = Append(@, [token |-> t, len |-> len])] ELSE nd_ring
    /\ nd_wire' = [nd_wire EXCEPT !.asked = Append(@, len)]
    /\ UNCHANGED <<nd_card, nd_rx, nd_queue>>
\* ixgbe: the entry of the pool is the packet.  No entry, or a full ring, is an
\* error here only, since can_transmit has promised room.
ixgbe_tx_consume(len) ==
    LET taken == nd_pool # <<>> /\ Len(nd_ring.sending) < QS IN
    /\ nd_card = "ixgbe" /\ nd_hand.tx
    /\ nd_hand' = [nd_hand EXCEPT !.tx = FALSE]
    /\ nd_panic' = ~taken
    /\ nd_pool' = IF taken THEN alloc(nd_pool).pool ELSE nd_pool
    /\ nd_ring' = IF taken THEN [nd_ring EXCEPT !.sending = Append(@, [token |-> alloc(nd_pool).buf, len |-> len])] ELSE nd_ring
    /\ nd_wire' = [nd_wire EXCEPT !.asked = Append(@, len)]
    /\ UNCHANGED <<nd_card, nd_rx, nd_tx, nd_free_tx, nd_queue>>
\* A token that is not needed is dropped.
tx_drop == nd_hand.tx /\ nd_hand' = [nd_hand EXCEPT !.tx = FALSE] /\ UNCHANGED <<nd_card, nd_pool, nd_rx, nd_tx, nd_free_tx, nd_queue, nd_ring, nd_wire, nd_panic>>
\* RxToken::consume: after the packet is handled, recycle_rx_buffer lends the
\* buffer to the ring again, whose token must be free.
RxFree == {t \in Token : nd_rx[t] = None}
rx_consume ==
    /\ nd_card = "virtio" /\ nd_hand.buf # None /\ ~nd_hand.tx
    /\ nd_hand' = NoHand
    /\ nd_wire' = [nd_wire EXCEPT !.got = Append(@, nd_hand.packet)]
    /\ nd_panic' = (RxFree = {})
    /\ nd_rx' = [t \in Token |-> IF RxFree # {} /\ t = CHOOSE u \in RxFree : TRUE THEN nd_hand.buf ELSE nd_rx[t]]
    /\ UNCHANGED <<nd_card, nd_pool, nd_tx, nd_free_tx, nd_queue, nd_ring>>
ixgbe_rx_consume ==
    /\ nd_card = "ixgbe" /\ nd_hand.buf # None /\ ~nd_hand.tx
    /\ nd_hand' = NoHand
    /\ nd_wire' = [nd_wire EXCEPT !.got = Append(@, nd_hand.packet)]
    /\ nd_pool' = dealloc(nd_pool, nd_hand.buf)
    /\ UNCHANGED <<nd_card, nd_rx, nd_tx, nd_free_tx, nd_queue, nd_ring, nd_panic>>

-----------------------------------------------------------------------------
(* The card.                                                                *)

FilledTokens == {nd_ring.filled[i].token : i \in DOMAIN nd_ring.filled}
Arrival(token) ==
    /\ nd_wire.arrived < NdPackets
    /\ nd_wire' = [nd_wire EXCEPT !.arrived = @ + 1]
    /\ nd_ring' = [nd_ring EXCEPT !.filled = Append(@, [token |-> token, packet |-> nd_wire.arrived + 1])]
card_receives ==
    /\ nd_card = "virtio"
    /\ \E t \in Token : nd_rx[t] # None /\ t \notin FilledTokens /\ Arrival(t)
    /\ UNCHANGED <<nd_card, nd_pool, nd_rx, nd_tx, nd_free_tx, nd_queue, nd_hand, nd_panic>>
ixgbe_card_receives ==
    /\ nd_card = "ixgbe" /\ nd_pool # <<>>
    /\ Arrival(alloc(nd_pool).buf)
    /\ nd_pool' = alloc(nd_pool).pool
    /\ UNCHANGED <<nd_card, nd_rx, nd_tx, nd_free_tx, nd_queue, nd_hand, nd_panic>>
card_sends ==
    /\ nd_ring.sending # <<>>
    /\ LET s == Head(nd_ring.sending) IN
        /\ nd_ring' = [nd_ring EXCEPT !.sending = Tail(@), !.sent = Append(@, s.token)]
        /\ nd_wire' = [nd_wire EXCEPT !.sent = Append(@, s.len)]
    /\ UNCHANGED <<nd_card, nd_pool, nd_rx, nd_tx, nd_free_tx, nd_queue, nd_hand, nd_panic>>

NdNext ==
    /\ ~nd_panic /\ Len(nd_wire.asked) <= NdPackets
    /\ \/ virtio_init \/ ixgbe_init
       \/ device_receive \/ device_transmit \/ tx_drop \/ rx_consume \/ ixgbe_rx_consume
       \/ \E len \in {1, NdMtu} : tx_consume(len) \/ ixgbe_tx_consume(len)
       \/ card_receives \/ ixgbe_card_receives \/ card_sends

-----------------------------------------------------------------------------
LentIn(f) == {<<"ring", t, f[t]>> : t \in {u \in DOMAIN f : f[u] # None}}
StackedIn(name, q) == {<<name, i, q[i]>> : i \in DOMAIN q}
NamedIn(name, q) == {<<name, i, q[i].token>> : i \in DOMAIN q}
BufferPlaces ==
    LET ixgbe == nd_card = "ixgbe" IN
    StackedIn("pool", nd_pool) \cup StackedIn("free_tx", nd_free_tx)
    \cup {<<"rx", x[2], x[3]>> : x \in LentIn(nd_rx)} \cup {<<"tx", x[2], x[3]>> : x \in LentIn(nd_tx)}
    \cup (IF ixgbe THEN NamedIn("queue", nd_queue) \cup NamedIn("card", nd_ring.filled) \cup NamedIn("sending", nd_ring.sending) \cup StackedIn("sent", SentTokens) ELSE {})
    \cup (IF nd_hand.buf # None THEN {<<"hand", 0, nd_hand.buf>>} ELSE {})

\* Every buffer of the pool is in exactly one place, so that the card never
\* writes into one that is in use and none is lost; packets reach smoltcp in
\* the order they arrived and leave in the order they were sent; and with
\* virtio a token to send always finds a buffer and a descriptor, even for the
\* longest packet, so that the unwraps of the tokens cannot fail.
BuffersOnce ==
    nd_card # "none" =>
    /\ nd_card = "virtio" => ~nd_panic
    /\ Cardinality(BufferPlaces) = 2 * QS
    /\ {p[3] : p \in BufferPlaces} = {i * NET_BUF_LEN : i \in 0 .. 2 * QS - 1}
    /\ nd_wire.got = [i \in DOMAIN nd_wire.got |-> i]
    /\ IsPrefix(nd_wire.sent, nd_wire.asked)
=============================================================================
