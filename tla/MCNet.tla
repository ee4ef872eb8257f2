------------------------------- MODULE MCNet -------------------------------
(* Instances of Net: two threads that serve connections, make them, or use *)
(* datagrams.                                                              *)
EXTENDS Net

C(call, arg) == [call |-> call, arg |-> arg, addr |-> "ok", buf |-> TRUE]
NoAddr(call, arg) == [C(call, arg) EXCEPT !.addr = "null"]
NoBuf(call) == [C(call, 0) EXCEPT !.buf = FALSE]
P(ops, sockets, also, times) == [ops |-> ops, sockets |-> sockets, also |-> also, times |-> times]
tcp == [kind |-> "tcp", nonblock |-> FALSE]
tcp_nonblock == [kind |-> "tcp", nonblock |-> TRUE]
udp == [kind |-> "udp", nonblock |-> FALSE]

MCPrograms ==
  {P({C("sys_bind", 1), C("sys_listen", 0), C("sys_accept", 0), C("sys_shutdown", 0)}, {tcp}, {"close"}, 7),
   P({C("sys_bind", 1), C("sys_bind", 0), C("sys_listen", 0), C("poll", 0), C("sys_accept", 0)}, {tcp, tcp_nonblock}, {}, 5),
   P({C("sys_connect", 1), C("sys_connect", 0), C("poll", 0), C("nonblock", 1)}, {tcp}, {"close", "dns"}, 4),
   P({C("sys_connect", 1), C("sys_recv", 0), C("sys_recv", MSG_PEEK), C("sys_recv", MSG_DONTWAIT), C("sys_sendmsg", 0),
      C("write", 0), C("sys_shutdown", 0)}, {tcp}, {"close"}, 4),
   P({C("sys_bind", 1), C("sys_connect", 1), C("recv_peer", 0), C("sys_send", 0), C("sys_bind", 2), C("sys_sendto", 1)}, {udp}, {"close"}, 4),
   P({C("sys_connect", 1), C("sys_recv", 0), C("recv_peer", 0), C("sys_shutdown", 0), C("nonblock", 1), C("poll", 0)}, {udp}, {"close"}, 4),
   P({NoAddr("sys_bind", 1), NoAddr("sys_sendto", 1), NoAddr("sys_recvfrom", 0), NoBuf("sys_recvfrom"), C("sys_recvfrom", 0), NoBuf("sys_send"),
      NoBuf("sys_recv"), NoAddr("sys_accept", 0), C("sys_listen", 0), C("sys_getsockname", 0), NoAddr("sys_getsockname", 0),
      C("sys_getpeername", 0), NoAddr("sys_getpeername", 0), NoBuf("sys_sendmsg"), C("sys_sendmsg", 1), C("read", 0)}, {tcp, udp}, {}, 3)}

\* A nonblocking listener, and a thread that asks a name server.
NonblockPrograms == {P({C("sys_bind", 1), C("sys_listen", 0), C("sys_accept", 0)}, {tcp_nonblock}, {"dns"}, 5)}
=============================================================================
