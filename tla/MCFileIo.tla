------------------------------ MODULE MCFileIo ------------------------------
(***************************************************************************)
(* FileIo with one pipe, one epoll instance and the descriptors 0..3, of   *)
(* which 0 is the console.                                                 *)
(***************************************************************************)
EXTENDS FileIo

CONSTANTS p1, x, y

MCFiles == {ReadEnd(p1), WriteEnd(p1), Epoll, Stdio}
MCPipes == {p1}
Program(uses_x, uses_y, reads, writes, bytes) ==
    [uses |-> [z \in {x, y} |-> IF z = x THEN uses_x ELSE uses_y],
     reads |-> reads, writes |-> writes, bytes |-> bytes]

\* One thread writes, the other reads, and they share the pipe with dup.
Piping == Program({"pipe", "close", "write"}, {"dup", "read"}, {1, 2}, {2}, {1, 2})

\* Descriptors are replaced under a reader and a writer.
Moving == Program({"pipe", "dup2", "write"}, {"read", "close"}, {1, 2}, {2}, {1, 2})

\* One thread takes the descriptor that the dup2 of the other has just closed.
Replacing == Program({"pipe", "dup2"}, {"dup", "close"}, {}, {}, {})

\* One thread waits, the other opens, closes, registers and makes files ready.
Waiting == Program({"epoll", "poll"}, {"epoll_create", "pipe", "close", "write", "ctl", "epoll"}, {}, {2}, {1})

MCPrograms == {Piping, Moving, Replacing, Waiting}

MCPollSets == {{1, 2}}
MCInterests == {{"in"}, {"in", "out"}}
=============================================================================
