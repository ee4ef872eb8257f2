-------------------------------- MODULE MCFs --------------------------------
(* Instances of the file calls.  Thread t1 moves the current directory and *)
(* works with relative paths; t2 creates, removes and renames.             *)
EXTENDS Fs

P(lead, parts) == [lead |-> lead, parts |-> parts, slash |-> FALSE]
Slashed(lead, parts) == [lead |-> lead, parts |-> parts, slash |-> TRUE]
F(acc, set) == [acc |-> acc, set |-> set]

MCThreads == {"t1", "t2"}

Program(u1, u2, paths, flags) ==
    [uses |-> [t1 |-> u1, t2 |-> u2], paths |-> paths, flags |-> flags]

\* Directories come and go under a thread that moves the current directory.
Moving == Program({"chdir"}, {"mkdir", "rmdir"},
                  {P("/", <<>>), P("/", <<"tmp">>), P("", <<"a">>), P("..", <<>>), Slashed(".", <<"b">>)}, {})

\* Names are opened, created, removed and renamed.
Naming == Program({"open", "openat"}, {"unlink", "rename", "mkdir", "mkdir_all", "getdents"},
                  {P("", <<"a">>), P("", <<"a", "b">>)},
                  {F("rd", {"directory"}), F("wr", {"creat"})})

\* Two descriptors of one file, or of a file and of a new one of its name.
Writing == Program({"open", "write", "read"}, {"close", "lseek", "unlink"},
                   {P("", <<"a">>)}, {F("rdwr", {"creat"}), F("wr", {"append"}), F("rd", {"trunc"})})

\* A file is written at places and cut while it is read and written.
Sizing == Program({"open", "write", "read"}, {"pwrite", "set_len", "close", "unlink"},
                  {P("", <<"a">>)}, {F("rdwr", {"creat"}), F("wr", {"creat", "exec"})})

MCPrograms == {Moving, Naming, Writing, Sizing}
=============================================================================
