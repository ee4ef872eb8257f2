------------------------------ MODULE MCMmap ------------------------------
(* Instances of Mmap: anonymous memory with partial calls, private and      *)
(* shared mappings of a file, and areas that grow and move.                 *)
EXTENDS Mmap

Anon == [file |-> FALSE, prot |-> {"r", "w"}, private |-> TRUE]
Private == [file |-> TRUE, prot |-> {"r", "w"}, private |-> TRUE]
Shared == [file |-> TRUE, prot |-> {"r", "w"}, private |-> FALSE]
P(ops, areas, lens, hints, whole, marks) ==
  [ops |-> ops, areas |-> areas, lens |-> lens, hints |-> hints, whole |-> whole, marks |-> marks, above |-> VMA_START]

MCPrograms ==
  {P({"mmap", "munmap", "mprotect"}, {Anon}, {1, 2}, {0, 2}, FALSE, {2, 3}),
   P({"mmap", "mremap"}, {Anon}, {1, 2}, {0}, TRUE, {2, 3}),
   P({"mmap", "fixed"}, {Anon}, {2}, {0}, TRUE, {2, 3}),
   P({"mmap", "shrink"}, {Anon}, {1, 2}, {0}, TRUE, {2, 3}),
   P({"mmap", "dontunmap"}, {Anon}, {1}, {0}, TRUE, {1}),
   P({"mmap", "msync"}, {Private, Anon}, {2}, {0}, TRUE, {2}),
   P({"mmap", "msync"}, {Shared, Anon}, {2}, {0}, TRUE, {2})}
=============================================================================
