------------------------------ MODULE MCNineP ------------------------------
(* Two threads and seven programs: they open and close the same names, make  *)
(* and remove them, rename them into a directory behind a link or into one *)
(* that comes and goes, truncate, and run on servers with the other        *)
(* versions of the protocol.                                               *)
EXTENDS NineP

C(op, path, ty, to) == [op |-> op, path |-> path, ty |-> ty, to |-> to]
Open(path) == C("open", path, "", <<>>)
Unlink(path) == C("remove", path, "", <<>>)
Create(path, ty) == C("create", path, ty, <<>>)
Rename(path, to) == C("rename", path, "", to)
Truncate == C("truncate", <<>>, "", <<>>)
Program(proto, fids, times, calls) == [proto |-> proto, fids |-> fids, times |-> times, calls |-> calls]

MCPrograms ==
  {Program("L", 4, 2, {Open(<<"d", "f">>), Open(<<"..">>), Unlink(<<"d", "f">>)}),
   Program("L", 4, 3, {Create(<<"d", "g">>, "file"), Create(<<"g">>, "dir"), Unlink(<<"g">>)}),
   Program("L", 5, 2, {Rename(<<"d", "f">>, <<"l", "g">>), Rename(<<"d">>, <<"g">>), Unlink(<<"d", "f">>)}),
   Program("L", 6, 2, {Rename(<<"d", "f">>, <<"g", "f">>), Rename(<<"d">>, <<"g", "f">>), Create(<<"g">>, "dir")}),
   Program("L", 4, 3, {Open(<<"l">>), Truncate, Unlink(<<"d", "f">>), Unlink(<<"d">>)}),
   Program("u", 4, 2, {Open(<<"d", "f">>), Truncate, Unlink(<<"d", "f">>), Rename(<<"d", "f">>, <<"g">>)}),
   Program("other", 4, 3, {Create(<<"g">>, "file"), Open(<<"d">>), Truncate})}
Symmetry == Permutations(Threads)
=============================================================================
