------------------------------- MODULE NineP -------------------------------
(***************************************************************************)
(* The 9P file system of rux9p.  A CommonNode of fs.rs stands for one fid  *)
(* at the server; Drv9pOps (drv.rs) owns the pool of free fids and sends   *)
(* one request at a time.  Every request takes the write lock of the       *)
(* driver for itself, so a lookup, a create or a rename is a sequence of   *)
(* steps between which other threads get, use and give back fids.          *)
(*                                                                         *)
(* What a thread has still to do is a stack of frames, the calls that have *)
(* not returned; its top says which request comes next.  The server is     *)
(* external: a tree of objects and the table of the fids it knows.         *)
(***************************************************************************)
EXTENDS Integers, Sequences, FiniteSets, SequencesExt

CONSTANTS Threads,  \* the threads of the program
          FID_MAX,  \* the largest fid of the pool
          Programs, \* what may run: [proto, calls: a set of [op, path, ty, to],
                    \* fids: how many are free, times: the bound on the calls]
          MaxObj,   \* the bound on the objects of the server
          MaxFault  \* the bound on the clunks that the server fails

VARIABLES pool,     \* Drv9pOps.fid_gen, a stack of free fids
          nodes,    \* the CommonNodes
          held,     \* the nodes the program has open
          th,       \* [todo: the frames, res: what the last one returned]
          srv,      \* the server: [tree, fid]
          program,  \* the program that runs, and the protocol of its server
          budget    \* the calls and the failed clunks that are left

vars == <<pool, nodes, held, th, srv, program, budget>>

Fids == 0..FID_MAX
NodeIds == 0..(FID_MAX + 1)
Root == 0
Objs == 0..MaxObj
NoObj == -1

\* What a call returns: a node, or one of these.
Done == -1
NotFound == -2
BadState == -3
AlreadyExists == -4
Unsupported == -5

-----------------------------------------------------------------------------
(* The server.                                                             *)

Obj(kind, dir, name) == [kind |-> kind, dir |-> dir, name |-> name, size |-> 0]
NoEntry == Obj("none", NoObj, "")

\* A root with a directory d, a file f in it and a link l to d.
Tree0 == [o \in Objs |-> CASE o = 0 -> Obj("dir", 0, "/")
                           [] o = 1 -> Obj("dir", 0, "d")
                           [] o = 2 -> [Obj("file", 1, "f") EXCEPT !.size = 2]
                           [] o = 3 -> Obj("link", 0, "l")
                           [] OTHER -> NoEntry]
LinkTarget == <<"d">>

Children(s, o) == {c \in Objs \ {0} : s.tree[c].kind # "none" /\ s.tree[c].dir = o}
Child(s, o, name) ==
  LET found == {c \in Children(s, o) : s.tree[c].name = name}
  IN  IF o = NoObj THEN NoObj
      ELSE IF name = ".." THEN s.tree[o].dir
      ELSE IF s.tree[o].kind # "dir" \/ found = {} THEN NoObj
      ELSE CHOOSE c \in found : TRUE

Bind(s, fid, o) == [s EXCEPT !.fid[fid] = o]
Reply(s, code) == [srv |-> s, code |-> code]

RECURSIVE Descend(_, _, _)
Descend(s, o, names) ==
  IF names = <<>> \/ o = NoObj THEN o ELSE Descend(s, Child(s, o, Head(names)), Tail(names))

\* A walk fails when its first name does; when a later one does, it answers
\* with the names it got through and leaves the new fid unbound.
twalk(s, fid, newfid, names) ==
  LET ends == Descend(s, s.fid[fid], names)
  IN  CASE s.fid[fid] = NoObj -> Reply(s, "EBADF")
        [] newfid # fid /\ s.fid[newfid] # NoObj -> Reply(s, "EINVAL")
        [] names # <<>> /\ Child(s, s.fid[fid], names[1]) = NoObj -> Reply(s, "ENOENT")
        [] ends = NoObj -> Reply(s, "ok")
        [] OTHER -> Reply(Bind(s, newfid, ends), "ok")

Kind(s, fid) == IF s.fid[fid] = NoObj THEN "none" ELSE s.tree[s.fid[fid]].kind

topen(s, fid, mode) ==
  Reply(s, CASE Kind(s, fid) = "none" -> "ENOENT"
             [] Kind(s, fid) = "dir" /\ mode = "rdwr" -> "EISDIR"
             [] Kind(s, fid) = "link" -> "ELOOP"
             [] OTHER -> "ok")

treadlink(s, fid) == Reply(s, IF Kind(s, fid) = "link" THEN "ok" ELSE "EINVAL")

tclunk(s, fid) == Reply(Bind(s, fid, NoObj), IF s.fid[fid] = NoObj THEN "ENOENT" ELSE "ok")

\* A remove gives its fid up, whether it removes the object or not; other
\* fids of a removed object stay bound to it until they are clunked.
Drop(s, o) == [s EXCEPT !.tree[o] = NoEntry]
tremove(s, fid) ==
  LET o == s.fid[fid]
  IN  CASE o = NoObj -> Reply(s, "ENOENT")
        [] o = 0 \/ Children(s, o) # {} -> Reply(Bind(s, fid, NoObj), "ENOTEMPTY")
        [] OTHER -> Reply(Bind(Drop(s, o), fid, NoObj), "ok")

FreeObjs(s) == {o \in Objs : s.tree[o].kind = "none" /\ \A f \in Fids : s.fid[f] # o}
Make(s, fid, name, kind, binds) ==
  LET dir == s.fid[fid]
      new == CHOOSE o \in FreeObjs(s) : TRUE
      made == [s EXCEPT !.tree[new] = Obj(kind, dir, name)]
  IN  CASE Kind(s, fid) # "dir" -> Reply(s, "ENOTDIR")
        [] Child(s, dir, name) # NoObj -> Reply(s, "EEXIST")
        [] FreeObjs(s) = {} -> Reply(s, "ENOSPC")
        [] OTHER -> Reply(IF binds THEN Bind(made, fid, new) ELSE made, "ok")

\* A created file takes over the fid of its directory.
l_tcreate(s, fid, name) == Make(s, fid, name, "file", TRUE)
tmkdir(s, dfid, name) == Make(s, dfid, name, "dir", FALSE)

Below(s, o, top) == o = top \/ s.tree[o].dir = top \/ s.tree[s.tree[o].dir].dir = top
trename_at(s, from, oldname, to, newname) ==
  LET o == Child(s, s.fid[from], oldname)
      old == Child(s, s.fid[to], newname)
      over == IF old = NoObj THEN s ELSE Drop(s, old)
  IN  CASE Kind(s, from) # "dir" \/ Kind(s, to) # "dir" -> Reply(s, "ENOTDIR")
        [] o = NoObj -> Reply(s, "ENOENT")
        [] o = old -> Reply(s, "ok")
        [] Below(s, s.fid[to], o) \/ (old # NoObj /\ Children(s, old) # {}) -> Reply(s, "EINVAL")
        [] OTHER -> Reply([over EXCEPT !.tree[o].dir = s.fid[to], !.tree[o].name = newname], "ok")

\* The size and the name of an object, and both set at once: the server may
\* refuse the second.
tstat(s, fid) == IF Kind(s, fid) = "none" THEN NoEntry ELSE s.tree[s.fid[fid]]
twstat(s, fid, stat, size) ==
  IF Kind(s, fid) = "none" THEN Reply(s, "ENOENT")
  ELSE Reply([s EXCEPT !.tree[s.fid[fid]].name = stat.name, !.tree[s.fid[fid]].size = size], "ok")
tsetattr(s, fid, size) ==
  IF Kind(s, fid) = "none" THEN Reply(s, "ENOENT")
  ELSE Reply([s EXCEPT !.tree[s.fid[fid]].size = size], "ok")

-----------------------------------------------------------------------------
(* Reads, writes and listings longer than one request.                     *)

MAX_READ_LEN == 1        \* the bytes of one Tread or Twrite
MAX_DIR_LEN == 60        \* the bytes of one Treaddir
COUNT_END == 11          \* where the entries start in the reply
BUFFER == 2              \* the buffer of the copy in rename
MaxSize == 2             \* the largest file

SmallerOf(a, b) == IF a < b THEN a ELSE b

tread(size, offset, count) ==
  IF offset >= size THEN 0 ELSE SmallerOf(SmallerOf(count, MAX_READ_LEN), size - offset)
twrite(len) == SmallerOf(len, MAX_READ_LEN)

mut_ReadFrom(size, offset, done, len) == tread(size, offset, len)

RECURSIVE ReadFrom(_, _, _, _)
ReadFrom(size, offset, done, len) ==
  LET rlen == tread(size, offset + done, len - done)
  IN  IF done = len \/ rlen = 0 THEN done ELSE ReadFrom(size, offset, done + rlen, len)
read_at(size, offset, len) == ReadFrom(size, offset, 0, len)

RECURSIVE Written(_, _, _)
Written(size, at, left) ==
  IF left = 0 THEN size
  ELSE Written(IF at + twrite(left) > size THEN at + twrite(left) ELSE size,
               at + twrite(left), left - twrite(left))
write_at(size, offset, len) == Written(size, offset, len)

\* An entry takes 24 bytes and its name; all names but ".." have one letter.
EntrySize(name) == IF name = ".." THEN 26 ELSE 25
RECURSIVE Bytes(_)
Bytes(es) == IF es = <<>> THEN 0 ELSE EntrySize(Head(es)) + Bytes(Tail(es))
Listing(s, o) == <<".", "..">> \o SetToSeq({s.tree[c].name : c \in Children(s, o)})

\* One reply: the entries after the first "from" ones, as many as fit.
Batch(all, from) ==
  LET fits == {n \in 0..(Len(all) - from) : Bytes(SubSeq(all, from + 1, from + n)) <= MAX_DIR_LEN}
  IN  SubSeq(all, from + 1, from + (CHOOSE n \in fits : \A m \in fits : m <= n))

\* The entries whose first byte lies before "length" of the reply.
Parsed(batch) ==
  SubSeq(batch, 1, Cardinality({i \in DOMAIN batch :
                      COUNT_END + Bytes(SubSeq(batch, 1, i - 1)) < Bytes(batch)}))

RECURSIVE Readdir(_, _)
Readdir(all, got) ==
  LET batch == Batch(all, Len(got))
  IN  IF batch = <<>> THEN got ELSE Readdir(all, got \o Parsed(batch))
treaddir(all) == Readdir(all, <<>>)

\* read_dir gives "." and ".." first and the entries of the server, without
\* its own "." and "..", after them.
read_dir(all, start_idx, n) ==
  LET real == SelectSeq(treaddir(all), LAMBDA e : e \notin {".", ".."})
      shown == <<".", "..">> \o real
  IN  SubSeq(shown, start_idx + 1, SmallerOf(start_idx + n, Len(shown)))

-----------------------------------------------------------------------------
(* Nodes, frames and references.                                           *)

NoNode == [fid |-> -1, parent |-> -1, obj |-> NoObj, live |-> FALSE]
Frame(k, n) == [k |-> k, n |-> n, fid |-> -1, path |-> <<>>, ty |-> "", to |-> <<>>, m |-> -1, len |-> 0]
WithFid(f, fid) == [f EXCEPT !.fid = fid]
WithPath(f, path) == [f EXCEPT !.path = path]

Lookup(n, path) == WithPath(Frame("try_get", n), path)
Deref(n) == IF n <= Root THEN <<>> ELSE <<Frame("deref", n)>>

Top(t) == Head(th[t].todo)
At(t, k) == th[t].todo # <<>> /\ Top(t).k = k

Typed(f, path, ty) == [f EXCEPT !.path = path, !.ty = ty]

\* The directory is looked up name by name, then the name in it.
create(n, path, ty) ==
  IF Len(path) > 1
  THEN <<Lookup(n, <<path[1]>>), Typed(Frame("create_in", n), Tail(path), ty)>>
  ELSE <<Lookup(n, path), Typed(Frame("create_node", n), path, ty)>>

remove(n, path) ==
  IF path = <<>> THEN <<Frame("tremove", n)>> ELSE <<Lookup(n, path), Frame("remove", n)>>

rename(n, src, dst) ==
  <<WithPath(Frame("get_in", n), Front(src)), [Frame("rename_dst", n) EXCEPT !.path = src, !.to = dst]>>

\* What a thread goes on with, without a request, once a lookup has returned
\* res: the rest of the path, the name in the directory found, the remove of
\* the node found, the other directory of a rename, the steps of a copy.
Resumes(f, res) ==
  CASE f.k = "found" -> <<Lookup(res, f.path)>> \o Deref(res)
    [] f.k = "create_in" -> create(res, f.path, f.ty) \o Deref(res)
    [] f.k = "remove" -> <<Frame("tremove", res)>> \o Deref(res)
    [] f.k = "copy_from" -> <<[Frame("copy", res) EXCEPT !.fid = 0, !.m = f.m]>> \o Deref(res) \o Deref(f.m)
    [] f.k = "rename_dst" ->
         <<WithPath(Frame("get_in", f.n), Front(f.to)), [f EXCEPT !.k = "rename_at", !.m = res]>>
    [] f.k = "copy_dst" -> <<Lookup(f.n, f.to), [f EXCEPT !.k = "copy_from"]>>
Resumable == {"found", "create_in", "remove", "copy_from", "rename_dst", "copy_dst"}

\* An error leaves all of them but the two steps that do not look at it.
RECURSIVE Settle(_, _)
Settle(todo, res) ==
  IF todo = <<>> \/ Head(todo).k \notin Resumable THEN [todo |-> todo, res |-> res]
  ELSE LET f == Head(todo)
       IN  IF res >= Root \/ f.k \in {"rename_dst", "copy_dst"}
           THEN Settle(Resumes(f, res) \o Tail(todo), Done)
           ELSE Settle((IF f.k = "copy_from" THEN Deref(f.m) ELSE <<>>) \o Tail(todo), res)

\* The thread pops its top frame, pushes "frames" and keeps "res".
Push(t, frames, res) ==
  LET u == Settle(frames \o Tail(th[t].todo), res)
  IN  th' = [th EXCEPT ![t].todo = u.todo, ![t].res = u.res]
Return(t, res) == Push(t, <<>>, res)
Same(t) == th[t].res

\* The threads that own an Arc of n: as a result, in a frame that will drop
\* it, or in a rename that has not used it yet.
Owns(u, n) == u.res = n \/ \E i \in DOMAIN u.todo : \/ u.todo[i].k = "deref" /\ u.todo[i].n = n
                                                   \/ u.todo[i].m = n
Alive(n) == n = Root \/ n \in held \/ \E t \in Threads : Owns(th[t], n)
LastOwner(t, n) == /\ n \notin held
                   /\ \A u \in Threads \ {t} : ~Owns(th[u], n)
                   /\ ~Owns([th[t] EXCEPT !.todo = Tail(@)], n)

-----------------------------------------------------------------------------
(* The pool of fids.                                                       *)

mut_get_fid(t, f) ==
  IF pool = <<>> THEN Push(t, <<Frame("panic", Root)>>, Done) /\ UNCHANGED pool
  ELSE Push(t, <<WithFid(f, Head(pool))>>, Done) /\ UNCHANGED pool

\* A thread takes a fid for the frame f; without one the kernel panics.
get_fid(t, f) ==
  IF pool = <<>> THEN Push(t, <<Frame("panic", Root)>>, Done) /\ UNCHANGED pool
  ELSE Push(t, <<WithFid(f, Head(pool))>>, Done) /\ pool' = Tail(pool)

recycle_fid(t) ==
  /\ At(t, "recycle")
  /\ pool' = IF Contains(pool, Top(t).fid) THEN pool ELSE <<Top(t).fid>> \o pool
  /\ Return(t, Same(t))
  /\ UNCHANGED <<nodes, held, srv, program, budget>>

Recycle(fid) == WithFid(Frame("recycle", Root), fid)

-----------------------------------------------------------------------------
(* CommonNode::new, and the drop of a node.                                *)

NewNode(t, s) ==
  LET f == Top(t)
      id == CHOOSE i \in NodeIds \ {Root} : ~nodes[i].live
  IN  /\ nodes' = [nodes EXCEPT ![id] = [fid |-> f.fid, parent |-> f.n, obj |-> s.fid[f.fid], live |-> TRUE]]
      /\ Return(t, id)
      /\ srv' = s
Then(t, k, s) == Push(t, <<[Top(t) EXCEPT !.k = k]>>, Done) /\ srv' = s /\ UNCHANGED nodes

CommonNode_new(t) ==
  /\ At(t, "new")
  /\ LET r == topen(srv, Top(t).fid, "rdwr")
     IN  CASE program.proto # "other" /\ r.code = "EISDIR" -> Then(t, "reopen", r.srv)
           [] program.proto = "L" /\ r.code = "ELOOP" -> Then(t, "readlink", r.srv)
           [] OTHER -> NewNode(t, r.srv)
  /\ UNCHANGED <<pool, held, program, budget>>

reopen(t) ==
  /\ At(t, "reopen")
  /\ NewNode(t, topen(srv, Top(t).fid, "rdonly").srv)
  /\ UNCHANGED <<pool, held, program, budget>>

readlink(t) ==
  /\ At(t, "readlink")
  /\ LET r == treadlink(srv, Top(t).fid)
     IN  IF r.code = "ok" THEN Then(t, "rewalk", r.srv) ELSE NewNode(t, r.srv)
  /\ UNCHANGED <<pool, held, program, budget>>

\* The fid walks to the target of the link and is opened again.
rewalk(t) ==
  /\ At(t, "rewalk")
  /\ LET r == twalk(srv, Top(t).fid, Top(t).fid, <<"..">> \o LinkTarget)
     IN  IF r.code = "ok" THEN Then(t, "new", r.srv) ELSE NewNode(t, r.srv)
  /\ UNCHANGED <<pool, held, program, budget>>

\* The clunk of a drop, when this thread has the last Arc; the server may
\* fail it, and then the fid is lost.
Clunked(t, n, frames) ==
  LET fid == nodes[n].fid
      r == tclunk(srv, fid)
  IN  /\ srv' = r.srv
      /\ nodes' = [nodes EXCEPT ![n] = NoNode]
      /\ \/ Push(t, frames, Same(t)) /\ UNCHANGED budget
         \/ /\ r.code = "ok" /\ budget.faults > 0
            /\ budget' = [budget EXCEPT !.faults = @ - 1]
            /\ Return(t, Same(t))

mut_drop(t) ==
  /\ At(t, "deref")
  /\ IF nodes[Top(t).n].live
     THEN Clunked(t, Top(t).n, <<Recycle(nodes[Top(t).n].fid)>>)
     ELSE Return(t, Same(t)) /\ UNCHANGED <<srv, nodes, budget>>
  /\ UNCHANGED <<pool, held, program>>

drop(t) ==
  /\ At(t, "deref")
  /\ IF LastOwner(t, Top(t).n)
     THEN Clunked(t, Top(t).n, <<Recycle(nodes[Top(t).n].fid)>>)
     ELSE Return(t, Same(t)) /\ UNCHANGED <<srv, nodes, budget>>
  /\ UNCHANGED <<pool, held, program>>

-----------------------------------------------------------------------------
(* try_get: one name per fid.                                              *)

parent(n) == nodes[n].parent

try_get(t) ==
  /\ At(t, "try_get")
  /\ LET f == Top(t)
         name == IF f.path = <<>> THEN "" ELSE f.path[1]
         rest == IF f.path = <<>> THEN <<>> ELSE Tail(f.path)
     IN  CASE name = ".." /\ ~Alive(parent(f.n)) -> Return(t, BadState) /\ UNCHANGED pool
           [] name = ".." /\ Alive(parent(f.n)) ->
                Push(t, <<Lookup(parent(f.n), rest)>> \o Deref(parent(f.n)), Done) /\ UNCHANGED pool
           [] OTHER -> get_fid(t, [f EXCEPT !.k = "twalk"])
  /\ UNCHANGED <<nodes, held, srv, program, budget>>

\* The walk to the first name; the node it finds walks on to the rest.
try_get_walk(t) ==
  /\ At(t, "twalk")
  /\ LET f == Top(t)
         r == twalk(srv, nodes[f.n].fid, f.fid, IF f.path = <<>> THEN <<>> ELSE <<f.path[1]>>)
         new == WithFid(Frame("new", f.n), f.fid)
         rest == WithPath(Frame("found", f.n), Tail(f.path))
     IN  /\ srv' = r.srv
         /\ IF r.code = "ok"
            THEN Push(t, IF Len(f.path) <= 1 THEN <<new>> ELSE <<new, rest>>, Done)
            ELSE Push(t, <<Recycle(f.fid)>>, IF r.code = "ENOENT" THEN NotFound ELSE BadState)
  /\ UNCHANGED <<pool, nodes, held, program, budget>>

-----------------------------------------------------------------------------
(* create, remove.                                                         *)

create_node(t) ==
  /\ At(t, "create_node")
  /\ IF Same(t) >= Root
     THEN Push(t, Deref(Same(t)), AlreadyExists) /\ UNCHANGED pool
     ELSE get_fid(t, [Top(t) EXCEPT !.k = IF Top(t).ty = "file" THEN "clone" ELSE "mkdir"])
  /\ UNCHANGED <<nodes, held, srv, program, budget>>

\* From here on errors are only logged.
create_clone(t) ==
  /\ At(t, "clone")
  /\ Then(t, "tcreate", twalk(srv, nodes[Top(t).n].fid, Top(t).fid, <<>>).srv)
  /\ UNCHANGED <<pool, held, program, budget>>

create_file(t) ==
  /\ At(t, "tcreate")
  /\ IF program.proto = "other" THEN Return(t, Unsupported) /\ UNCHANGED <<srv, nodes>>
     ELSE Then(t, "clunk", l_tcreate(srv, Top(t).fid, Top(t).path[1]).srv)
  /\ UNCHANGED <<pool, held, program, budget>>

create_dir(t) ==
  /\ At(t, "mkdir")
  /\ Then(t, "walk_new", tmkdir(srv, nodes[Top(t).n].fid, Top(t).path[1]).srv)
  /\ UNCHANGED <<pool, held, program, budget>>

create_walk(t) ==
  /\ At(t, "walk_new")
  /\ Then(t, "clunk", twalk(srv, nodes[Top(t).n].fid, Top(t).fid, Top(t).path).srv)
  /\ UNCHANGED <<pool, held, program, budget>>

mut_create_clunk(t) ==
  /\ At(t, "clunk")
  /\ Push(t, <<Recycle(Top(t).fid)>>, Done)
  /\ UNCHANGED <<pool, nodes, held, srv, program, budget>>

create_clunk(t) ==
  /\ At(t, "clunk")
  /\ srv' = tclunk(srv, Top(t).fid).srv
  /\ Push(t, <<Recycle(Top(t).fid)>>, Done)
  /\ UNCHANGED <<pool, nodes, held, program, budget>>

remove_node(t) ==
  /\ At(t, "tremove")
  /\ LET r == tremove(srv, nodes[Top(t).n].fid) IN
       /\ srv' = r.srv
       /\ nodes' = [nodes EXCEPT ![Top(t).n].obj = NoObj]
       /\ Return(t, IF r.code = "ok" THEN Done ELSE BadState)
  /\ UNCHANGED <<pool, held, program, budget>>

-----------------------------------------------------------------------------
(* rename: by the server when both directories are found, else by a copy.  *)

get_in_9pfs(t) ==
  /\ At(t, "get_in")
  /\ get_fid(t, [Top(t) EXCEPT !.k = "walk_in"])
  /\ UNCHANGED <<nodes, held, srv, program, budget>>

get_in_walk(t) ==
  /\ At(t, "walk_in")
  /\ LET r == twalk(srv, nodes[Top(t).n].fid, Top(t).fid, Top(t).path)
     IN  IF r.code = "ok" THEN Then(t, "new", r.srv)
         ELSE Return(t, BadState) /\ srv' = r.srv /\ UNCHANGED nodes
  /\ UNCHANGED <<pool, held, program, budget>>

rename_at(t) ==
  /\ At(t, "rename_at")
  /\ LET f == Top(t)
         dst == Same(t)
     IN  IF f.m > Root /\ dst > Root
         THEN /\ srv' = trename_at(srv, nodes[f.m].fid, f.path[Len(f.path)], nodes[dst].fid, f.to[Len(f.to)]).srv
              /\ Push(t, Deref(dst) \o Deref(f.m), Done)
         ELSE /\ Push(t, <<Lookup(f.n, f.path), [f EXCEPT !.k = "copy_src", !.m = -1]>> \o Deref(dst) \o Deref(f.m), Done)
              /\ UNCHANGED srv
  /\ UNCHANGED <<pool, nodes, held, program, budget>>

\* get_attr of the source says what is created at the destination.
copy_src(t) ==
  /\ At(t, "copy_src")
  /\ LET f == Top(t)
         m == Same(t)
         kind == IF m < Root THEN "none" ELSE Kind(srv, nodes[m].fid)
     IN  CASE m < Root -> Return(t, m)
           [] m >= Root /\ kind \notin {"file", "dir"} -> Push(t, Deref(m), BadState)
           [] OTHER -> Push(t, create(f.n, f.to, kind) \o <<[f EXCEPT !.k = "copy_dst", !.m = m]>>, Done)
  /\ UNCHANGED <<pool, nodes, held, srv, program, budget>>

\* One turn reads under the lock, and writes under it again.
copy(t) ==
  /\ At(t, "copy")
  /\ LET f == Top(t)
         got == read_at(tstat(srv, nodes[f.m].fid).size, f.fid, BUFFER)
     IN  CASE Kind(srv, nodes[f.m].fid) # "file" -> Return(t, BadState)
           [] got = 0 -> Push(t, <<Frame("tremove", f.m)>>, Done)
           [] OTHER -> Push(t, <<[f EXCEPT !.k = "copy_write", !.len = got]>>, Done)
  /\ UNCHANGED <<pool, nodes, held, srv, program, budget>>

copy_write(t) ==
  /\ At(t, "copy_write")
  /\ LET f == Top(t)
         size == tstat(srv, nodes[f.n].fid).size
     IN  IF Kind(srv, nodes[f.n].fid) # "file" THEN Return(t, BadState) /\ UNCHANGED srv
         ELSE /\ srv' = tsetattr(srv, nodes[f.n].fid, write_at(size, f.fid, f.len)).srv
              /\ Push(t, <<[f EXCEPT !.k = "copy", !.fid = @ + f.len, !.len = 0]>>, Done)
  /\ UNCHANGED <<pool, nodes, held, program, budget>>

-----------------------------------------------------------------------------
(* truncate: one request in 9P2000.L, a stat and its write-back in .u.     *)

truncate(t) ==
  /\ At(t, "truncate")
  /\ LET f == Top(t)
         r == tsetattr(srv, nodes[f.n].fid, 1)
         stat == tstat(srv, nodes[f.n].fid)
     IN  CASE program.proto = "L" -> srv' = r.srv /\ Return(t, IF r.code = "ok" THEN Done ELSE BadState)
           [] program.proto = "u" /\ stat.kind # "none" ->
                Push(t, <<[f EXCEPT !.k = "wstat", !.ty = stat.name]>>, Done) /\ UNCHANGED srv
           [] program.proto = "u" /\ stat.kind = "none" -> Return(t, BadState) /\ UNCHANGED srv
           [] OTHER -> Return(t, Unsupported) /\ UNCHANGED srv
  /\ UNCHANGED <<pool, nodes, held, program, budget>>

truncate_wstat(t) ==
  /\ At(t, "wstat")
  /\ \/ LET r == twstat(srv, nodes[Top(t).n].fid, [name |-> Top(t).ty], 1)
        IN  srv' = r.srv /\ Return(t, IF r.code = "ok" THEN Done ELSE BadState)
     \/ Return(t, BadState) /\ UNCHANGED srv
  /\ UNCHANGED <<pool, nodes, held, program, budget>>

-----------------------------------------------------------------------------
(* The program, and the mounted file system it starts from.                *)

\* The frames of a call on the node n, which the caller keeps alive.
Begin(c, n) ==
  CASE c.op = "open" -> <<Lookup(n, c.path)>> \o Deref(n) \o <<Frame("opened", n)>>
    [] c.op = "create" -> create(n, c.path, c.ty) \o Deref(n)
    [] c.op = "remove" -> remove(n, c.path) \o Deref(n)
    [] c.op = "rename" -> rename(n, c.path, c.to) \o Deref(n)
    [] c.op = "truncate" -> <<Frame("truncate", n)>> \o Deref(n)

call(t) ==
  /\ th[t].todo = <<>> /\ budget.calls > 0
  /\ \E c \in program.calls, n \in held \cup {Root} :
       /\ n = Root => c.op \in {"open", "create", "rename", "remove"} /\ c.path # <<>> /\ c.path[1] # ".."
       /\ n # Root => c.op \in {"open", "truncate"}
       /\ th' = [th EXCEPT ![t] = [todo |-> Begin(c, n), res |-> Done]]
  /\ budget' = [budget EXCEPT !.calls = @ - 1]
  /\ UNCHANGED <<pool, nodes, held, srv, program>>

opened(t) ==
  /\ At(t, "opened")
  /\ held' = IF Same(t) > Root THEN held \cup {Same(t)} ELSE held
  /\ Return(t, Done)
  /\ UNCHANGED <<pool, nodes, srv, program, budget>>

close(t) ==
  /\ th[t].todo = <<>>
  /\ \E n \in held :
       /\ held' = held \ {n}
       /\ th' = [th EXCEPT ![t].todo = Deref(n)]
  /\ UNCHANGED <<pool, nodes, srv, program, budget>>

\* Tversion, Tattach of the first fid and its open.
Init ==
  /\ program \in Programs
  /\ pool = [i \in 1..program.fids |-> i]
  /\ srv = [tree |-> Tree0, fid |-> [f \in Fids |-> IF f = 0 THEN 0 ELSE NoObj]]
  /\ nodes = [n \in NodeIds |-> IF n = Root THEN [fid |-> 0, parent |-> -1, obj |-> 0, live |-> TRUE] ELSE NoNode]
  /\ held = {}
  /\ th = [t \in Threads |-> [todo |-> <<>>, res |-> Done]]
  /\ budget = [calls |-> program.times, faults |-> MaxFault]

Panicked == \E t \in Threads : At(t, "panic")
Ended == Panicked \/ \A t \in Threads : th[t].todo = <<>> /\ budget.calls = 0

Step(t) ==
  \/ recycle_fid(t) \/ CommonNode_new(t) \/ reopen(t) \/ readlink(t) \/ rewalk(t) \/ drop(t)
  \/ try_get(t) \/ try_get_walk(t)
  \/ create_node(t) \/ create_clone(t) \/ create_file(t) \/ create_dir(t)
  \/ create_walk(t) \/ create_clunk(t) \/ remove_node(t)
  \/ get_in_9pfs(t) \/ get_in_walk(t) \/ rename_at(t)
  \/ copy_src(t) \/ copy(t) \/ copy_write(t)
  \/ truncate(t) \/ truncate_wstat(t) \/ opened(t)

Next == \/ ~Panicked /\ \E t \in Threads : call(t) \/ close(t) \/ Step(t)
        \/ Ended /\ UNCHANGED vars

Spec == Init /\ [][Next]_vars

-----------------------------------------------------------------------------
(* Properties.                                                             *)

\* The fids a thread is using that no node has yet, or no longer has.
Holding == {"twalk", "new", "reopen", "readlink", "rewalk", "recycle", "clone", "tcreate",
            "clunk", "mkdir", "walk_new", "walk_in"}
Held(t) == {i \in DOMAIN th[t].todo : th[t].todo[i].k \in Holding}
LiveNodes == {n \in NodeIds : nodes[n].live}

\* get_fid promises "a new unique fid": a fid is free once, or one live node
\* has it, or one call is using it, and never two of these at a time,
\* however the lookups, creates, drops and renames of two threads interleave.
FidsApart ==
  /\ \A i, j \in DOMAIN pool : i # j => pool[i] # pool[j]
  /\ \A n \in LiveNodes : ~Contains(pool, nodes[n].fid)
  /\ \A n, m \in LiveNodes : n # m => nodes[n].fid # nodes[m].fid
  /\ \A t \in Threads : \A i \in Held(t) :
       LET fid == th[t].todo[i].fid
       IN  /\ ~Contains(pool, fid)
           /\ \A n \in LiveNodes : nodes[n].fid # fid
           /\ \A u \in Threads : \A j \in Held(u) : <<t, i>> # <<u, j>> => th[u].todo[j].fid # fid

\* A fid goes back to the pool only when the server has forgotten it: the
\* next walk to it would be refused otherwise, and recycled, and taken again.
FreeIsUnbound == \A i \in DOMAIN pool : srv.fid[pool[i]] = NoObj

\* A fid has one use at a time, on both sides of the connection.
FidsSound == FidsApart /\ FreeIsUnbound

\* As long as somebody has a node, its fid stands for the object it was
\* looked up as; the drop by another thread never clunks it.
NodeKeepsFile == \A n \in NodeIds : Alive(n) => nodes[n].live /\ srv.fid[nodes[n].fid] = nodes[n].obj

\* A read and a write longer than one request transfer what one request
\* would, and a listing in pieces of any length gives every entry once.
Pieces(all, n) == [k \in 0..Len(all) |-> read_dir(all, k * n, n)]
ChunksCompose ==
  /\ \A size, off, len \in 0..MaxSize :
       read_at(size, off, len) = IF off >= size THEN 0 ELSE SmallerOf(len, size - off)
  /\ (\A t \in Threads : th[t].todo = <<>>) => \A o \in Objs : srv.tree[o].kind = "dir" =>
       LET all == Listing(srv, o)
       IN  \A n \in 1..3 : FlattenSeq([k \in 1..(Len(all) + 1) |-> Pieces(all, n)[k - 1]]) = all

=============================================================================
