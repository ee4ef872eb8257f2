--------------------------------- MODULE Vfs ---------------------------------
(***************************************************************************)
(* The nodes of the file systems: the ramfs that is the main file system,  *)
(* another one mounted on /tmp, and the devfs mounted on /dev.  A path is  *)
(* walked one component at a time, because each directory has a lock of    *)
(* its own; a node is freed when nobody refers to it (Arc), and parent     *)
(* links do not count (Weak).                                              *)
(***************************************************************************)
EXTENDS Naturals, SequencesExt, TLC

CONSTANTS
    Extra,      \* how many nodes can be created at a time
    MaxSize     \* bound on the size of a file

ASSUME VfsAssumption == Extra \in Nat /\ MaxSize \in Nat

VARIABLE node

\* RootDirectory, the node of "/", is not a node of a file system.
RootDir == 0
MainRoot == 1
DevRoot == 2
TmpRoot == 3
Nodes == 1..(7 + Extra)
NoNode == 100

\* The mount points of prepare_commonfs (two of them).
Mounts == [dev |-> DevRoot, tmp |-> TmpRoot]

Empty == [x \in {} |-> NoNode]
Node(kind, parent, children) ==
    [kind |-> kind, parent |-> parent, children |-> children, content |-> <<>>]
mut_DirNode_new(parent) == Node("dir", MainRoot, Empty)
DirNode_new(parent) == Node("dir", parent, Empty)
FileNode_new == Node("file", NoNode, Empty)
Free == Node("free", NoNode, Empty)

\* The file systems before they are mounted.
ramfs == DirNode_new(NoNode)
devfs == Node("devdir", NoNode, [null |-> 6, zero |-> 7])

\* mount of a file system on a directory of the main one: its root gets the
\* parent of the mount point as its own.
Mounted(fs, point) == [fs EXCEPT !.parent = point.parent]

\* RootDirectory::mount creates the mount point in the main file system.
RootDirectory_mount(nd, name, point, root, fs) ==
    [nd EXCEPT ![MainRoot].children = (name :> point) @@ @,
               ![point] = DirNode_new(MainRoot),
               ![root] = Mounted(fs, DirNode_new(MainRoot))]

\* init_rootfs, with the mounts of prepare_commonfs (two of them).
VfsInit ==
    LET bare == [n \in Nodes |-> CASE n = MainRoot -> ramfs
                                   [] n = 6 -> Node("null", NoNode, Empty)
                                   [] n = 7 -> Node("zero", NoNode, Empty)
                                   [] OTHER -> Free]
        dev == RootDirectory_mount(bare, "dev", 4, DevRoot, devfs)
    IN  node = RootDirectory_mount(dev, "tmp", 5, TmpRoot, ramfs)

IsDir(n) == n = RootDir \/ node[n].kind \in {"dir", "devdir"}

-----------------------------------------------------------------------------
(* References.                                                             *)

Listed(nd, S) == UNION {{nd[n].children[x] : x \in DOMAIN nd[n].children} : n \in S}

\* The nodes that S keeps alive.
RECURSIVE Reach(_, _)
Reach(nd, S) ==
    LET T == S \cup Listed(nd, S)
    IN  IF T = S THEN S ELSE Reach(nd, T)

\* Drop: the nodes that neither a mounted file system nor refs keep alive.
Collected(nd, refs) ==
    LET live == Reach(nd, {MainRoot, DevRoot, TmpRoot} \cup (refs \cap Nodes))
    IN  [n \in Nodes |-> IF n \in live THEN nd[n] ELSE Free]

\* Weak::upgrade
ParentOf(n) ==
    LET p == node[n].parent
    IN  IF p # NoNode /\ node[p].kind # "free" THEN p ELSE NoNode

FreeNodes == {n \in Nodes : node[n].kind = "free"}
NewNode == CHOOSE n \in FreeNodes : \A m \in FreeNodes : n <= m

-----------------------------------------------------------------------------
(* Paths: whether they are absolute, their components, whether they end    *)
(* with a slash.                                                           *)

IsEmptyPath(p) == ~p.abs /\ p.parts = <<>> /\ ~p.slash

canonicalize(parts) ==
    FoldLeft(LAMBDA buf, part :
                CASE part = "." -> buf
                  [] part = ".." -> IF buf = <<>> THEN buf ELSE Front(buf)
                  [] OTHER -> Append(buf, part),
             <<>>, parts)

\* Names that begin with the name of a mount point, and what is left of them.
LongerNames == {[name |-> "tmpx", mount |-> "tmp", left |-> "x"]}

\* strip_prefix("./"), as often as it can
Undotted(parts) ==
    LET first == {i \in DOMAIN parts : parts[i] # "." \/ i = Len(parts)}
    IN  IF first = {} THEN parts ELSE SubSeq(parts, Min(first), Len(parts))

\* The file system whose mount point is a prefix of the path, as strings, and
\* the rest of the path in it.
lookup_mounted_fs(parts) ==
    LET p == Undotted(parts)
        longer == {l \in LongerNames : p # <<>> /\ l.name = Head(p)}
    IN  CASE p # <<>> /\ Head(p) \in DOMAIN Mounts ->
                 [fs |-> Mounts[Head(p)], rest |-> Tail(p)]
          [] longer # {} ->
                 LET l == CHOOSE l \in longer : TRUE
                 IN  [fs |-> Mounts[l.mount], rest |-> <<l.left>> \o Tail(p)]
          [] OTHER -> [fs |-> MainRoot, rest |-> p]

-----------------------------------------------------------------------------
(* A walk: the operation it is for, the node it is at, the components that *)
(* are left; at its end an error or "ok" and the node found.               *)

NoWalk == [kind |-> "none", at |-> NoNode, parts |-> <<>>, res |-> "none", found |-> NoNode]

Ends(w, res) == [w EXCEPT !.res = res, !.at = NoNode, !.parts = <<>>]
Finds(w, n) == [Ends(w, "ok") EXCEPT !.found = n]

\* lookup, create and remove of RootDirectory hand over to a mounted root;
\* those of a directory start at it, a final slash being one more component.
Walk(kind, base, path) ==
    LET m == lookup_mounted_fs(path.parts)
        w == [kind |-> kind, at |-> m.fs, parts |-> m.rest, res |-> "none", found |-> NoNode]
    IN  CASE base # RootDir ->
                 [w EXCEPT !.at = base,
                           !.parts = IF path.slash THEN Append(path.parts, ".") ELSE path.parts]
          [] base = RootDir /\ m.rest = <<>> /\ kind = "create" -> Ends(w, "ok")
          [] base = RootDir /\ m.rest = <<>> /\ kind = "remove" -> Ends(w, "PermissionDenied")
          [] OTHER -> w

\* split_path: the next component, and whether it is the last one.
NameOf(w) == IF w.parts = <<>> THEN "." ELSE Head(w.parts)
AtLast(w) == Len(w.parts) <= 1

\* The node that the next component leads to.
NextOf(w) ==
    LET name == NameOf(w)
    IN  CASE name = "." -> w.at
          [] name = ".." -> ParentOf(w.at)
          [] name \in DOMAIN node[w.at].children -> node[w.at].children[name]
          [] OTHER -> NoNode

Descends(w) ==
    IF NextOf(w) = NoNode THEN Ends(w, "NotFound")
    ELSE [w EXCEPT !.at = NextOf(w), !.parts = Tail(w.parts)]

\* lookup, create and remove of a ramfs directory, each for one component under
\* the lock of the children.  create_node goes on with an insert, under the lock
\* again.
ram_lookup(w) == IF AtLast(w) /\ NextOf(w) # NoNode THEN Finds(w, NextOf(w)) ELSE Descends(w)

ram_create(w) ==
    CASE ~AtLast(w) -> Descends(w)
      [] AtLast(w) /\ NameOf(w) \in {".", ".."} -> Ends(w, "ok")
      [] AtLast(w) /\ NameOf(w) \in DOMAIN node[w.at].children -> Ends(w, "AlreadyExists")
      [] OTHER -> [w EXCEPT !.kind = "insert"]

remove_node(dir, name) ==
    LET n == node[dir].children[name]
    IN  CASE name \notin DOMAIN node[dir].children -> "NotFound"
          [] node[n].kind = "dir" /\ node[n].children # Empty -> "DirectoryNotEmpty"
          [] OTHER -> "ok"

ram_remove(w) ==
    CASE ~AtLast(w) -> Descends(w)
      [] AtLast(w) /\ NameOf(w) \in {".", ".."} -> Ends(w, "InvalidInput")
      [] OTHER -> Ends(w, remove_node(w.at, NameOf(w)))

\* Those of devfs, whose nodes are fixed.
dev_lookup(w) == IF AtLast(w) /\ NextOf(w) # NoNode THEN Finds(w, NextOf(w)) ELSE Descends(w)

dev_create(w) ==
    CASE ~AtLast(w) -> Descends(w)
      [] AtLast(w) /\ NameOf(w) \in {".", ".."} -> Ends(w, "ok")
      [] OTHER -> Ends(w, "PermissionDenied")

dev_remove(w) == IF AtLast(w) THEN Ends(w, "PermissionDenied") ELSE Descends(w)

\* Those of files and devices.
non_dir_default(w) == Ends(w, "NotADirectory")

Step(w) ==
    CASE node[w.at].kind = "dir" /\ w.kind = "lookup" -> ram_lookup(w)
      [] node[w.at].kind = "dir" /\ w.kind = "create" -> ram_create(w)
      [] node[w.at].kind = "dir" /\ w.kind = "remove" -> ram_remove(w)
      [] node[w.at].kind = "devdir" /\ w.kind = "lookup" -> dev_lookup(w)
      [] node[w.at].kind = "devdir" /\ w.kind = "create" -> dev_create(w)
      [] node[w.at].kind = "devdir" /\ w.kind = "remove" -> dev_remove(w)
      [] OTHER -> non_dir_default(w)

Removes(w) ==
    /\ w.kind = "remove" /\ node[w.at].kind = "dir"
    /\ Len(w.parts) = 1 /\ ram_remove(w).res = "ok"

\* children.remove(name) and children.insert(name, new)
Unlinked(dir, name) ==
    [node EXCEPT ![dir].children = [x \in DOMAIN @ \ {name} |-> @[x]]]
Inserted(dir, name, new) ==
    [node EXCEPT ![dir].children = (name :> NewNode) @@ @, ![NewNode] = new]

-----------------------------------------------------------------------------
(* Files and devices.                                                      *)

Zeros(k) == [i \in 1..k |-> "zero"]
MinOf(a, b) == IF a < b THEN a ELSE b

\* /dev/null has nothing to read; /dev/zero as much as is asked for.
null_read(len) == <<>>
zero_read(len) == Zeros(len)
dev_read(n, len) == IF node[n].kind = "zero" THEN zero_read(len) ELSE null_read(len)

read_at(n, offset, len) ==
    CASE node[n].kind = "file" ->
             SubSeq(node[n].content, offset + 1, MinOf(Len(node[n].content), offset + len))
      [] OTHER -> dev_read(n, len)

\* resize, then copy
write_at(n, offset, buf) ==
    LET old == node[n].content
        size == IF offset + Len(buf) > Len(old) THEN offset + Len(buf) ELSE Len(old)
        grown == old \o Zeros(size - Len(old))
    IN  IF node[n].kind # "file" THEN node
        ELSE [node EXCEPT ![n].content =
                 [i \in 1..size |-> IF i \in (offset + 1)..(offset + Len(buf))
                                    THEN buf[i - offset] ELSE grown[i]]]

truncate(n, size) ==
    LET old == node[n].content
    IN  IF node[n].kind # "file" THEN node
        ELSE [node EXCEPT ![n].content =
                 SubSeq(old, 1, MinOf(size, Len(old))) \o Zeros(IF size > Len(old) THEN size - Len(old) ELSE 0)]

\* The names in the order of a BTreeMap.
NameOrder == <<"a", "b", "dev", "null", "tmp", "x", "zero">>

\* The entries from start on, at most count: "." and ".." come first.
read_dir(n, start, count) ==
    LET names == <<".", "..">> \o SelectSeq(NameOrder, LAMBDA x : x \in DOMAIN node[n].children)
    IN  SubSeq(names, start + 1, MinOf(Len(names), start + count))
=============================================================================
