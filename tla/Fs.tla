---------------------------------- MODULE Fs ----------------------------------
(***************************************************************************)
(* The file calls of a program: opening and creating files and             *)
(* directories, removing and renaming them, the current directory, and     *)
(* reading and writing through descriptors.  A call is a sequence of       *)
(* steps, each under one lock: the current directory and its path have a   *)
(* lock each, every directory one, and every open file one.                *)
(***************************************************************************)
EXTENDS Vfs, Integers, FiniteSets

CONSTANTS
    Threads,    \* the threads of the program
    Programs,   \* programs: the calls of each thread, their paths and flags
    Fds         \* the descriptors of the table that are free for files

VARIABLES
    cwd,        \* CURRENT_DIR
    cwdPath,    \* CURRENT_DIR_PATH, its components
    files,      \* the open files
    th,         \* what each thread is doing
    program     \* the program that runs

vars == <<node, cwd, cwdPath, files, th, program>>

NoFile == [node |-> NoNode, dir |-> FALSE, cap |-> {}, append |-> FALSE, off |-> 0, lock |-> "none"]
NoFd == 0
NoPath == [abs |-> FALSE, parts |-> <<>>, slash |-> FALSE]
NoOpts == [read |-> FALSE, write |-> FALSE, append |-> FALSE, truncate |-> FALSE,
           create |-> FALSE, create_new |-> FALSE, dir |-> FALSE]
Idle == [op |-> "idle", path |-> NoPath, opts |-> NoOpts, fd |-> NoFd,
         base |-> NoNode, parent |-> NoNode, walk |-> NoWalk]

\* RootDirectory is the current directory to begin with (init_rootfs).
Init ==
    /\ VfsInit
    /\ cwd = RootDir
    /\ cwdPath = <<>>
    /\ files = [f \in Fds |-> NoFile]
    /\ th = [t \in Threads |-> Idle]
    /\ program \in Programs

\* The references that keep nodes alive: the current directory, open files, and
\* what the calls under way hold.
Refs(c, fs, thr) ==
    {c} \cup {fs[f].node : f \in Fds}
        \cup UNION {{thr[t].walk.at, thr[t].walk.found, thr[t].base, thr[t].parent} : t \in Threads}

\* The end of a step: references that went away are dropped.
Commit(nd, c, p, fs, thr) ==
    /\ node' = Collected(nd, Refs(c, fs, thr))
    /\ cwd' = c
    /\ cwdPath' = p
    /\ files' = fs
    /\ th' = thr
    /\ UNCHANGED program

Goes(t, r) == Commit(node, cwd, cwdPath, files, [th EXCEPT ![t] = r])
Unlocked(t) == [f \in Fds |-> IF files[f].lock = t THEN [files[f] EXCEPT !.lock = "none"] ELSE files[f]]
Return(t) == Commit(node, cwd, cwdPath, Unlocked(t), [th EXCEPT ![t] = Idle])
Calls(t, op) == op \in program.uses[t] /\ th[t].op = "idle"

\* Bound: a call that may create a node begins only while there is one for it.
Room == Cardinality(FreeNodes) > Cardinality({t \in Threads : th[t].op # "idle"})

-----------------------------------------------------------------------------
(* Paths and options.                                                      *)

\* A path argument says how it begins: with a slash, with ".." or ".", or with
\* a name.  A leading ".." cuts the last component off the current path: from a
\* directory below the root that leaves nothing, so ".." itself is then empty.
char_ptr_to_absolute_path(p) ==
    CASE p.lead = ".." ->
             LET up == IF cwdPath = <<>> THEN <<>> ELSE Front(cwdPath)
             IN  [abs |-> up # <<>> \/ p.parts # <<>> \/ p.slash,
                  parts |-> up \o p.parts, slash |-> p.slash]
      [] p.lead = "." ->
             [abs |-> TRUE, parts |-> cwdPath \o p.parts, slash |-> p.slash \/ p.parts = <<>>]
      [] OTHER -> [abs |-> p.lead = "/", parts |-> p.parts, slash |-> p.slash]

\* The components of the canonical absolute path.
absolute_path(path) == canonicalize(IF path.abs THEN path.parts ELSE cwdPath \o path.parts)

flags_to_options(f) ==
    [read |-> f.acc # "wr", write |-> f.acc # "rd", append |-> "append" \in f.set,
     truncate |-> "trunc" \in f.set, create |-> "creat" \in f.set,
     create_new |-> "exec" \in f.set, dir |-> "directory" \in f.set]

is_valid(o) ==
    /\ o.read \/ o.write \/ o.append
    /\ ~o.write /\ ~o.append => ~(o.truncate \/ o.create \/ o.create_new)
    /\ o.append /\ o.truncate => o.create_new

Creates(o) == o.create \/ o.create_new
OnlyReads(o) == o.read /\ ~(Creates(o) \/ o.write \/ o.append \/ o.truncate)

\* What a mode lets its owner do, and what the options ask for.
perm_to_cap(n) == IF IsDir(n) THEN {"r", "w", "x"} ELSE {"r", "w"}
Cap(o) == (IF o.read THEN {"r"} ELSE {}) \cup (IF o.write \/ o.append THEN {"w"} ELSE {})

parent_node_of(base, path) ==
    CASE path.abs -> RootDir
      [] ~path.abs /\ base # NoNode -> base
      [] OTHER -> cwd

\* root::lookup begins; looked is how it ended.
lookup(r) ==
    [r EXCEPT !.walk = IF IsEmptyPath(r.path) THEN Ends([NoWalk EXCEPT !.kind = "lookup"], "NotFound")
                       ELSE Walk("lookup", parent_node_of(r.base, r.path), r.path)]
looked(r) ==
    IF r.walk.res = "ok" /\ r.path.slash /\ ~IsDir(r.walk.found) THEN "NotADirectory"
    ELSE r.walk.res

Ended(t, op) == th[t].op = op /\ th[t].walk.res # "none"

-----------------------------------------------------------------------------
(* Walking a path.                                                         *)

\* One component of lookup, create or remove.
walk(t) ==
    LET w == th[t].walk
        new == Step(w)
    IN  /\ w.kind \in {"lookup", "create", "remove"} /\ w.res = "none"
        /\ Commit(IF Removes(w) THEN Unlinked(w.at, Head(w.parts)) ELSE node,
                  cwd, cwdPath, files, [th EXCEPT ![t].walk = new])

\* create_node inserts after it saw that the name does not exist.
create_node(t) ==
    LET w == th[t].walk
        new == IF th[t].op \in {"mkdir_create", "mkdir_prefix"} THEN DirNode_new(w.at) ELSE FileNode_new
    IN  /\ w.kind = "insert" /\ w.res = "none" /\ FreeNodes # {}
        /\ Commit(Inserted(w.at, Head(w.parts), new), cwd, cwdPath, files,
                  [th EXCEPT ![t].walk = Ends(w, "ok")])

-----------------------------------------------------------------------------
(* open.                                                                   *)

\* File::open and Directory::open_dir, relative to the current directory, and
\* sys_stat, which opens for reading.
sys_open(t, p, f) ==
    LET o == flags_to_options(f)
        r == [Idle EXCEPT !.op = "open", !.path = char_ptr_to_absolute_path(p), !.opts = o]
    IN  /\ Calls(t, "open")
        /\ (IF o.dir THEN OnlyReads(o) ELSE is_valid(o))
        /\ Creates(o) => Room
        /\ Goes(t, lookup(r))

\* openat with a descriptor of a directory, which stays locked for the call.
sys_openat(t, fd, p, f) ==
    LET o == flags_to_options(f)
        path == char_ptr_to_absolute_path(p)
        r == [Idle EXCEPT !.op = "open", !.path = path, !.opts = o,
                          !.base = IF path.abs THEN NoNode ELSE files[fd].node]
    IN  /\ Calls(t, "openat")
        /\ files[fd].dir /\ files[fd].lock = "none"
        /\ (IF o.dir THEN OnlyReads(o) ELSE is_valid(o))
        /\ Creates(o) => Room
        /\ Commit(node, cwd, cwdPath, [files EXCEPT ![fd].lock = t],
                  [th EXCEPT ![t] = lookup(r)])

\* The lookup of open ended: open what it found, create what it did not find.
\* create_file keeps the directory it starts from for the lookup after it.
open_found(t) ==
    LET r == th[t]
        res == looked(r)
        from == parent_node_of(r.base, r.path)
        creates == Creates(r.opts) /\ ~r.opts.dir
    IN  /\ Ended(t, "open")
        /\ CASE res = "ok" /\ ~(creates /\ r.opts.create_new) ->
                    Goes(t, [r EXCEPT !.op = "opened"])
             [] res = "NotFound" /\ creates /\ ~IsEmptyPath(r.path) /\ ~r.path.slash ->
                    Goes(t, [r EXCEPT !.op = "open_create", !.parent = from,
                                      !.walk = Walk("create", from, r.path)])
             [] OTHER -> Return(t)

open_create(t) ==
    LET r == th[t]
    IN  /\ Ended(t, "open_create")
        /\ IF r.walk.res = "ok"
           THEN Goes(t, [r EXCEPT !.op = "reopen", !.walk = Walk("lookup", r.parent, r.path)])
           ELSE Return(t)

open_reopen(t) ==
    /\ Ended(t, "reopen")
    /\ IF th[t].walk.res = "ok" THEN Goes(t, [th[t] EXCEPT !.op = "opened"]) ELSE Return(t)

\* The rights are checked against the node, the file truncated.
mut_open_checked(t) ==
    LET r == th[t]
        n == r.walk.found
        o == r.opts
        wrong == IF o.dir THEN ~IsDir(n)
                 ELSE IsDir(n) /\ (o.truncate)
    IN  /\ r.op = "opened"
        /\ IF wrong \/ ~(Cap(o) \subseteq perm_to_cap(n)) THEN Return(t)
           ELSE Commit(IF o.truncate THEN truncate(n, 0) ELSE node, cwd, cwdPath,
                       Unlocked(t), [th EXCEPT ![t].op = "add_fd"])

open_checked(t) ==
    LET r == th[t]
        n == r.walk.found
        o == r.opts
        wrong == IF o.dir THEN ~IsDir(n)
                 ELSE IsDir(n) /\ (Creates(o) \/ o.write \/ o.append \/ o.truncate)
    IN  /\ r.op = "opened"
        /\ IF wrong \/ ~(Cap(o) \subseteq perm_to_cap(n)) THEN Return(t)
           ELSE Commit(IF o.truncate THEN truncate(n, 0) ELSE node, cwd, cwdPath,
                       Unlocked(t), [th EXCEPT ![t].op = "add_fd"])

\* add_to_fd_table takes the first free descriptor; EMFILE drops the file.
add_to_fd_table(t) ==
    LET r == th[t]
        free == {f \in Fds : files[f] = NoFile}
        new == [node |-> r.walk.found, dir |-> r.opts.dir, append |-> r.opts.append, off |-> 0,
                cap |-> Cap(r.opts) \cup (IF r.opts.dir THEN {"x"} ELSE {}), lock |-> "none"]
    IN  /\ r.op = "add_fd"
        /\ Commit(node, cwd, cwdPath,
                  IF free = {} THEN files ELSE [files EXCEPT ![Min(free)] = new],
                  [th EXCEPT ![t] = Idle])

sys_close(t, fd) ==
    /\ Calls(t, "close") /\ files[fd] # NoFile
    /\ Commit(node, cwd, cwdPath, [files EXCEPT ![fd] = NoFile], th)

-----------------------------------------------------------------------------
(* Directories and names.                                                  *)

\* mkdir, and create_dir_all, which creates every prefix of a relative path.
sys_mkdir(t, p) ==
    /\ Calls(t, "mkdir") /\ Room
    /\ Goes(t, lookup([Idle EXCEPT !.op = "mkdir", !.path = char_ptr_to_absolute_path(p)]))

\* create_dir creates when the lookup failed with NotFound, from a directory
\* that it reads again.
create_dir(t) ==
    LET r == th[t]
    IN  /\ Ended(t, "mkdir")
        /\ IF looked(r) = "NotFound"
           THEN Goes(t, [r EXCEPT !.op = "mkdir_create",
                                  !.walk = Walk("create", parent_node_of(NoNode, r.path), r.path)])
           ELSE Return(t)

create_dir_all(t, p) ==
    LET path == char_ptr_to_absolute_path(p)
    IN  /\ Calls(t, "mkdir_all") /\ Room
        /\ Goes(t, lookup([Idle EXCEPT !.op = "mkdir_all", !.path = path]))

\* create_recursive: at is the prefix that is being created.  It does not take
\* absolute paths; a prefix that exists is passed over.
Prefix(path, k) == [path EXCEPT !.parts = SubSeq(path.parts, 1, k), !.slash = FALSE]
create_prefix(r, from, k) ==
    [r EXCEPT !.op = "mkdir_prefix", !.parent = from, !.fd = k,
              !.walk = Walk("create", from, Prefix(r.path, k))]

create_recursive(t) ==
    LET r == th[t]
    IN  \/ /\ Ended(t, "mkdir_all")
           /\ IF looked(r) = "NotFound" /\ ~r.path.abs /\ r.path.parts # <<>>
              THEN Goes(t, create_prefix(r, parent_node_of(NoNode, r.path), 1))
              ELSE Return(t)
        \/ /\ Ended(t, "mkdir_prefix")
           /\ IF r.walk.res \in {"ok", "AlreadyExists"} /\ r.fd < Len(r.path.parts)
              THEN Goes(t, create_prefix(r, r.parent, r.fd + 1))
              ELSE Return(t)

\* remove_file and remove_dir begin alike; a directory that is a mount point is
\* refused by its canonical path, before the node is looked up.
sys_unlink(t, p) ==
    /\ Calls(t, "unlink")
    /\ Goes(t, lookup([Idle EXCEPT !.op = "unlink", !.path = char_ptr_to_absolute_path(p)]))

sys_rmdir(t, p) ==
    LET path == char_ptr_to_absolute_path(p)
    IN  /\ Calls(t, "rmdir")
        /\ path.parts # <<>> /\ Last(path.parts) \notin {".", ".."}
        /\ Goes(t, [Idle EXCEPT !.op = "rmdir_check", !.path = path])

IsMountPath(parts) == Len(parts) = 1 /\ parts[1] \in DOMAIN Mounts

remove_dir(t) ==
    LET r == th[t]
    IN  /\ r.op = "rmdir_check"
        /\ IF IsMountPath(absolute_path(r.path)) THEN Return(t)
           ELSE Goes(t, [r EXCEPT !.op = "rmdir_lookup"])

remove_dir_lookup(t) ==
    /\ th[t].op = "rmdir_lookup"
    /\ Goes(t, lookup([th[t] EXCEPT !.op = "rmdir"]))

\* The node found is of the right type and may be written: remove it, by its
\* path again.
remove_found(t) ==
    LET r == th[t]
        n == r.walk.found
    IN  /\ Ended(t, "unlink") \/ Ended(t, "rmdir") \/ Ended(t, "rename_unlink")
        /\ IF looked(r) = "ok" /\ IsDir(n) = (r.op = "rmdir") /\ "w" \in perm_to_cap(n)
           THEN Goes(t, [r EXCEPT !.op = IF r.op = "rename_unlink" THEN "rename_removed" ELSE "remove",
                                  !.walk = Walk("remove", parent_node_of(NoNode, r.path), r.path)])
           ELSE Return(t)

\* The last step of mkdir, unlink and rmdir only returns.
removed(t) ==
    /\ Ended(t, "remove") \/ Ended(t, "mkdir_create")
    /\ Return(t)

\* rename removes what the new path q names before it does anything with the old
\* one.
sys_rename(t, q) ==
    LET path == char_ptr_to_absolute_path(q)
    IN  /\ Calls(t, "rename")
        /\ Goes(t, [Idle EXCEPT !.op = "rename", !.path = path,
                               !.walk = Walk("lookup", parent_node_of(NoNode, path), path)])

\* Neither ramfs nor devfs implements rename itself, so that what follows the
\* removal returns Unsupported, or PermissionDenied for a mount point.
rename_found(t) ==
    LET r == th[t]
    IN  /\ Ended(t, "rename")
        /\ IF r.walk.res = "ok" THEN Goes(t, lookup([r EXCEPT !.op = "rename_unlink"])) ELSE Return(t)

rename_removed(t) == Ended(t, "rename_removed") /\ Return(t)

\* set_current_dir: the root is set directly, other directories are looked up by
\* their canonical path with a slash at its end.
sys_chdir(t, p) ==
    LET path == [abs |-> TRUE, parts |-> absolute_path(char_ptr_to_absolute_path(p)), slash |-> TRUE]
    IN  /\ Calls(t, "chdir")
        /\ IF path.parts = <<>>
           THEN Commit(node, RootDir, cwdPath, files, [th EXCEPT ![t] = [Idle EXCEPT !.op = "chdir_path"]])
           ELSE Goes(t, lookup([Idle EXCEPT !.op = "chdir", !.path = path]))

set_current_dir(t) ==
    LET r == th[t]
        n == r.walk.found
    IN  /\ Ended(t, "chdir")
        /\ IF looked(r) = "ok" /\ IsDir(n) /\ "x" \in perm_to_cap(n)
           THEN Commit(node, n, cwdPath, files,
                       [th EXCEPT ![t] = [Idle EXCEPT !.op = "chdir_path", !.path = r.path]])
           ELSE Return(t)

\* The path is set under a lock of its own.
mut_set_current_path(t) ==
    /\ th[t].op = "chdir_path"
    /\ Commit(node, cwd, IF th[t].path.parts = <<>> THEN cwdPath ELSE th[t].path.parts, files,
              [th EXCEPT ![t] = Idle])

set_current_path(t) ==
    /\ th[t].op = "chdir_path"
    /\ Commit(node, cwd, th[t].path.parts, files, [th EXCEPT ![t] = Idle])

-----------------------------------------------------------------------------
(* Reading and writing, under the lock of the open file.                   *)

Usable(fd, right) == files[fd].lock = "none" /\ ~files[fd].dir /\ right \in files[fd].cap

read(t, fd) ==
    LET f == files[fd]
    IN  /\ Calls(t, "read") /\ Usable(fd, "r") /\ ~IsDir(f.node)
        /\ Commit(node, cwd, cwdPath,
                  [files EXCEPT ![fd].off = @ + Len(read_at(f.node, f.off, 1))], th)

\* An appending write reads the size and then writes there; the file stays
\* locked, its node does not.
write(t, fd) ==
    LET f == files[fd]
        size == Len(node[f.node].content)
    IN  /\ Calls(t, "write") /\ Usable(fd, "w")
        /\ IF f.append
           THEN Commit(node, cwd, cwdPath, [files EXCEPT ![fd].off = size, ![fd].lock = t],
                       [th EXCEPT ![t] = [Idle EXCEPT !.op = "append", !.fd = fd, !.base = f.node]])
           ELSE /\ f.off < MaxSize
                /\ Commit(write_at(f.node, f.off, <<t>>), cwd, cwdPath,
                          [files EXCEPT ![fd].off = @ + 1], th)

write_append(t) ==
    LET r == th[t]
        mine == files[r.fd].lock = t
    IN  /\ r.op = "append"
        /\ IF mine /\ files[r.fd].off < MaxSize
           THEN Commit(write_at(r.base, files[r.fd].off, <<t>>), cwd, cwdPath,
                       [files EXCEPT ![r.fd].off = @ + 1, ![r.fd].lock = "none"], [th EXCEPT ![t] = Idle])
           ELSE Return(t)

sys_pwrite64(t, fd, pos) ==
    /\ Calls(t, "pwrite") /\ Usable(fd, "w") /\ pos < MaxSize
    /\ Commit(write_at(files[fd].node, pos, <<t>>), cwd, cwdPath, files, th)

\* SeekFrom::Start, Current and End by at most one byte, checked_add_signed.
seek(t, fd, whence, d) ==
    LET f == files[fd]
        from == CASE whence = "start" -> 0 [] whence = "current" -> f.off
                  [] OTHER -> Len(node[f.node].content)
    IN  /\ Calls(t, "lseek") /\ f.node # NoNode /\ f.lock = "none" /\ ~f.dir
        /\ from + d >= 0 /\ from + d <= MaxSize
        /\ Commit(node, cwd, cwdPath, [files EXCEPT ![fd].off = from + d], th)

set_len(t, fd, size) ==
    /\ Calls(t, "set_len") /\ Usable(fd, "w")
    /\ Commit(truncate(files[fd].node, size), cwd, cwdPath, files, th)

\* One entry at a time.
sys_getdents64(t, fd) ==
    LET f == files[fd]
    IN  /\ Calls(t, "getdents") /\ f.dir /\ f.lock = "none"
        /\ Commit(node, cwd, cwdPath,
                  [files EXCEPT ![fd].off = @ + Len(read_dir(f.node, f.off, 1))], th)

-----------------------------------------------------------------------------
Call(t) ==
    \/ \E p \in program.paths, f \in program.flags : sys_open(t, p, f) \/ \E fd \in Fds : sys_openat(t, fd, p, f)
    \/ \E p \in program.paths : sys_mkdir(t, p) \/ sys_unlink(t, p) \/ sys_rmdir(t, p) \/ sys_chdir(t, p)
    \/ \E p \in program.paths : sys_rename(t, p) \/ create_dir_all(t, p)
    \/ \E fd \in Fds : sys_close(t, fd) \/ read(t, fd) \/ write(t, fd) \/ sys_getdents64(t, fd)
    \/ \E fd \in Fds, i \in 0..1 : sys_pwrite64(t, fd, i) \/ set_len(t, fd, i)
    \/ \E fd \in Fds, i \in {-1, 0, 1}, w \in {"start", "current", "end"} : seek(t, fd, w, i)

Continue(t) ==
    \/ walk(t) \/ create_node(t)
    \/ open_found(t) \/ open_create(t) \/ open_reopen(t) \/ open_checked(t) \/ add_to_fd_table(t)
    \/ create_dir(t) \/ create_recursive(t) \/ remove_dir(t) \/ remove_dir_lookup(t) \/ remove_found(t) \/ removed(t)
    \/ rename_found(t) \/ rename_removed(t)
    \/ set_current_dir(t) \/ set_current_path(t) \/ write_append(t)

Next == \E t \in Threads : Call(t) \/ Continue(t)

Spec == Init /\ [][Next]_vars

-----------------------------------------------------------------------------
(* Properties.                                                             *)

\* The node that a canonical absolute path names, NoNode if there is none.
Named(parts) ==
    LET m == lookup_mounted_fs(parts)
        down(n, x) == IF n # NoNode /\ x \in DOMAIN node[n].children
                      THEN node[n].children[x] ELSE NoNode
    IN  IF parts = <<>> THEN RootDir ELSE FoldLeft(down, m.fs, m.rest)

InTree == Reach(node, {MainRoot, DevRoot, TmpRoot})

\* The current directory and its path are set one after the other and used
\* separately: getcwd, "." and ".." go by the path, names by the node
\* (root.rs:306).  While no chdir is between the two, the path names the node,
\* unless the directory was removed.
CwdAgrees ==
    cwd \in InTree \cup {RootDir} /\ (\A t \in Threads : th[t].op # "chdir_path") =>
        Named(cwdPath) = cwd

\* ".." leads back: the parent link of a directory that is listed somewhere is
\* the directory that lists it, and nothing is listed twice, whatever creations
\* and removals overlap (dir.rs:53, dir.rs:68).
TreeOK ==
    LET tree == InTree
        lists == {l \in tree \X Range(NameOrder) : l[2] \in DOMAIN node[l[1]].children}
        at(l) == node[l[1]].children[l[2]]
    IN  /\ \A l \in lists : IsDir(at(l)) => ParentOf(at(l)) = l[1]
        /\ \A k, l \in lists : at(k) = at(l) => k = l

\* Paths, nodes and parent links tell the same story of the tree.
TreeAgrees == CwdAgrees /\ TreeOK

\* No descriptor lets its holder write a directory, list a file, or do more than
\* the mode of the node allows; its node is still there although its name may be
\* gone (fops.rs:149-158, fops.rs:264-272).
OpenRights ==
    \A f \in Fds : files[f] # NoFile =>
        LET n == files[f].node
        IN  /\ node[n].kind # "free"
            /\ files[f].cap \subseteq perm_to_cap(n)
            /\ IsDir(n) => "w" \notin files[f].cap
            /\ files[f].dir => IsDir(n)

\* "create a new file, failing if it already exists" (fops.rs:97): what
\* create_new inserts is not there yet.
CreateNewIsNew ==
    [][\A t \in Threads :
         LET w == th[t].walk
         IN  w.kind = "insert" /\ w.res = "none" /\ th'[t].walk.res = "ok" /\ th[t].opts.create_new
                => Head(w.parts) \notin DOMAIN node[w.at].children]_vars
=============================================================================
