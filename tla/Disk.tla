-------------------------------- MODULE Disk --------------------------------
(***************************************************************************)
(* Files on a block device: the RAM disk (driver_block/ramdisk.rs), the    *)
(* disk with a cursor that reads and writes any number of bytes through    *)
(* whole blocks (ruxfs/dev.rs), and the files and directories of the FAT   *)
(* file system above it (ruxfs/fs/fatfs.rs).  The crate fatfs is external: *)
(* it keeps the chain of clusters of a file, reads and writes within one   *)
(* cluster at a time, and clamps a position behind the end of the file.    *)
(* A path is the sequence of its components.                               *)
(***************************************************************************)
EXTENDS Integers, Sequences, FiniteSets, SequencesExt, FiniteSetsExt

CONSTANTS
    BLOCK_SIZE,
    DkHint,         \* size hint of the RAM disk
    DkCluster,      \* bytes of a cluster, whole blocks
    DkNames,        \* names of entries
    DkPaths,        \* paths calls are given
    DkOffsets, DkLens, \* positions and lengths of calls
    DkCalls         \* bound on calls

VARIABLES
    dk_disk,        \* data of the RAM disk, block_id and offset of the cursor
    dk_dir,         \* slots of the directory: a name, its type and its size on the disk
    dk_fat,         \* external: the clusters of each file
    dk_open,        \* external: size and position in the File of an open file
    dk_ref,         \* what each file should hold
    dk_flat,        \* what the device should hold outside the files
    dk_ok,          \* every answer so far was the right one
    dk_calls
dk_vars == <<dk_disk, dk_dir, dk_fat, dk_open, dk_ref, dk_flat, dk_ok, dk_calls>>

Smaller(a, b) == IF a < b THEN a ELSE b
\* s with buf at offset, longer when buf reaches behind its end.
Overwritten(s, offset, buf) ==
    [i \in 1 .. Max({Len(s), offset + Len(buf)}) |-> IF i > offset /\ i <= offset + Len(buf) THEN buf[i - offset] ELSE s[i]]

-----------------------------------------------------------------------------
(* ramdisk.rs                                                               *)

align_up(val) == ((val + BLOCK_SIZE - 1) \div BLOCK_SIZE) * BLOCK_SIZE
RamDisk_new(size_hint) == [i \in 1 .. align_up(size_hint) |-> 0]
num_blocks(d) == Len(d.data) \div BLOCK_SIZE
InDisk(d, block_id, len) == block_id * BLOCK_SIZE + len <= Len(d.data) /\ len % BLOCK_SIZE = 0
read_block(d, block_id, len) == [ok |-> InDisk(d, block_id, len), buf |-> SubSeq(d.data, block_id * BLOCK_SIZE + 1, block_id * BLOCK_SIZE + len)]
write_block(d, block_id, buf) ==
    IF InDisk(d, block_id, Len(buf)) THEN [ok |-> TRUE, disk |-> [d EXCEPT !.data = Overwritten(@, block_id * BLOCK_SIZE, buf)]]
    ELSE [ok |-> FALSE, disk |-> d]

-----------------------------------------------------------------------------
(* dev.rs                                                                   *)

disk_size(d) == num_blocks(d) * BLOCK_SIZE
position(d) == d.block_id * BLOCK_SIZE + d.offset
set_position(d, pos) == [d EXCEPT !.block_id = pos \div BLOCK_SIZE, !.offset = pos % BLOCK_SIZE]
WholeBlock(d, len) == d.offset = 0 /\ len >= BLOCK_SIZE
\* The cursor behind count bytes of a block.
Stepped(d, count) ==
    IF d.offset + count >= BLOCK_SIZE THEN [d EXCEPT !.block_id = @ + 1, !.offset = @ + count - BLOCK_SIZE]
    ELSE [d EXCEPT !.offset = @ + count]
read_one(d, len) ==
    LET count == Smaller(len, BLOCK_SIZE - d.offset)
        r == read_block(d, d.block_id, BLOCK_SIZE)
    IN  IF ~r.ok THEN [ok |-> FALSE, disk |-> d, buf |-> <<>>]
        ELSE IF WholeBlock(d, len) THEN [ok |-> TRUE, disk |-> [d EXCEPT !.block_id = @ + 1], buf |-> r.buf]
        ELSE [ok |-> TRUE, disk |-> Stepped(d, count), buf |-> SubSeq(r.buf, d.offset + 1, d.offset + count)]
\* Part of a block is written into what the block holds.
mut_write_one(d, buf) ==
    LET count == Smaller(Len(buf), BLOCK_SIZE - d.offset)
        data == Overwritten([i \in 1 .. BLOCK_SIZE |-> 0], d.offset, SubSeq(buf, 1, count))
        w == write_block(d, d.block_id, IF WholeBlock(d, Len(buf)) THEN SubSeq(buf, 1, BLOCK_SIZE) ELSE data)
    IN  IF ~w.ok THEN [ok |-> FALSE, disk |-> d, len |-> 0]
        ELSE IF WholeBlock(d, Len(buf)) THEN [ok |-> TRUE, disk |-> [w.disk EXCEPT !.block_id = @ + 1], len |-> BLOCK_SIZE]
        ELSE [ok |-> TRUE, disk |-> Stepped(w.disk, count), len |-> count]
write_one(d, buf) ==
    LET count == Smaller(Len(buf), BLOCK_SIZE - d.offset)
        r == read_block(d, d.block_id, BLOCK_SIZE)
        data == Overwritten(r.buf, d.offset, SubSeq(buf, 1, count))
        w == write_block(d, d.block_id, IF WholeBlock(d, Len(buf)) THEN SubSeq(buf, 1, BLOCK_SIZE) ELSE data)
    IN  IF ~r.ok THEN [ok |-> FALSE, disk |-> d, len |-> 0]
        ELSE IF WholeBlock(d, Len(buf)) THEN [ok |-> TRUE, disk |-> [w.disk EXCEPT !.block_id = @ + 1], len |-> BLOCK_SIZE]
        ELSE [ok |-> TRUE, disk |-> Stepped(w.disk, count), len |-> count]

-----------------------------------------------------------------------------
(* fatfs.rs: Read, Write and Seek of Disk.                                  *)

RECURSIVE disk_read(_, _)
disk_read(d, len) ==
    LET r == read_one(d, len)
        rest == disk_read(r.disk, len - Len(r.buf))
    IN  IF len = 0 THEN [ok |-> TRUE, disk |-> d, buf |-> <<>>]
        ELSE IF ~r.ok THEN r
        ELSE [rest EXCEPT !.buf = r.buf \o @]
RECURSIVE disk_write(_, _)
disk_write(d, buf) ==
    LET w == write_one(d, buf)
        rest == disk_write(w.disk, SubSeq(buf, w.len + 1, Len(buf)))
    IN  IF buf = <<>> THEN [ok |-> TRUE, disk |-> d, len |-> 0]
        ELSE IF ~w.ok THEN w
        ELSE [rest EXCEPT !.len = @ + w.len]
\* Where SeekFrom::Start, Current or End with off leads; before the start of the
\* disk it fails.
SeekTo(d, whence, off) == (CASE whence = "Start" -> 0 [] whence = "Current" -> position(d) [] OTHER -> disk_size(d)) + off
disk_seek(d, whence, off) ==
    IF SeekTo(d, whence, off) < 0 THEN [ok |-> FALSE, disk |-> d]
    ELSE [ok |-> TRUE, disk |-> set_position(d, SeekTo(d, whence, off))]

-----------------------------------------------------------------------------
(* External: the crate fatfs.                                               *)

\* The first cluster is the area of the file system itself.
Clusters == 1 .. (disk_size(dk_disk) \div DkCluster) - 1
FreeIn(fat) == Clusters \ UNION {ToSet(fat[n]) : n \in DkNames}
FilePos(chain, pos) == chain[pos \div DkCluster + 1] * DkCluster + (pos % DkCluster)
Clamped(file, pos) == Smaller(pos, file.size)
\* File::read and File::write stop at the end of a cluster.
File_read(d, fat, n, file, len) ==
    LET count == Smaller(Smaller(len, file.size - file.pos), DkCluster - (file.pos % DkCluster)) IN
    IF count = 0 THEN [ok |-> TRUE, disk |-> d, buf |-> <<>>]
    ELSE disk_read(disk_seek(d, "Start", FilePos(fat[n], file.pos)).disk, count)
File_write(d, fat, n, file, buf) ==
    LET count == Smaller(Len(buf), DkCluster - (file.pos % DkCluster))
        new == file.pos \div DkCluster = Len(fat[n])
        fat2 == IF new /\ FreeIn(fat) # {} THEN [fat EXCEPT ![n] = Append(@, Min(FreeIn(fat)))] ELSE fat
        w == disk_write(disk_seek(d, "Start", FilePos(fat2[n], file.pos)).disk, SubSeq(buf, 1, count))
    IN  IF new /\ FreeIn(fat) = {} THEN [ok |-> FALSE, disk |-> d, fat |-> fat, file |-> file, len |-> 0]
        ELSE [ok |-> TRUE, disk |-> w.disk, fat |-> fat2, len |-> count,
              file |-> [pos |-> file.pos + count, size |-> Max({file.size, file.pos + count})]]

-----------------------------------------------------------------------------
(* fatfs.rs: FileWrapper.                                                   *)

RECURSIVE ReadLoop(_, _, _, _, _)
ReadLoop(d, fat, n, file, len) ==
    LET r == File_read(d, fat, n, file, len)
        rest == ReadLoop(r.disk, fat, n, [file EXCEPT !.pos = @ + Len(r.buf)], len - Len(r.buf))
    IN  IF len = 0 \/ r.buf = <<>> THEN [disk |-> r.disk, buf |-> <<>>, file |-> file]
        ELSE [rest EXCEPT !.buf = r.buf \o @]
RECURSIVE WriteLoop(_, _, _, _, _)
WriteLoop(d, fat, n, file, buf) ==
    LET w == File_write(d, fat, n, file, buf) IN
    IF buf = <<>> \/ ~w.ok THEN [ok |-> buf = <<>>, disk |-> d, fat |-> fat, file |-> file]
    ELSE WriteLoop(w.disk, w.fat, n, w.file, SubSeq(buf, w.len + 1, Len(buf)))

Call == dk_calls > 0 /\ dk_calls' = dk_calls - 1
IsOpen(n) == dk_open[n].size >= 0
Closed == [pos |-> 0, size |-> -1]
read_at(n, offset, len) ==
    LET r == ReadLoop(dk_disk, dk_fat, n, [dk_open[n] EXCEPT !.pos = Clamped(dk_open[n], offset)], len) IN
    /\ IsOpen(n)
    /\ dk_disk' = r.disk /\ dk_open' = [dk_open EXCEPT ![n] = r.file]
    /\ dk_ok' = (dk_ok /\ r.buf = SubSeq(dk_ref[n], offset + 1, Smaller(offset + len, Len(dk_ref[n]))))
    /\ UNCHANGED <<dk_dir, dk_fat, dk_ref, dk_flat>>
\* A write behind the end is one at the end.  When the disk gets full the call
\* fails, and what fitted is in the file.
write_at(n, offset, buf) ==
    LET from == Clamped(dk_open[n], offset)
        w == WriteLoop(dk_disk, dk_fat, n, [dk_open[n] EXCEPT !.pos = from], buf)
        room == (Len(dk_fat[n]) + Cardinality(FreeIn(dk_fat))) * DkCluster - from
    IN  /\ IsOpen(n)
        /\ dk_disk' = w.disk /\ dk_fat' = w.fat /\ dk_open' = [dk_open EXCEPT ![n] = w.file]
        /\ dk_ref' = [dk_ref EXCEPT ![n] = Overwritten(@, Smaller(offset, Len(@)), SubSeq(buf, 1, Smaller(Len(buf), room)))]
        /\ dk_ok' = (dk_ok /\ w.ok = (Len(buf) <= room))
        /\ UNCHANGED <<dk_dir, dk_flat>>
\* truncate cuts at the position, which is never behind the end.
truncate(n, size) ==
    LET to == Clamped(dk_open[n], size) IN
    /\ IsOpen(n)
    /\ dk_open' = [dk_open EXCEPT ![n] = [pos |-> to, size |-> to]]
    /\ dk_fat' = [dk_fat EXCEPT ![n] = SubSeq(@, 1, (to + DkCluster - 1) \div DkCluster)]
    /\ dk_ref' = [dk_ref EXCEPT ![n] = SubSeq(@, 1, Smaller(size, Len(@)))]
    /\ UNCHANGED <<dk_disk, dk_dir, dk_flat, dk_ok>>
get_attr(n) ==
    LET size == dk_open[n].size
        blocks == (size + BLOCK_SIZE - 1) \div BLOCK_SIZE
    IN  /\ IsOpen(n)
        /\ dk_open' = [dk_open EXCEPT ![n].pos = size]
        /\ dk_ok' = (dk_ok /\ size = Len(dk_ref[n]) /\ blocks * BLOCK_SIZE >= size /\ (blocks - 1) * BLOCK_SIZE < size)
        /\ UNCHANGED <<dk_disk, dk_dir, dk_fat, dk_ref, dk_flat>>
\* The size of the file in its entry on the disk, written by fsync and when the
\* File is dropped.
EntryWritten(n) == dk_dir' = [i \in DOMAIN dk_dir |-> IF dk_dir[i].name = n THEN [dk_dir[i] EXCEPT !.size = dk_open[n].size] ELSE dk_dir[i]]
fsync(n) == IsOpen(n) /\ EntryWritten(n) /\ UNCHANGED <<dk_disk, dk_fat, dk_open, dk_ref, dk_flat, dk_ok>>
drop_file(n) ==
    /\ IsOpen(n) /\ EntryWritten(n) /\ dk_open' = [dk_open EXCEPT ![n] = Closed]
    /\ UNCHANGED <<dk_disk, dk_fat, dk_ref, dk_flat, dk_ok>>

-----------------------------------------------------------------------------
(* fatfs.rs: DirWrapper.                                                    *)

Used == {i \in DOMAIN dk_dir : dk_dir[i].name \in DkNames}
SlotOf(n) == {i \in Used : dk_dir[i].name = n}
NoSlot == [name |-> "", dir |-> FALSE, size |-> 0]
\* A leading "./" is taken off again and again.
RECURSIVE Stripped(_)
Stripped(path) == IF Len(path) > 1 /\ path[1] = "." THEN Stripped(Tail(path)) ELSE path
OwnPath(path) == Stripped(path) \in {<<>>, <<".">>}
NameIn(path) == Stripped(path)[1]

\* lookup gives a new File, with the size the entry has.  One File is open of a
\* file at a time.
lookup(path) ==
    IF OwnPath(path) \/ SlotOf(NameIn(path)) = {} THEN UNCHANGED <<dk_disk, dk_dir, dk_fat, dk_open, dk_ref, dk_flat, dk_ok>>
    ELSE LET e == dk_dir[Min(SlotOf(NameIn(path)))] IN
         /\ ~IsOpen(e.name)
         /\ dk_open' = IF e.dir THEN dk_open ELSE [dk_open EXCEPT ![e.name] = [pos |-> 0, size |-> e.size]]
         /\ UNCHANGED <<dk_disk, dk_dir, dk_fat, dk_ref, dk_flat, dk_ok>>
\* create of a file that exists gives that file.
create(path, dir) ==
    /\ dk_dir' = IF OwnPath(path) \/ SlotOf(NameIn(path)) # {} \/ Used = DOMAIN dk_dir THEN dk_dir
                 ELSE [dk_dir EXCEPT ![Min(DOMAIN dk_dir \ Used)] = [name |-> NameIn(path), dir |-> dir, size |-> 0]]
    /\ UNCHANGED <<dk_disk, dk_fat, dk_open, dk_ref, dk_flat, dk_ok>>
\* remove gives the clusters back.  The file is not open.
remove(path) ==
    LET n == NameIn(path) IN
    /\ ~OwnPath(path) /\ SlotOf(n) # {} /\ ~IsOpen(n)
    /\ dk_dir' = [dk_dir EXCEPT ![Min(SlotOf(n))] = NoSlot]
    /\ dk_fat' = [dk_fat EXCEPT ![n] = <<>>]
    /\ dk_ref' = [dk_ref EXCEPT ![n] = <<>>]
    /\ UNCHANGED <<dk_disk, dk_open, dk_flat, dk_ok>>
rename(src, dst) ==
    /\ SlotOf(src) # {} /\ SlotOf(dst) = {} /\ ~IsOpen(src)
    /\ dk_dir' = [dk_dir EXCEPT ![Min(SlotOf(src))].name = dst]
    /\ dk_fat' = [dk_fat EXCEPT ![dst] = dk_fat[src], ![src] = <<>>]
    /\ dk_ref' = [dk_ref EXCEPT ![dst] = dk_ref[src], ![src] = <<>>]
    /\ UNCHANGED <<dk_disk, dk_open, dk_flat, dk_ok>>
\* read_dir fills the entries it is given from start_idx on; a directory is read
\* with calls that each start where the one before ended.
UsedSlots == SetToSortSeq(Used, <)
read_dir(start_idx, len) == [i \in 1 .. Smaller(len, Max({0, Len(UsedSlots) - start_idx})) |-> dk_dir[UsedSlots[start_idx + i]].name]
RECURSIVE Listing(_, _)
Listing(start_idx, len) ==
    LET got == read_dir(start_idx, len) IN IF got = <<>> THEN <<>> ELSE got \o Listing(start_idx + Len(got), len)
list_dir(len) ==
    /\ dk_ok' = (dk_ok /\ Len(Listing(0, len)) = Cardinality(Used) /\ ToSet(Listing(0, len)) = {dk_dir[i].name : i \in Used})
    /\ UNCHANGED <<dk_disk, dk_dir, dk_fat, dk_open, dk_ref, dk_flat>>

\* The file system's own area: a seek, then a read or a write of any length
\* within its cluster.
own_read(whence, off, len) ==
    LET s == disk_seek(dk_disk, whence, off)
        r == disk_read(s.disk, len)
    IN  /\ s.ok /\ position(s.disk) + len <= DkCluster
        /\ dk_disk' = r.disk
        /\ dk_ok' = (dk_ok /\ r.ok /\ r.buf = SubSeq(dk_flat, position(s.disk) + 1, position(s.disk) + len) /\ position(r.disk) = position(s.disk) + len)
        /\ UNCHANGED <<dk_dir, dk_fat, dk_open, dk_ref, dk_flat>>
own_write(whence, off, buf) ==
    LET s == disk_seek(dk_disk, whence, off)
        w == disk_write(s.disk, buf)
    IN  /\ s.ok /\ position(s.disk) + Len(buf) <= DkCluster
        /\ dk_disk' = w.disk
        /\ dk_flat' = Overwritten(dk_flat, position(s.disk), buf)
        /\ dk_ok' = (dk_ok /\ w.ok /\ position(w.disk) = position(s.disk) + Len(buf))
        /\ UNCHANGED <<dk_dir, dk_fat, dk_open, dk_ref>>

-----------------------------------------------------------------------------
DkInit ==
    /\ dk_disk = [data |-> RamDisk_new(DkHint), block_id |-> 0, offset |-> 0]
    /\ dk_dir = [i \in 1 .. Cardinality(DkNames) |-> NoSlot]
    /\ dk_fat = [n \in DkNames |-> <<>>]
    /\ dk_open = [n \in DkNames |-> Closed]
    /\ dk_ref = [n \in DkNames |-> <<>>]
    /\ dk_flat = [i \in 1 .. DkCluster |-> 0]
    /\ dk_ok = TRUE /\ dk_calls = DkCalls

\* The bytes a call writes are told apart by the call and their place.
Bytes(len) == [i \in 1 .. len |-> 10 * dk_calls + i]
DkNext ==
    /\ Call
    /\ \/ \E n \in DkNames, offset \in DkOffsets, len \in DkLens : read_at(n, offset, len) \/ write_at(n, offset, Bytes(len))
       \/ \E n \in DkNames, size \in DkOffsets : truncate(n, size)
       \/ \E n \in DkNames : get_attr(n) \/ fsync(n) \/ drop_file(n)
       \/ \E path \in DkPaths : lookup(path) \/ create(path, TRUE) \/ create(path, FALSE) \/ remove(path)
       \/ \E src, dst \in DkNames : rename(src, dst)
       \/ \E len \in {1, 2} : list_dir(len)
       \/ \E whence \in {"Start", "Current", "End"}, off \in {-disk_size(dk_disk), -1, 0, 1}, len \in DkLens : own_read(whence, off, len) \/ own_write(whence, off, Bytes(len))

-----------------------------------------------------------------------------
\* Reads give what was written, at every position and length, whatever blocks
\* and clusters lie between: a write to one file or to the file system's own
\* area changes no byte of another, the size survives closing the file and a
\* new name, no cluster belongs to two files, and a directory read in pieces
\* gives every entry once.
FileBytes(n) == [i \in 1 .. Len(dk_ref[n]) |-> dk_disk.data[FilePos(dk_fat[n], i - 1) + 1]]
DiskMatches ==
    /\ dk_ok
    /\ SubSeq(dk_disk.data, 1, DkCluster) = dk_flat
    /\ \A n \in DkNames :
        /\ Len(dk_fat[n]) = (Len(dk_ref[n]) + DkCluster - 1) \div DkCluster
        /\ FileBytes(n) = dk_ref[n]
        /\ IsOpen(n) => dk_open[n].size = Len(dk_ref[n])
        /\ ~IsOpen(n) => \A i \in SlotOf(n) : dk_dir[i].size = Len(dk_ref[n])
    /\ \A m, n \in DkNames : m # n => ToSet(dk_fat[m]) \cap ToSet(dk_fat[n]) = {}
=============================================================================
