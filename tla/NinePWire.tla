------------------------------ MODULE NinePWire ------------------------------
(***************************************************************************)
(* The messages of the 9P driver (rux9p/src/drv.rs): a request is written  *)
(* field by field behind a header that finish fills in, and an answer is   *)
(* taken apart at fixed places.  The server, which is external, reads and  *)
(* writes by the layouts of the protocol.                                  *)
(***************************************************************************)
EXTENDS Integers, Sequences, SequencesExt

CONSTANTS
    WireNums,       \* numbers that are sent
    WireStrs,       \* strings, sequences of bytes
    WireNames,      \* lists of the names of a walk
    PSIZE           \* _9P_MAX_PSIZE: the size of the answer's buffer

VARIABLES wire_call, wire_out
wire_vars == <<wire_call, wire_out>>

-----------------------------------------------------------------------------
(* Writing.                                                                 *)

RECURSIVE LittleEndian(_, _)
LittleEndian(value, n) == IF n = 0 THEN <<>> ELSE <<value % 256>> \o LittleEndian(value \div 256, n - 1)
write_u8(value) == <<value>>
write_u16(value) == LittleEndian(value, 2)
write_u32(value) == LittleEndian(value, 4)
write_u64(value) == LittleEndian(value, 8)
write_str(value) == write_u16(Len(value)) \o value

TypeId ==
    [Tlerror |-> 6, Tstatfs |-> 8, Tlopen |-> 12, Tlcreate |-> 14, Tsymlink |-> 16, Tmknod |-> 18, Trename |-> 20,
     Treadlink |-> 22, Tgetattr |-> 24, Tsetattr |-> 26, TxattrWalk |-> 30, TxattrCreate |-> 32, Treaddir |-> 40,
     Tfsync |-> 50, Tlock |-> 52, Tgetlock |-> 54, Tlink |-> 70, Tmkdir |-> 72, TrenameAt |-> 74, TunlinkAT |-> 76,
     Tversion |-> 100, Tauth |-> 102, Tattach |-> 104, Tflush |-> 108, Twalk |-> 110, Topen |-> 112, Tcreate |-> 114,
     Tread |-> 116, Twrite |-> 118, Tclunk |-> 120, Tremove |-> 122, Tstat |-> 124]

\* finish: the size of all of it, the type and the tag, which is always 0.
mut_finish(type, body) == write_u32(Len(body)) \o <<TypeId[type], 0, 0>> \o body
finish(type, body) == write_u32(7 + Len(body)) \o <<TypeId[type], 0, 0>> \o body

NONUNAME == 0
MAX_READ == PSIZE - 32
AtMostRead(n) == IF n > MAX_READ THEN MAX_READ ELSE n

l_terror(ecode) == finish("Tlerror", write_u32(ecode))
tversion(protocol) == finish("Tversion", write_u32(PSIZE) \o write_str(protocol))
tflush(oldtag) == finish("Tflush", write_u16(oldtag))
tfsync(fid) == finish("Tfsync", write_u32(fid) \o write_u32(0))
tclunk(fid) == finish("Tclunk", write_u32(fid))
tauth(afid, uname, aname) == finish("Tauth", write_u32(afid) \o write_str(uname) \o write_str(aname) \o write_u32(NONUNAME))
tattach(fid, afid, uname, aname) ==
    finish("Tattach", write_u32(fid) \o write_u32(afid) \o write_str(uname) \o write_str(aname) \o write_u32(NONUNAME))
twalk(fid, newfid, nwname, wnames) ==
    finish("Twalk", write_u32(fid) \o write_u32(newfid) \o write_u16(nwname)
                    \o FlattenSeq([i \in DOMAIN wnames |-> write_str(wnames[i])]))
tcreate(fid, name, perm, mode) ==
    finish("Tcreate", write_u32(fid) \o write_str(name) \o write_u32(perm) \o write_u8(mode))
u_tcreate(fid, name, perm, mode, extension) ==
    finish("Tcreate", write_u32(fid) \o write_str(name) \o write_u32(perm) \o write_u8(mode) \o write_str(extension))
l_tcreate(fid, name, flags, mode, gid) ==
    finish("Tlcreate", write_u32(fid) \o write_str(name) \o write_u32(flags) \o write_u32(mode) \o write_u32(gid))
trename_at(olddirfid, oldname, newdirfid, new_name) ==
    finish("TrenameAt", write_u32(olddirfid) \o write_str(oldname) \o write_u32(newdirfid) \o write_str(new_name))
topen(fid, mode) == finish("Topen", write_u32(fid) \o write_u8(mode))
l_topen(fid, flags) == finish("Tlopen", write_u32(fid) \o write_u32(flags))
tread(fid, offset, count) == finish("Tread", write_u32(fid) \o write_u64(offset) \o write_u32(AtMostRead(count)))
treaddir(fid, offptr) == finish("Treaddir", write_u32(fid) \o write_u64(offptr) \o write_u32(MAX_READ))
twrite(fid, offset, data) ==
    LET len == AtMostRead(Len(data))
    IN  finish("Twrite", write_u32(fid) \o write_u64(offset) \o write_u32(len) \o SubSeq(data, 1, len))
tmkdir(dfid, name, mode, gid) ==
    finish("Tmkdir", write_u32(dfid) \o write_str(name) \o write_u32(mode) \o write_u32(gid))
tremove(fid) == finish("Tremove", write_u32(fid))
tgetattr(fid, mask) == finish("Tgetattr", write_u32(fid) \o write_u64(mask))
tsetattr(fid, a) ==
    finish("Tsetattr", write_u32(fid) \o write_u32(a.valid) \o write_u32(a.mode) \o write_u32(a.uid) \o write_u32(a.gid)
                       \o write_u64(a.size) \o write_u64(a.atime_sec) \o write_u64(a.atime_ns)
                       \o write_u64(a.mtime_sec) \o write_u64(a.mtime_ns))
t_xattr_walk(fid, new_fid, name) == finish("TxattrWalk", write_u32(fid) \o write_u32(new_fid) \o write_str(name))
t_xattr_create(fid, name, attr_size, flags) ==
    finish("TxattrCreate", write_u32(fid) \o write_str(name) \o write_u64(attr_size) \o write_u32(flags))
tsymlink(fid, name, symtgt, gid) ==
    finish("Tsymlink", write_u32(fid) \o write_str(name) \o write_str(symtgt) \o write_u32(gid))
tmknod(dfid, name, mode, major, minor, gid) ==
    finish("Tmknod", write_u32(dfid) \o write_str(name) \o write_u32(mode) \o write_u32(major) \o write_u32(minor) \o write_u32(gid))
treadlink(fid) == finish("Treadlink", write_u32(fid))
tlink(dfid, fid, name) == finish("Tlink", write_u32(dfid) \o write_u32(fid) \o write_str(name))
tunlink(dirfid, name, flags) == finish("TunlinkAT", write_u32(dirfid) \o write_str(name) \o write_u32(flags))
LockFields(l) == write_u64(l.start) \o write_u64(l.length) \o write_u32(l.proc_id) \o write_str(l.client_id)
tlock(fid, flags, l) == finish("Tlock", write_u32(fid) \o write_u8(l.lock_type) \o write_u32(flags) \o LockFields(l))
tgetlock(fid, l) == finish("Tgetlock", write_u32(fid) \o write_u8(l.lock_type) \o LockFields(l))
tstatfs(fid) == finish("Tstatfs", write_u32(fid))
tstat(fid) == finish("Tstat", write_u32(fid))

-----------------------------------------------------------------------------
(* Taking an answer apart.                                                  *)

RECURSIVE lbytes2u64(_)
lbytes2u64(bytes) == IF bytes = <<>> THEN 0 ELSE Head(bytes) + 256 * lbytes2u64(Tail(bytes))
Num(b, from, to) == lbytes2u64(SubSeq(b, from + 1, to))
lbytes2str(b, from) == SubSeq(b, from + 3, from + 2 + Num(b, from, from + 2))

RLERROR == 7
request_error(b) == IF b[5] = RLERROR THEN b[8] ELSE 0

Qid(b, at) == <<b[at + 1], Num(b, at + 1, at + 5), Num(b, at + 5, at + 13)>>
rversion(b) == SubSeq(b, 14, 13 + b[13] * 256 + b[12])
rread(b) == SubSeq(b, 12, 11 + Num(b, 7, 11))
rwrite(b) == Num(b, 7, 11)
rlock(b) == b[8]
rreadlink(b) == lbytes2str(b, 7)
rgetattr(b) ==
    <<Num(b, 7, 15)>> \o Qid(b, 15) \o <<Num(b, 28, 32), Num(b, 32, 36), Num(b, 36, 40)>>
    \o [i \in 1 .. 15 |-> Num(b, 32 + 8 * i, 40 + 8 * i)]
rgetlock(b) == <<b[8], Num(b, 8, 16), Num(b, 16, 24), Num(b, 24, 28), lbytes2str(b, 28)>>
rstatfs(b) ==
    <<Num(b, 7, 11), Num(b, 11, 15)>> \o [i \in 1 .. 6 |-> Num(b, 7 + 8 * i, 15 + 8 * i)] \o <<Num(b, 63, 67)>>
\* QEMU puts two bytes more in front of the stat.
parse_u_from(b, at) ==
    LET after(i) == i + 2 + Num(b, i, i + 2)
        uid == after(at + 41)
        gid == after(uid)
        muid == after(gid)
        extension == after(muid)
        end == after(extension)
    IN  <<Num(b, at, at + 2), Num(b, at + 2, at + 4), Num(b, at + 4, at + 8)>> \o Qid(b, at + 8)
        \o <<Num(b, at + 21, at + 25), Num(b, at + 25, at + 29), Num(b, at + 29, at + 33), Num(b, at + 33, at + 41),
             lbytes2str(b, at + 41), lbytes2str(b, uid), lbytes2str(b, gid), lbytes2str(b, muid), lbytes2str(b, extension),
             Num(b, end, end + 4), Num(b, end + 4, end + 8), Num(b, end + 8, end + 12)>>
rstat(b) == parse_u_from(b, 9)
get_self_length(stat) == Len(stat[11]) + Len(stat[12]) + Len(stat[13]) + Len(stat[14]) + Len(stat[15]) + 63

\* The entries from at on, while at is below the count the answer states (not
\* below the end of the entries, which lie behind the header).
RECURSIVE rreaddir(_, _)
rreaddir(b, at) ==
    IF at >= Num(b, 7, 11) THEN <<>>
    ELSE LET name == lbytes2str(b, at + 22)
         IN  <<Qid(b, at) \o <<Num(b, at + 13, at + 21), b[at + 22], name>>>> \o rreaddir(b, at + 24 + Len(name))
RECURSIVE u_rreaddir(_, _)
u_rreaddir(b, at) ==
    IF at >= Num(b, 7, 11) THEN <<>>
    ELSE LET stat == parse_u_from(b, at) IN <<stat>> \o u_rreaddir(b, at + get_self_length(stat))

-----------------------------------------------------------------------------
(* The protocol: the sizes of the fields of a message, 0 for a string.      *)

Layout ==
    [Tlerror |-> <<4>>, Tversion |-> <<4, 0>>, Tflush |-> <<2>>, Tfsync |-> <<4, 4>>, Tclunk |-> <<4>>,
     Tauth |-> <<4, 0, 0, 4>>, Tattach |-> <<4, 4, 0, 0, 4>>, Tlcreate |-> <<4, 0, 4, 4, 4>>,
     TrenameAt |-> <<4, 0, 4, 0>>, Topen |-> <<4, 1>>, Tlopen |-> <<4, 4>>, Tread |-> <<4, 8, 4>>, Treaddir |-> <<4, 8, 4>>,
     Tmkdir |-> <<4, 0, 4, 4>>, Tremove |-> <<4>>, Tgetattr |-> <<4, 8>>, Tsetattr |-> <<4, 4, 4, 4, 4, 8, 8, 8, 8, 8>>,
     TxattrWalk |-> <<4, 4, 0>>, TxattrCreate |-> <<4, 0, 8, 4>>, Tsymlink |-> <<4, 0, 0, 4>>,
     Tmknod |-> <<4, 0, 4, 4, 4, 4>>, Treadlink |-> <<4>>, Tlink |-> <<4, 4, 0>>, TunlinkAT |-> <<4, 0, 4>>,
     Tlock |-> <<4, 1, 4, 8, 8, 4, 0>>, Tgetlock |-> <<4, 1, 8, 8, 4, 0>>, Tstatfs |-> <<4>>, Tstat |-> <<4>>]
QidLayout == <<1, 4, 8>>
StatLayout == <<2, 2, 4>> \o QidLayout \o <<4, 4, 4, 8, 0, 0, 0, 0, 0, 4, 4, 4>>
DirentLayout == QidLayout \o <<8, 1, 0>>
AnswerLayout ==
    [rversion |-> <<4, 0>>, rwrite |-> <<4>>, rlock |-> <<1>>, rreadlink |-> <<0>>, rgetattr |-> <<8>> \o QidLayout \o <<4, 4, 4>> \o [i \in 1 .. 15 |-> 8],
     rgetlock |-> <<1, 8, 8, 4, 0>>, rstatfs |-> <<4, 4, 8, 8, 8, 8, 8, 8, 4>>,
     rstat |-> <<2>> \o StatLayout]

RECURSIVE ServerReads(_, _)
ServerReads(layout, b) ==
    LET n == IF Head(layout) # 0 THEN Head(layout) ELSE 2 + Num(b, 0, 2)
        field == IF Head(layout) # 0 THEN Num(b, 0, n) ELSE SubSeq(b, 3, n)
    IN  IF layout = <<>> THEN IF b = <<>> THEN <<>> ELSE <<"too long">>
        ELSE IF Len(b) < n THEN <<"too short">>
        ELSE <<field>> \o ServerReads(Tail(layout), SubSeq(b, n + 1, Len(b)))
Bytes9(layout, values) ==
    FlattenSeq([i \in DOMAIN layout |-> IF layout[i] = 0 THEN write_str(values[i]) ELSE LittleEndian(values[i], layout[i])])
ServerSends(type, body) == write_u32(7 + Len(body)) \o <<type, 0, 0>> \o body
ServerWrites(type, layout, values) == ServerSends(type, Bytes9(layout, values))
ServerCounts(type, body) == ServerSends(type, write_u32(Len(body)) \o body)

-----------------------------------------------------------------------------
\* What is sent by a call with the fields v, in the order of the layout.
Lock(v, i) == [lock_type |-> v[2], start |-> v[i], length |-> v[i + 1], proc_id |-> v[i + 2], client_id |-> v[i + 3]]
Attr(v) == [valid |-> v[2], mode |-> v[3], uid |-> v[4], gid |-> v[5], size |-> v[6], atime_sec |-> v[7], atime_ns |-> v[8],
            mtime_sec |-> v[9], mtime_ns |-> v[10]]
Sent(type, v) ==
    CASE type = "Tlerror" -> l_terror(v[1])
      [] type = "Tversion" -> tversion(v[2])
      [] type = "Tflush" -> tflush(v[1])
      [] type = "Tfsync" -> tfsync(v[1])
      [] type = "Tclunk" -> tclunk(v[1])
      [] type = "Tauth" -> tauth(v[1], v[2], v[3])
      [] type = "Tattach" -> tattach(v[1], v[2], v[3], v[4])
      [] type = "Tlcreate" -> l_tcreate(v[1], v[2], v[3], v[4], v[5])
      [] type = "TrenameAt" -> trename_at(v[1], v[2], v[3], v[4])
      [] type = "Topen" -> topen(v[1], v[2])
      [] type = "Tlopen" -> l_topen(v[1], v[2])
      [] type = "Tread" -> tread(v[1], v[2], v[3])
      [] type = "Treaddir" -> treaddir(v[1], v[2])
      [] type = "Tmkdir" -> tmkdir(v[1], v[2], v[3], v[4])
      [] type = "Tremove" -> tremove(v[1])
      [] type = "Tgetattr" -> tgetattr(v[1], v[2])
      [] type = "Tsetattr" -> tsetattr(v[1], Attr(v))
      [] type = "TxattrWalk" -> t_xattr_walk(v[1], v[2], v[3])
      [] type = "TxattrCreate" -> t_xattr_create(v[1], v[2], v[3], v[4])
      [] type = "Tsymlink" -> tsymlink(v[1], v[2], v[3], v[4])
      [] type = "Tmknod" -> tmknod(v[1], v[2], v[3], v[4], v[5], v[6])
      [] type = "Treadlink" -> treadlink(v[1])
      [] type = "Tlink" -> tlink(v[1], v[2], v[3])
      [] type = "TunlinkAT" -> tunlink(v[1], v[2], v[3])
      [] type = "Tlock" -> tlock(v[1], v[3], Lock(v, 4))
      [] type = "Tgetlock" -> tgetlock(v[1], Lock(v, 3))
      [] type = "Tstatfs" -> tstatfs(v[1])
      [] type = "Tstat" -> tstat(v[1])

\* Field i of a message, from a seed, so that neighbours differ.
Byte(n) == n % 2^8
Field9(kind, i, num, str) == IF kind = 0 THEN str \o <<i>>
    ELSE (num + i) % (CASE kind = 1 -> 2^8 [] kind = 2 -> 2^16 [] OTHER -> 2^30)
Fields9(layout, num, str) == [i \in DOMAIN layout |-> Field9(layout[i], i, num, str)]
\* The fields the driver fills in by itself.
Fixed(type, v) ==
    CASE type = "Tversion" -> [v EXCEPT ![1] = PSIZE]
      [] type = "Tfsync" -> [v EXCEPT ![2] = 0]
      [] type = "Tauth" -> [v EXCEPT ![4] = NONUNAME]
      [] type = "Tattach" -> [v EXCEPT ![5] = NONUNAME]
      [] type = "Treaddir" -> [v EXCEPT ![3] = MAX_READ]
      [] type = "Tread" -> [v EXCEPT ![3] = AtMostRead(@)]
      [] OTHER -> v

WireInit == wire_call = [op |-> "none"] /\ wire_out = <<>>

request_call ==
    /\ wire_call.op = "none"
    /\ \E type \in DOMAIN Layout, num \in WireNums, str \in WireStrs :
        LET v == Fields9(Layout[type], num, str) IN
        /\ wire_call' = [op |-> "request", type |-> type, v |-> v]
        /\ wire_out' = Sent(type, v)
walk_call ==
    /\ wire_call.op = "none"
    /\ \E fid \in WireNums, names \in WireNames :
        /\ wire_call' = [op |-> "walk", fid |-> fid, names |-> names]
        /\ wire_out' = twalk(fid, fid + 1, Len(names), names)
write_call ==
    /\ wire_call.op = "none"
    /\ \E fid \in WireNums, n \in 0 .. MAX_READ + 2 :
        /\ wire_call' = [op |-> "write", fid |-> fid, data |-> [i \in 1 .. n |-> Byte(i)]]
        /\ wire_out' = twrite(fid, n, [i \in 1 .. n |-> Byte(i)])
create_call ==
    /\ wire_call.op = "none"
    /\ \E num \in WireNums, str \in WireStrs, extension \in {<<>>} \cup WireStrs :
        LET v == <<num, str, num + 1, Byte(num), extension>> IN
        /\ wire_call' = [op |-> "create", v |-> v]
        /\ wire_out' = IF extension = <<>> THEN tcreate(v[1], v[2], v[3], v[4]) ELSE u_tcreate(v[1], v[2], v[3], v[4], v[5])
answer_call ==
    /\ wire_call.op = "none"
    /\ \E kind \in DOMAIN AnswerLayout, num \in WireNums, str \in WireStrs :
        LET v == Fields9(AnswerLayout[kind], num, str)
            b == ServerWrites(1, AnswerLayout[kind], v)
        IN  /\ wire_call' = [op |-> "answer", kind |-> kind, v |-> v]
            /\ wire_out' = CASE kind = "rversion" -> <<num + 1, rversion(b)>>
                             [] kind = "rwrite" -> <<rwrite(b)>>
                             [] kind = "rlock" -> <<rlock(b)>>
                             [] kind = "rreadlink" -> <<rreadlink(b)>>
                             [] kind = "rgetattr" -> rgetattr(b)
                             [] kind = "rgetlock" -> rgetlock(b)
                             [] kind = "rstatfs" -> rstatfs(b)
                             [] kind = "rstat" -> <<v[1]>> \o rstat(b)
\* An answer with a count: the bytes of a file, or the entries of a directory.
counted_call ==
    /\ wire_call.op = "none"
    /\ \E kind \in {"read", "readdir", "u_readdir"}, num \in WireNums, str \in WireStrs, n \in 0 .. 2 :
        LET layout == CASE kind = "read" -> <<1>> [] kind = "readdir" -> DirentLayout [] kind = "u_readdir" -> StatLayout
            v == [i \in 1 .. n |-> Fields9(layout, num + i, str)]
            b == ServerCounts(117, FlattenSeq([i \in 1 .. n |-> Bytes9(layout, v[i])]))
        IN  /\ wire_call' = [op |-> "answer", kind |-> kind, v |-> v]
            /\ wire_out' = CASE kind = "read" -> [i \in 1 .. Len(rread(b)) |-> <<rread(b)[i]>>]
                             [] kind = "readdir" -> rreaddir(b, 11)
                             [] kind = "u_readdir" -> u_rreaddir(b, 11)
error_call ==
    /\ wire_call.op = "none"
    /\ \E type \in {RLERROR, 101}, ecode \in 1 .. 3 :
        /\ wire_call' = [op |-> "error", type |-> type, ecode |-> ecode]
        /\ wire_out' = <<request_error(ServerWrites(type, <<4>>, <<ecode>>))>>

WireNext == request_call \/ walk_call \/ write_call \/ create_call \/ answer_call \/ counted_call \/ error_call

-----------------------------------------------------------------------------
HeaderOf(b) == [size |-> Num(b, 0, 4), type |-> b[5], tag |-> Num(b, 5, 7)]
BodyOf(b) == SubSeq(b, 8, Len(b))

\* The server finds in every request the fields the driver was called with, in
\* the order and the sizes of the protocol, behind a header with the size of
\* the whole message; the driver finds in every answer what the server put
\* there, and its error in an Rlerror only.
MessagesMatch ==
    CASE wire_call.op = "none" -> TRUE
      [] wire_call.op = "request" ->
           /\ HeaderOf(wire_out) = [size |-> Len(wire_out), type |-> TypeId[wire_call.type], tag |-> 0]
           /\ ServerReads(Layout[wire_call.type], BodyOf(wire_out)) = Fixed(wire_call.type, wire_call.v)
      [] wire_call.op = "walk" ->
           LET n == Len(wire_call.names) IN
           ServerReads(<<4, 4, 2>> \o [i \in 1 .. n |-> 0], BodyOf(wire_out)) = <<wire_call.fid, wire_call.fid + 1, n>> \o wire_call.names
      [] wire_call.op = "write" ->
           LET n == AtMostRead(Len(wire_call.data)) IN
           /\ Len(wire_out) <= PSIZE
           /\ ServerReads(<<4, 8, 4>> \o [i \in 1 .. n |-> 1], BodyOf(wire_out))
              = <<wire_call.fid, Len(wire_call.data), n>> \o SubSeq(wire_call.data, 1, n)
      [] wire_call.op = "create" ->
           LET u == wire_call.v[5] # <<>> IN
           ServerReads(<<4, 0, 4, 1>> \o (IF u THEN <<0>> ELSE <<>>), BodyOf(wire_out)) = IF u THEN wire_call.v ELSE Front(wire_call.v)
      [] wire_call.op = "answer" -> wire_out = wire_call.v
      [] wire_call.op = "error" -> wire_out = <<IF wire_call.type = RLERROR THEN wire_call.ecode ELSE 0>>
=============================================================================
