------------------------------- MODULE Select -------------------------------
(***************************************************************************)
(* select and pselect6 (api/ruxos_posix_api/src/imp/io_mpx/select.rs): the *)
(* three sets of descriptors are copied word by word, and the words are    *)
(* gone through again and again, one descriptor at a time, while other     *)
(* threads open, close, fill and empty the files.                          *)
(***************************************************************************)
EXTENDS Integers, FiniteSets

CONSTANTS
    BITS_PER_USIZE, FD_SETSIZE,
    SelSets,      \* the triples of sets that a program passes
    SelNfds,      \* the values it passes for nfds
    SelTimes,     \* its timeouts; -1 is a null pointer
    SelChanges,   \* bound: the changes of files in a behaviour
    SelClock      \* bound: the clock

VARIABLES
    sel_file,     \* descriptor -> what the table and poll() say of it
    sel_pc,       \* where the caller is
    sel_call,     \* nfds, FdSets::bits and the deadline
    sel_pos,      \* i, j, the word the pointers are at, and the words last read
    sel_out,      \* the caller's three sets
    sel_num,      \* res_num, and the value returned
    sel_now,
    sel_kept,     \* the events that have been there since the scan began
    sel_seen,     \* the events this call has met
    sel_changes

sel_vars == <<sel_file, sel_pc, sel_call, sel_pos, sel_out, sel_num, sel_now, sel_kept, sel_seen, sel_changes>>

Fds == 0..(FD_SETSIZE - 1)

Kinds == {"read", "write", "except"}

\* {} for a descriptor that is not open, {"open", "except"} when poll fails.
Outcomes == {{}, {"open", "except"}} \cup {{"open"} \cup s : s \in SUBSET {"read", "write"}}

usizes(nfds) == (nfds + BITS_PER_USIZE - 1) \div BITS_PER_USIZE

Nothing == [k \in Kinds |-> {}]

WordOf(fds, w) == {b \in 0..(BITS_PER_USIZE - 1) : w * BITS_PER_USIZE + b \in fds}

\* FdSets::from takes whole words, bits behind nfds included.
FdSets_from(nfds, sets) == [k \in Kinds |-> {fd \in sets[k] : fd < usizes(nfds) * BITS_PER_USIZE}]

zero_fd_set(nfds, sets) == [k \in Kinds |-> {fd \in sets[k] : fd >= usizes(nfds) * BITS_PER_USIZE}]

Events(file) == UNION {{<<fd, k>> : k \in file[fd] \cap Kinds} : fd \in Fds}

ScanStart == [i |-> 0, j |-> 0, word |-> 0, bits |-> Nothing]

-----------------------------------------------------------------------------

SelInit ==
    /\ sel_file = [fd \in Fds |-> {"open"}]
    /\ sel_pc = "idle"
    /\ sel_call = [nfds |-> 0, bits |-> Nothing, deadline |-> -1]
    /\ sel_pos = ScanStart
    /\ sel_out = Nothing
    /\ sel_num = 0
    /\ sel_now = 0
    /\ sel_kept = {}
    /\ sel_seen = {}
    /\ sel_changes = 0

sys_select(arg, sets, timeout) ==
    /\ sel_pc = "idle"
    /\ LET nfds == IF arg < FD_SETSIZE THEN arg ELSE FD_SETSIZE
       IN  IF arg < 0
           THEN /\ sel_pc' = "failed"
                /\ sel_out' = sets
                /\ UNCHANGED <<sel_call, sel_kept>>
           ELSE /\ sel_pc' = "word"
                /\ sel_call' = [nfds |-> nfds, bits |-> FdSets_from(nfds, sets),
                                deadline |-> IF timeout < 0 THEN -1 ELSE sel_now + timeout]
                /\ sel_out' = zero_fd_set(nfds, sets)
                /\ sel_kept' = Events(sel_file)
    /\ UNCHANGED <<sel_file, sel_pos, sel_num, sel_now, sel_seen, sel_changes>>

mut_poll_all_word ==
    LET bits == [k \in Kinds |-> WordOf(sel_call.bits[k], sel_pos.word)]
    IN  IF UNION {bits[k] : k \in Kinds} = {}
        THEN sel_pos' = [sel_pos EXCEPT !.i = @ + BITS_PER_USIZE] /\ UNCHANGED sel_pc
        ELSE sel_pos' = [sel_pos EXCEPT !.word = @ + 1, !.j = 0, !.bits = bits] /\ sel_pc' = "fd"

\* The three words at the pointers are read and the pointers moved on; words without a bit are skipped.
poll_all_word ==
    LET bits == [k \in Kinds |-> WordOf(sel_call.bits[k], sel_pos.word)]
    IN  IF UNION {bits[k] : k \in Kinds} = {}
        THEN sel_pos' = [sel_pos EXCEPT !.word = @ + 1, !.i = @ + BITS_PER_USIZE] /\ UNCHANGED sel_pc
        ELSE sel_pos' = [sel_pos EXCEPT !.word = @ + 1, !.j = 0, !.bits = bits] /\ sel_pc' = "fd"

next_word ==
    /\ sel_pc = "word"
    /\ sel_pos.i < sel_call.nfds
    /\ poll_all_word
    /\ UNCHANGED <<sel_file, sel_call, sel_out, sel_num, sel_now, sel_kept, sel_seen, sel_changes>>

\* One turn of the inner loop, with the lookup and the poll of the descriptor.
poll_all_fd ==
    /\ sel_pc = "fd"
    /\ LET fd == sel_pos.i + sel_pos.j
           asked == {k \in Kinds : sel_pos.j \in sel_pos.bits[k]}
           ready == sel_file[fd] \cap asked
       IN  IF sel_pos.j = BITS_PER_USIZE \/ fd >= sel_call.nfds
           THEN /\ sel_pc' = "word"
                /\ sel_pos' = [sel_pos EXCEPT !.i = @ + BITS_PER_USIZE]
                /\ UNCHANGED <<sel_out, sel_num, sel_seen>>
           ELSE /\ sel_pos' = [sel_pos EXCEPT !.j = @ + 1]
                /\ IF asked = {} THEN UNCHANGED <<sel_pc, sel_out, sel_num, sel_seen>>
                   ELSE IF sel_file[fd] = {}      \* get_file_like fails: EBADF
                   THEN sel_pc' = "failed" /\ UNCHANGED <<sel_out, sel_num, sel_seen>>
                   ELSE /\ sel_out' = [k \in Kinds |-> IF k \in ready THEN sel_out[k] \cup {fd} ELSE sel_out[k]]
                        /\ sel_num' = sel_num + Cardinality(ready)
                        /\ sel_seen' = sel_seen \cup {<<fd, k>> : k \in sel_file[fd] \cap Kinds}
                        /\ UNCHANGED sel_pc
    /\ UNCHANGED <<sel_file, sel_call, sel_now, sel_kept, sel_changes>>

\* The scan is over: return, time out, or yield and scan again.
select_round ==
    /\ sel_pc = "word"
    /\ sel_pos.i >= sel_call.nfds
    /\ IF sel_num > 0 \/ (sel_call.deadline >= 0 /\ sel_now >= sel_call.deadline)
       THEN sel_pc' = "done" /\ UNCHANGED <<sel_pos, sel_kept>>
       ELSE sel_pos' = ScanStart /\ sel_kept' = Events(sel_file) /\ UNCHANGED sel_pc
    /\ UNCHANGED <<sel_file, sel_call, sel_out, sel_num, sel_now, sel_seen, sel_changes>>

-----------------------------------------------------------------------------

\* Another thread opens, closes, fills or empties the file of fd.
sel_change(fd, outcome) ==
    /\ sel_pc \in {"idle", "word", "fd"}
    /\ sel_changes < SelChanges
    /\ sel_changes' = sel_changes + 1
    /\ outcome # sel_file[fd]
    /\ sel_file' = [sel_file EXCEPT ![fd] = outcome]
    /\ sel_kept' = {e \in sel_kept : e[1] # fd \/ e[2] \in outcome}
    /\ UNCHANGED <<sel_pc, sel_call, sel_pos, sel_out, sel_num, sel_now, sel_seen>>

sel_tick ==
    /\ sel_pc \in {"word", "fd"}
    /\ sel_now < SelClock
    /\ sel_now' = sel_now + 1
    /\ UNCHANGED <<sel_file, sel_pc, sel_call, sel_pos, sel_out, sel_num, sel_kept, sel_seen, sel_changes>>

SelNext ==
    \/ \E nfds \in SelNfds, timeout \in SelTimes, sets \in SelSets : sys_select(nfds, sets, timeout)
    \/ next_word \/ poll_all_fd \/ select_round
    \/ \E fd \in Fds, outcome \in Outcomes : sel_change(fd, outcome)
    \/ sel_tick

-----------------------------------------------------------------------------

Reported == UNION {{<<fd, k>> : fd \in {f \in sel_out[k] : f < sel_call.nfds}} : k \in Kinds}

Requested == UNION {{<<fd, k>> : fd \in {f \in sel_call.bits[k] : f < sel_call.nfds}} : k \in Kinds}

\* When sys_select returns, every descriptor it reports was asked for and was met ready in this call,
\* every descriptor asked for that was ready from the beginning of the last scan to its end is
\* reported, and the value returned counts the bits that are set: the words, the bits in them and the
\* pointers into the three arrays stay in step over words without a bit and an nfds inside a word
\* (select.rs:69-114). With nothing to report the call only ends once its deadline has passed.
SelectMatches ==
    sel_pc = "done" =>
        /\ Reported \subseteq Requested \cap sel_seen
        /\ Requested \cap sel_kept \subseteq Reported
        /\ sel_num = Cardinality(Reported)
        /\ sel_num = 0 => sel_call.deadline >= 0 /\ sel_now >= sel_call.deadline
=============================================================================
