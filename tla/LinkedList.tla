----------------------------- MODULE LinkedList -----------------------------
(***************************************************************************)
(* The intrusive circular list under the FIFO scheduler's ready queue      *)
(* (crates/linked_list).  An entry carries its own links; the list is a    *)
(* pointer to the first entry.  Links of an entry that is in no list keep  *)
(* whatever was last written to them (MaybeUninit).  ll_seq is what the    *)
(* callers asked for: the entries in the order they should be in.          *)
(***************************************************************************)
EXTENDS Integers, Sequences

CONSTANTS Entries,   \* the objects that can be in the list
          NoEntry    \* None

ASSUME NoEntryAssumption == NoEntry \notin Entries

VARIABLES ll,         \* [first, next, prev]
          ll_seq,     \* ghost: the entries, in order
          ll_cur,     \* the cursor's position, {} when there is no cursor
          ll_pos,     \* ghost: where in ll_seq the cursor should be, 0 for None
          ll_mode     \* "use", or "drop" once drop() runs
ll_vars == <<ll, ll_seq, ll_cur, ll_pos, ll_mode>>

Pointer == Entries \cup {NoEntry}
Members == {ll_seq[i] : i \in 1 .. Len(ll_seq)}

-----------------------------------------------------------------------------
(* Operations on a list l. *)

insert_only_entry(l, obj) ==
    [first |-> obj, next |-> [l.next EXCEPT ![obj] = obj], prev |-> [l.prev EXCEPT ![obj] = obj]]

\* The new entry's links are written first, then existing.next, then next.prev:
\* in a list of one, existing and next are the same entry.
insert_after(l, existing, new) ==
    LET next == l.next[existing]
    IN  [l EXCEPT !.next = [@ EXCEPT ![new] = next, ![existing] = new],
                  !.prev = [@ EXCEPT ![new] = existing, ![next] = new]]

insert_before(l, existing, new) ==
    [insert_after(l, l.prev[existing], new) EXCEPT !.first = IF @ = existing THEN new ELSE @]

is_empty(l) == l.first = NoEntry

ll_push_back(l, obj) ==
    IF is_empty(l) THEN insert_only_entry(l, obj) ELSE insert_after(l, l.prev[l.first], obj)

ll_push_front(l, obj) ==
    IF is_empty(l) THEN insert_only_entry(l, obj) ELSE insert_before(l, l.first, obj)

\* A removal that leaves first alone.
mut_ll_remove(l, entry) ==
    LET next == l.next[entry]
        prev == l.prev[entry]
    IN  IF next = entry
        THEN [l EXCEPT !.first = NoEntry]
        ELSE [l EXCEPT !.next[prev] = next, !.prev[next] = prev]

ll_remove(l, entry) ==
    LET next == l.next[entry]
        prev == l.prev[entry]
    IN  IF next = entry
        THEN [l EXCEPT !.first = NoEntry]
        ELSE [first |-> IF l.first = entry THEN next ELSE l.first,
              next |-> [l.next EXCEPT ![prev] = next],
              prev |-> [l.prev EXCEPT ![next] = prev]]

front(l) == l.first
back(l) == IF is_empty(l) THEN NoEntry ELSE l.prev[l.first]

\* Where a cursor at cur goes.
move_next(l, cur) ==
    IF cur = NoEntry THEN l.first
    ELSE IF l.next[cur] # l.first THEN l.next[cur] ELSE NoEntry

move_prev(l, cur) ==
    IF is_empty(l) \/ cur = l.first THEN NoEntry
    ELSE l.prev[IF cur = NoEntry THEN l.first ELSE cur]

-----------------------------------------------------------------------------
(* The order the callers ask for. *)

InsertedAt(s, i, e) ==
    [j \in 1 .. Len(s) + 1 |-> IF j <= i THEN s[j] ELSE IF j = i + 1 THEN e ELSE s[j - 1]]
RemovedAt(s, i) ==
    [j \in 1 .. Len(s) - 1 |-> IF j < i THEN s[j] ELSE s[j + 1]]

-----------------------------------------------------------------------------
LlInit ==
    /\ ll = [first |-> NoEntry, next |-> [e \in Entries |-> NoEntry], prev |-> [e \in Entries |-> NoEntry]]
    /\ ll_seq = <<>>
    /\ ll_cur = NoEntry /\ ll_pos = -1
    /\ ll_mode = "use"

\* A cursor borrows the list: while there is one nobody changes the list.
Borrowed == ll_pos # -1
Changes(l, s) ==
    /\ ~Borrowed
    /\ ll' = l /\ ll_seq' = s
    /\ UNCHANGED <<ll_cur, ll_pos>>

\* add_task and put_prev_task of the FIFO scheduler: the entry is in no list.
add_task(e) ==
    /\ ll_mode = "use" /\ e \notin Members
    /\ Changes(ll_push_back(ll, e), InsertedAt(ll_seq, Len(ll_seq), e))
    /\ UNCHANGED ll_mode

push_front(e) ==
    /\ ll_mode = "use" /\ e \notin Members
    /\ Changes(ll_push_front(ll, e), InsertedAt(ll_seq, 0, e))
    /\ UNCHANGED ll_mode

\* The entry after the i-th.
list_insert_after(i, e) ==
    /\ ll_mode = "use" /\ e \notin Members
    /\ Changes(insert_after(ll, ll_seq[i], e), InsertedAt(ll_seq, i, e))
    /\ UNCHANGED ll_mode

list_insert_before(i, e) ==
    /\ ll_mode = "use" /\ e \notin Members
    /\ Changes(insert_before(ll, ll_seq[i], e), InsertedAt(ll_seq, i - 1, e))
    /\ UNCHANGED ll_mode

\* remove_task: the caller guarantees that the entry is in this list.
remove_task(i) ==
    /\ ll_mode = "use"
    /\ Changes(ll_remove(ll, ll_seq[i]), RemovedAt(ll_seq, i))
    /\ UNCHANGED ll_mode

\* pick_next_task.  drop() pops until the list is empty.
pop_front ==
    /\ ~is_empty(ll)
    /\ Changes(ll_remove(ll, front(ll)), RemovedAt(ll_seq, 1))
    /\ UNCHANGED ll_mode

list_drop ==
    /\ ll_mode = "use" /\ ~Borrowed
    /\ ll_mode' = "drop"
    /\ UNCHANGED <<ll, ll_seq, ll_cur, ll_pos>>

\* The cursor moves to cur, which should be the pos-th entry.
Moves(cur, pos) ==
    /\ ll_cur' = cur /\ ll_pos' = pos
    /\ UNCHANGED <<ll, ll_seq, ll_mode>>

cursor_front ==
    /\ ll_mode = "use" /\ ~Borrowed
    /\ Moves(front(ll), IF ll_seq = <<>> THEN 0 ELSE 1)
cursor_back ==
    /\ ll_mode = "use" /\ ~Borrowed
    /\ Moves(back(ll), Len(ll_seq))
\* Past the last entry, and before the first, is None; from None on to the other end.
cursor_next == Borrowed /\ Moves(move_next(ll, ll_cur), IF ll_pos = Len(ll_seq) THEN 0 ELSE ll_pos + 1)
cursor_prev == Borrowed /\ Moves(move_prev(ll, ll_cur), IF ll_pos = 0 THEN Len(ll_seq) ELSE ll_pos - 1)
cursor_drop == Borrowed /\ Moves(NoEntry, -1)

LlNext ==
    \/ \E e \in Entries : add_task(e) \/ push_front(e)
    \/ \E e \in Entries, i \in 1 .. Len(ll_seq) : list_insert_after(i, e) \/ list_insert_before(i, e)
    \/ \E i \in 1 .. Len(ll_seq) : remove_task(i)
    \/ pop_front \/ list_drop
    \/ cursor_front \/ cursor_back \/ cursor_next \/ cursor_prev \/ cursor_drop

LlSpec == LlInit /\ [][LlNext]_ll_vars

-----------------------------------------------------------------------------
\* The index after i, around the circle.
Succ(s, i) == IF i = Len(s) THEN 1 ELSE i + 1

\* The pointers of list l lead through the entries of s in order, and back.
Linked(l, s) ==
    /\ l.first = IF s = <<>> THEN NoEntry ELSE s[1]
    /\ \A i \in 1 .. Len(s) : /\ l.next[s[i]] = s[Succ(s, i)]
                              /\ l.prev[s[Succ(s, i)]] = s[i]

(* The pointers are the sequence the callers asked for: following next from *)
(* first visits the entries in their order and comes back to first,         *)
(* following prev visits them backwards, and a cursor that walks either way *)
(* is on the entry it should be on, whatever operations (push_back,         *)
(* push_front, insert_after, insert_before, remove, pop_front of            *)
(* unsafe_list.rs) came before.                                             *)
ListIsSeq ==
    /\ Linked(ll, ll_seq)
    /\ Borrowed => ll_cur = IF ll_pos = 0 THEN NoEntry ELSE ll_seq[ll_pos]
=============================================================================
