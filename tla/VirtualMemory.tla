---------------------------- MODULE VirtualMemory ----------------------------
(***************************************************************************)
(* What a program may expect of its memory, whatever the kernel keeps      *)
(* where: a page holds what was last stored in it as long as it is mapped, *)
(* and only the calls on a range of pages change which pages are.          *)
(***************************************************************************)
EXTENDS Integers

CONSTANTS Pages, Values

VARIABLES mapped,   \* the pages the program may use
          content   \* what is in each page; of no interest unless it is mapped

vm == <<mapped, content>>

\* The pages mapped before and after hold what they held.
Keeps == \A p \in mapped \cap mapped' : content'[p] = content[p]

Init == mapped = {} /\ content \in [Pages -> Values]

\* mmap and a mapping that grows: what is in the new pages is not said.
Map == mapped \subseteq mapped' /\ Keeps

\* A fixed mapping: one range of pages is new, whatever was there.
Replace ==
  /\ mapped \subseteq mapped'
  /\ \E a, b \in Pages : \A p \in mapped : content'[p] = content[p] \/ (a <= p /\ p <= b /\ a..b \subseteq mapped')

Unmap == mapped' \subseteq mapped /\ Keeps

Store == \E p \in mapped, v \in Values : content' = [content EXCEPT ![p] = v] /\ UNCHANGED mapped

\* mremap: the pages that go are found again at one distance.
Move ==
  /\ Keeps
  /\ \E d \in {p - q : p, q \in Pages} : \A p \in mapped \ mapped' :
       p + d \in mapped' \ mapped /\ content'[p + d] = content[p]

Next == Map \/ Replace \/ Unmap \/ Store \/ Move
Spec == Init /\ [][Next]_vm
=============================================================================
