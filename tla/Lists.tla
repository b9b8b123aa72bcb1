-------------------------------- MODULE Lists --------------------------------
(***************************************************************************)
(* What c-list promises: every list head stands for a sequence of          *)
(* elements, and an element is in at most one of them.  The other modules  *)
(* of this project use sequences where the code uses c-list.               *)
(***************************************************************************)
EXTENDS Sequences, SequencesExt, FiniteSets

CONSTANTS Head1, Head2,   \* two list heads
          Element         \* what is linked

Heads == {Head1, Head2}

VARIABLE lists            \* the sequence behind each head

Linked(e) == \E h \in Heads : e \in ToSet(lists[h])

LISTInit == lists = [h \in Heads |-> <<>>]

Insert(h, i, e) ==
    /\ ~Linked(e)
    /\ lists' = [lists EXCEPT ![h] = InsertAt(@, i, e)]

Delete(e) ==
    /\ Linked(e)
    /\ lists' = [h \in Heads |-> SelectSeq(lists[h], LAMBDA x : x # e)]

Swap == lists' = [h \in Heads |-> lists[IF h = Head1 THEN Head2 ELSE Head1]]

SpliceInto(h, g) == lists' = [lists EXCEPT ![h] = lists[h] \o lists[g], ![g] = <<>>]

SplitAt(h, g, i) ==
    /\ lists[g] = <<>>
    /\ lists' = [lists EXCEPT ![h] = SubSeq(@, 1, i - 1), ![g] = SubSeq(lists[h], i, Len(lists[h]))]

Flush(h) == lists' = [lists EXCEPT ![h] = <<>>]

LISTNext ==
    \/ \E h \in Heads, e \in Element : \E i \in 1..(Len(lists[h]) + 1) : Insert(h, i, e)
    \/ \E e \in Element : Delete(e)
    \/ Swap
    \/ \E h \in Heads, g \in Heads :
          h # g /\ (SpliceInto(h, g) \/ \E i \in 1..(Len(lists[h]) + 1) : SplitAt(h, g, i))
    \/ \E h \in Heads : Flush(h)

LISTSpec == LISTInit /\ [][LISTNext]_lists
=============================================================================
