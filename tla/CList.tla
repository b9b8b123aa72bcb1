-------------------------------- MODULE CList --------------------------------
(***************************************************************************)
(* c-list, the intrusive, circular, doubly linked list under every queue   *)
(* of the broker, store by store.  A head and an element are the same      *)
(* structure; an entry that is not linked points to itself.  The module    *)
(* implements Lists, in which a head is a sequence.                        *)
(***************************************************************************)
EXTENDS Naturals, Sequences, FiniteSets, Functions

CONSTANTS Head1, Head2, Element

Heads == {Head1, Head2}
Entry == Heads \union Element

VARIABLES next, prev     \* the two pointers of every entry

listVars == <<next, prev>>

-----------------------------------------------------------------------------
EntryLinked(e) == next[e] # e
ListEmpty(h) == ~EntryLinked(h)

ListFirst(h) == IF ListEmpty(h) THEN "none" ELSE next[h]
ListLast(h) == IF ListEmpty(h) THEN "none" ELSE prev[h]

\* c_list_for_each(): the entries from a start up to the head.
RECURSIVE Follow(_, _, _)
Follow(ptr, h, e) == IF e = h THEN <<>> ELSE <<e>> \o Follow(ptr, h, ptr[e])
ForEach(h) == Follow(next, h, next[h])

ListLength(h) == Len(ForEach(h))
ListContains(h, e) == e = h \/ \E i \in DOMAIN ForEach(h) : ForEach(h)[i] = e

-----------------------------------------------------------------------------
\* Link what between two neighbours: the four stores of c_list_link_before()
\* and c_list_link_after().
LinkBetween(p, n, what) ==
    /\ next' = [next EXCEPT ![what] = n, ![p] = what]
    /\ prev' = [prev EXCEPT ![n] = what, ![what] = p]

LinkBefore(where, what) == ~EntryLinked(what) /\ LinkBetween(prev[where], where, what)
LinkAfter(where, what)  == ~EntryLinked(what) /\ LinkBetween(where, next[where], what)

\* c_list_unlink(): c_list_unlink_stale() and the reset of the entry.
UnlinkEntry(what) ==
    /\ EntryLinked(what)
    /\ next' = [next EXCEPT ![prev[what]] = next[what], ![what] = what]
    /\ prev' = [prev EXCEPT ![next[what]] = prev[what], ![what] = what]

\* c_list_swap(): the neighbours of one head, then of the other, are turned
\* around, then the heads are exchanged; a head may be its own neighbour.
SwapHeads(a, b) ==
    LET n1 == [next EXCEPT ![prev[a]] = b]
        p1 == [prev EXCEPT ![next[a]] = b]
        n2 == [n1 EXCEPT ![p1[b]] = a]
        p2 == [p1 EXCEPT ![n1[b]] = a]
    IN  /\ next' = [n2 EXCEPT ![a] = n2[b], ![b] = n2[a]]
        /\ prev' = [p2 EXCEPT ![a] = p2[b], ![b] = p2[a]]

\* Faulty variant: source goes to the beginning of target.
ListSpliceFront(target, source) ==
    /\ ~ListEmpty(source)
    /\ LET n1 == [next EXCEPT ![prev[source]] = next[target]]
           p1 == [prev EXCEPT ![next[target]] = prev[source]]
           n2 == [n1 EXCEPT ![target] = next[source]]
           p2 == [p1 EXCEPT ![next[source]] = target]
       IN  /\ next' = [n2 EXCEPT ![source] = source]
           /\ prev' = [p2 EXCEPT ![source] = source]

\* c_list_splice(): source goes to the end of target.
ListSplice(target, source) ==
    /\ ~ListEmpty(source)
    /\ LET p1 == [prev EXCEPT ![next[source]] = prev[target]]
           n1 == [next EXCEPT ![p1[target]] = next[source]]
           n2 == [n1 EXCEPT ![p1[source]] = target]
           p2 == [p1 EXCEPT ![target] = p1[source]]
       IN  /\ next' = [n2 EXCEPT ![source] = source]
           /\ prev' = [p2 EXCEPT ![source] = source]

\* c_list_split(): from where on, the entries of source go to target.
ListSplit(source, where, target) ==
    IF where = source
    THEN /\ next' = [next EXCEPT ![target] = target]
         /\ prev' = [prev EXCEPT ![target] = target]
    ELSE LET n1 == [next EXCEPT ![target] = where]
             p1 == [prev EXCEPT ![target] = prev[source]]
             n2 == [n1 EXCEPT ![p1[where]] = source]
             p2 == [p1 EXCEPT ![source] = p1[where]]
         IN  /\ prev' = [p2 EXCEPT ![where] = target]
             /\ next' = [n2 EXCEPT ![p2[target]] = target]

\* c_list_flush(): c_list_for_each_safe_unlink() initialises every entry and
\* finally the head, without repairing neighbours.
ListFlush(h) ==
    LET all == {h} \union Range(ForEach(h)) IN
    /\ next' = [e \in Entry |-> IF e \in all THEN e ELSE next[e]]
    /\ prev' = [e \in Entry |-> IF e \in all THEN e ELSE prev[e]]

-----------------------------------------------------------------------------
CLInit == next = [e \in Entry |-> e] /\ prev = [e \in Entry |-> e]

CLNext ==
    \/ \E h \in Heads, e \in Element :
          \E where \in {h} \union Range(ForEach(h)) : LinkBefore(where, e) \/ LinkAfter(where, e)
    \/ \E e \in Element : UnlinkEntry(e)
    \/ SwapHeads(Head1, Head2)
    \/ \E h \in Heads, g \in Heads :
          h # g /\ (ListSplice(h, g)
                    \/ (ListEmpty(g)
                        /\ \E where \in {h} \union Range(ForEach(h)) : ListSplit(h, where, g)))
    \/ \E h \in Heads : ListFlush(h)

-----------------------------------------------------------------------------
Abstract == INSTANCE Lists WITH lists <- [h \in Heads |-> ForEach(h)]

(* Followed backward, every list is the same sequence reversed, and an      *)
(* entry is linked exactly when some list holds it: one store that goes     *)
(* missing shows up only when someone unlinks a neighbour.                  *)
BothWays ==
    /\ \A h \in Heads : LET forth == ForEach(h) IN
         /\ Follow(prev, h, prev[h]) = [i \in DOMAIN forth |-> forth[Len(forth) + 1 - i]]
         /\ ListLength(h) = Cardinality({e \in Element : ListContains(h, e)})
         /\ IF forth = <<>> THEN ListFirst(h) = "none" /\ ListLast(h) = "none"
            ELSE ListFirst(h) = forth[1] /\ ListLast(h) = forth[Len(forth)]
    /\ \A e \in Element : EntryLinked(e) <=> \E h \in Heads : ListContains(h, e)

(* Followed forward, a list is the sequence that Lists says it is after     *)
(* every operation of c-list.h, exchanged and split heads included; and it  *)
(* is the same list both ways.                                              *)
ImplementsLists == Abstract!LISTSpec /\ []BothWays
=============================================================================
