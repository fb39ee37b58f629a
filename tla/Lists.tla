------------------------------- MODULE Lists -------------------------------
(***************************************************************************)
(* Lists that are chosen by an order, for Retrieval and ContextBlocks: the *)
(* sorted() and list comprehensions of the code.  An order is a set of     *)
(* pairs; a list holds no member twice.                                    *)
(***************************************************************************)
EXTENDS Naturals, FiniteSets, SequencesExt

\* The members of a set, each before those it comes before in the order.
InOrder(S, order) ==
    CHOOSE s \in SetToSeqs(S) : \A i, j \in DOMAIN s : i < j => <<s[i], s[j]>> \in order

At(s, x) == CHOOSE i \in DOMAIN s : s[i] = x

OrderOf(s) == {p \in ToSet(s) \X ToSet(s) : At(s, p[1]) < At(s, p[2])}

\* The members of a list that are in S, in their order.
Only(s, S) == InOrder(ToSet(s) \intersect S, OrderOf(s))

\* A stable sort by a key, the greatest first.
BestFirst(s, key) ==
    InOrder(ToSet(s), {p \in ToSet(s) \X ToSet(s) :
        \/ key[p[1]] > key[p[2]]
        \/ key[p[1]] = key[p[2]] /\ p \in OrderOf(s)})

Prefix(s, n) == SubSeq(s, 1, IF Len(s) < n THEN Len(s) ELSE n)
=============================================================================
