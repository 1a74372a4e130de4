------------------------------- MODULE Lists -------------------------------
(***************************************************************************)
(* The operations of include/rtservice.h on the doubly linked lists of the *)
(* kernel, as sequences of the nodes they link.  A node is on a list at    *)
(* most once, so a sequence without duplicates stands for a list.  The     *)
(* operators of SequencesExt would do; these few keep the proofs fast.     *)
(***************************************************************************)
EXTENDS Integers, Sequences, FiniteSets, Functions, FiniteSetsExt

\* The list without its i-th node.
Drop(s, i) == SubSeq(s, 1, i - 1) \o SubSeq(s, i + 1, Len(s))

\* rt_list_remove: a node that is on no list links to itself, and removing it
\* leaves every list as it is.
Without(s, t) ==
    IF \E i \in 1 .. Len(s) : s[i] = t
    THEN Drop(s, CHOOSE i \in 1 .. Len(s) : s[i] = t)
    ELSE s

\* rt_list_insert_before the i-th node, or at the end for i = Len(s) + 1.
InsertAt(s, i, t) == SubSeq(s, 1, i - 1) \o <<t>> \o SubSeq(s, i, Len(s))

\* The walk of a sorted insertion: t goes in front of the first node that
\* passes the test, at the end when none does.
InsertBefore(s, Test(_), t) ==
    LET I == {i \in 1 .. Len(s) : Test(s[i])}
    IN  IF I = {} THEN Append(s, t) ELSE InsertAt(s, Min(I), t)
=============================================================================
