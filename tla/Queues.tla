------------------------------- MODULE Queues -------------------------------
(***************************************************************************)
(* The deques of kernel_loop.py and outbound_loop.py as sequences: their   *)
(* elements, and the removal of one command wherever it stands             *)
(* (_remove_queued_seq, _cancel_on_loop).                                  *)
(***************************************************************************)
EXTENDS Integers, Sequences

Elems(q) == {q[i] : i \in 1..Len(q)}

Distinct(q) == \A i, j \in 1..Len(q) : q[i] = q[j] => i = j

\* q holds x at most once.
Once(q, x) == \A i, j \in 1..Len(q) : q[i] = x /\ q[j] = x => i = j

\* In q, every x stands before every y.
Before(q, x, y) == \A i, j \in 1..Len(q) : q[i] = x /\ q[j] = y => i < j

IndexIn(q, c) == CHOOSE i \in 1..Len(q) : q[i] = c

\* q without c, which it holds at most once.
Without(q, c) ==
    IF c \in Elems(q)
    THEN SubSeq(q, 1, IndexIn(q, c) - 1) \o SubSeq(q, IndexIn(q, c) + 1, Len(q))
    ELSE q
=============================================================================
