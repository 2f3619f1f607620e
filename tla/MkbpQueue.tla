----------------------------- MODULE MkbpQueue -----------------------------
(***************************************************************************)
(* What the MKBP FIFO promises (common/mkbp_fifo.c): a bounded queue of    *)
(* entry types.  Entries leave in the order they came, none is lost,       *)
(* except that clearing the keyboard drops its entries and no others.      *)
(* Mkbp is shown to implement this module with a circular buffer.          *)
(***************************************************************************)
EXTENDS Naturals, Sequences

CONSTANTS Types, KeyMatrix, Depth

VARIABLE queue

Init == queue = <<>>

Put(e) == /\ Len(queue) < Depth
          /\ queue' = Append(queue, e)

Take == queue # <<>> /\ queue' = Tail(queue)

Kept == {k \in 1 .. Len(queue) : queue[k] # KeyMatrix}

\* The entries that stay, in their order.
ClearKeyboard ==
  \E n \in 0 .. Len(queue) : \E from \in [1 .. n -> Kept] :
    /\ \A i, j \in 1 .. n : i < j => from[i] < from[j]
    /\ \A k \in Kept : \E i \in 1 .. n : from[i] = k
    /\ queue' = [i \in 1 .. n |-> queue[from[i]]]

Next == \/ \E e \in Types : Put(e)
        \/ Take
        \/ ClearKeyboard

Spec == Init /\ [][Next]_queue
=============================================================================
