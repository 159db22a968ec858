----------------------------- MODULE IndexOrder -----------------------------
(* Index tensors.  Wherever the caches gather with a set of indices, the    *)
(* tensor has been sorted first (torch.sort(...).values, mask.nonzero()), so *)
(* that gathered columns stay in the order they were stored in.             *)
EXTENDS Integers, Sequences, FiniteSets

\* How many elements of I come before x in the sorted tensor.
Rank(I, x) == Cardinality({y \in I : y < x})

\* The elements of I, ascending.
Ascending(I) == [r \in 1 .. Cardinality(I) |-> CHOOSE x \in I : Rank(I, x) = r - 1]

\* torch.arange(start, start + m)
Arange(start, m) == [i \in 1 .. m |-> start + i - 1]

\* What a stable argsort orders by: of two indices the one with the higher score
\* outlasts the other, of equals the later one.
Outlasts(score, a, b) == score[a] > score[b] \/ (score[a] = score[b] /\ a > b)

\* The n indices in S that outlast the others.
Top(score, S, n) == {i \in S : Cardinality({j \in S : Outlasts(score, j, i)}) < n}
=============================================================================
