-------------------------------- MODULE Lines --------------------------------
(* Sequences without repetition: lines of requests, lists of pages.         *)
EXTENDS Integers, Sequences, Functions, SequencesExt

IndexIn(seq, x) == CHOOSE i \in DOMAIN seq : seq[i] = x

\* The sequence without x, the others in their order.
Without(seq, x) == IF x \in Range(seq) THEN RemoveAt(seq, IndexIn(seq, x)) ELSE seq

\* The elements of the sequence that are in S, in their order.  (SelectSeq, by a
\* function that is not recursive.)
Only(seq, S) ==
  LET places == {i \in DOMAIN seq : seq[i] \in S}
      nth(k) == CHOOSE i \in places : Cardinality({j \in places : j <= i}) = k
  IN  [k \in 1..Cardinality(places) |-> seq[nth(k)]]
=============================================================================
