----------------------------- MODULE Sequencing -----------------------------
(***************************************************************************)
(* Sequences as the models use them: filtered, added up, and a finite set  *)
(* put in an order.  What an operator depends on is a value here, a set or *)
(* a sequence, never an operator, so that facts about it can be stated     *)
(* once and cited.                                                         *)
(***************************************************************************)
EXTENDS Integers, FiniteSets, SequencesExt

\* The entries of s that are in S, in their order.
Only(s, S) == FoldLeft(LAMBDA t, e : IF e \in S THEN Append(t, e) ELSE t, <<>>, s)

\* The sum of a sequence of numbers.
SumOf(s) == FoldLeft(LAMBDA sum, n : sum + n, 0, s)

\* The sequences of s, one after the other.
Joined(s) == FoldLeft(LAMBDA all, t : all \o t, <<>>, s)

\* The order of tuples of numbers, as Python compares them.
LexLess(a, b) ==
  \E k \in DOMAIN a : a[k] < b[k] /\ \A j \in 1..(k - 1) : a[j] = b[j]

\* The elements of a finite set from the first to the last, R being the pairs
\* of an earlier and a later one.
InOrderOf(D, R) ==
  [k \in 1..Cardinality(D) |->
     CHOOSE x \in D : Cardinality({y \in D : <<y, x>> \in R}) = k - 1]

\* The entries of s by their keys, equal keys in their old order (sorted()).
SortedOn(s, keys) ==
  LET before == {p \in (DOMAIN s) \X (DOMAIN s) :
                   LexLess(Append(keys[p[1]], p[1]), Append(keys[p[2]], p[2]))}
      order == InOrderOf(DOMAIN s, before)
  IN  [k \in DOMAIN order |-> s[order[k]]]

\* The first entry with the least key (min()).
FirstBy(s, keys) ==
  LET least == {i \in DOMAIN s : \A j \in DOMAIN s : ~LexLess(keys[j], keys[i])}
  IN  s[CHOOSE i \in least : \A j \in least : i <= j]
=============================================================================
