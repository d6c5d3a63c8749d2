---------------------------------- MODULE Lists ----------------------------------
(***************************************************************************)
(* What Array.prototype.filter leaves of a list: the entries at the        *)
(* positions kept, in their order.  It is SelectSeq, in a form that can be *)
(* reasoned about: no recursion, and the positions as a set.               *)
(***************************************************************************)
EXTENDS Integers, Sequences, FiniteSets

\* The place of the position i among those kept, and the position at a place.
Place(keep, i) == Cardinality({j \in keep : j <= i})
At(keep, k) == CHOOSE i \in keep : Place(keep, i) = k
Filtered(seq, keep) == [k \in 1 .. Cardinality(keep) |-> seq[At(keep, k)]]
==================================================================================
