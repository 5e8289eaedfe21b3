---------------------------- MODULE HeaderRanges ----------------------------
(***************************************************************************)
(* Whether the headers of a rover chain that two successive blocks carry   *)
(* are contiguous (src/validation/chain_validation.go).  A header is a     *)
(* record of its height, its hash and its parent's hash; a block carries a *)
(* sequence of headers of each rover chain, none of them empty.            *)
(***************************************************************************)
EXTENDS Integers, Sequences

Continues(low, high) == high.height - 1 = low.height /\ high.previousHash = low.hash

\* The same height, or one continues the other, whichever is named first.
isSameHeightOrChained(low, high) ==
  low.height = high.height \/ Continues(low, high) \/ Continues(high, low)

\* The heights at the two ends of a range.
Lower(range) == range[1].height
Upper(range) == range[Len(range)].height

isChained(low, high) ==
  \/ isSameHeightOrChained(low[Len(low)], high[1])
  \/ Lower(low) <= Lower(high) /\ Upper(low) <= Upper(high)
  \/ Lower(high) <= Lower(low) /\ Upper(high) <= Upper(low)
  \/ Lower(low) <= Lower(high) /\ Upper(low) >= Upper(high)
  \/ Lower(high) <= Lower(low) /\ Upper(high) >= Upper(low)

IsLinked(range) == \A i \in 1..(Len(range) - 1) : range[i].hash = range[i + 1].previousHash

HeaderRangeIsContiguous(low, high) ==
  IF Len(low) = 1 /\ Len(high) = 1
  THEN isSameHeightOrChained(low[1], high[1])
  ELSE IsLinked(low) /\ IsLinked(high) /\ isChained(low, high)

=============================================================================
