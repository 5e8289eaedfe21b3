----------------------------- MODULE DataRanges -----------------------------
(***************************************************************************)
(* Which blocks a node sends for a GET_DATA request (src/node/node.go, the *)
(* message loop and the goroutine it starts): a request is a low and a     *)
(* high height, and head is the answering node's highest block.  (Heights  *)
(* are far below 2^64; a difference may still be below zero.)              *)
(***************************************************************************)
EXTENDS Integers

\* Blocks that one answer may have beyond its first.
MaxLength == 55

\* The high end is far above the low one: it may have been sent with digits that
\* do not belong to it.
LooksAbnormal(low, high) == high > 10 * low

\* Looking for "16" at the end of a single digit is a slice out of range.
RequestPanics(low, high) == LooksAbnormal(low, high) /\ high < 10

\* "Trimming errant trailing" 16 or 1.
TrimmedHigh(low, high) ==
  CASE LooksAbnormal(low, high) /\ high % 100 = 16 -> high \div 100
    [] LooksAbnormal(low, high) /\ high % 100 # 16 /\ high % 10 = 1 -> high \div 10
    [] OTHER -> high

\* No further than the answering node's chain.
TruncatedHigh(high, head) == IF head < high THEN head ELSE high

\* An unsigned difference below zero is more than any length.
ReducedHigh(low, high) == IF high < low \/ high - low > MaxLength THEN low + MaxLength
                                                                  ELSE high

\* The first and the last height that are sent; none if the first is the higher.
AnsweredRange(low, high, head) ==
  LET asked == TrimmedHigh(low, high) IN
  IF head < low THEN <<asked + 1, asked>>
  ELSE <<low, ReducedHigh(low, TruncatedHigh(asked, head))>>

=============================================================================
