----------------------------- MODULE PanelReads -----------------------------
(***************************************************************************)
(* The analysis panels compute, during a render, from the candles of the   *)
(* selected exchange and symbol (selectCandles) and from a few number      *)
(* inputs.  The numbers themselves are left out here; what is kept is      *)
(* which elements of which arrays a computation and its drawing touch, and *)
(* what it divides by, as functions of the number of candles and of the    *)
(* inputs.  An element that is not there is `undefined`: reading a field   *)
(* of it throws and takes the panel down, computing with it gives NaN.     *)
(*                                                                         *)
(* A panel is a record:                                                    *)
(*   shown    it draws its result, not its "need at least N" placeholder   *)
(*   need     the N of that placeholder                                    *)
(*   reads    spans <<first, last, length>> of elements read, first = last *)
(*            for one element; a span with first > last is an empty loop   *)
(*   divs     lengths, counts and inputs it divides by                     *)
(***************************************************************************)
EXTENDS Integers

Least(x, y) == IF x < y THEN x ELSE y
Most(x, y) == IF x > y THEN x ELSE y

\* Math.max(lo, Math.min(hi, x)), the range check of the number inputs.
Clamp(lo, hi, x) == Most(lo, Least(hi, x))

\* Elements first..last of an array of len elements are read.
Span(first, last, len) == <<first, last, len>>

\* Every element of an array of len elements is read; the last one; the first.
All(len) == <<0, len - 1, len>>
LastOf(len) == <<len - 1, len - 1, len>>
FirstOf(len) == <<0, 0, len>>

SpanInRange(r) == r[1] > r[2] \/ (0 <= r[1] /\ r[2] < r[3])

\* A panel that shows its placeholder computes nothing.
Placeholder(need) == [shown |-> FALSE, need |-> need, reads |-> {}, divs |-> {}]
Drawn(need, reads, divs) == [shown |-> TRUE, need |-> need, reads |-> reads, divs |-> divs]

\* No element that is not there is used, and nothing is divided by zero.
ReadsOK(p) == \A r \in p.reads : SpanInRange(r)
DivsOK(p) == 0 \notin p.divs
=============================================================================
