------------------------------- MODULE MCStock -------------------------------
(* Small instances of Stock for TLC. *)
EXTENDS Stock, TLC

CONSTANTS radios, cables, wires, cpe, cat6, cat6b, i1, i2, ann, mast, w1, w2

\* Two misc vendors have a product of the same name.
ByKind == [p \in Product |-> IF p = cpe THEN radios ELSE IF p = cat6 THEN cables ELSE wires]
Names  == [p \in Product |-> IF p = cpe THEN "cpe" ELSE "cat6"]

\* Bound: two items, two lots, or one of each.  Handlers of items read no lot, and the
\* other way round; an item and a lot are never under the same vendor.
TwoRows ==
  booked + Cardinality({i \in Item : item[i] # Absent \/ \E s \in scrapped : s.item = i}) <= 2

Interchangeable == Permutations(Worker) \cup Permutations(Item)
=============================================================================
