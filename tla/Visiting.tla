------------------------------ MODULE Visiting ------------------------------
(***************************************************************************)
(* A loop over a sequence: `Step` is its body, which makes a new state of  *)
(* the loop of the last one and an item.                                   *)
(***************************************************************************)
EXTENDS Integers, Sequences

CONSTANT Step(_, _)

\* The state after all items.
Visit(t, items) ==
  LET after[n \in 0..Len(items)] ==
        IF n = 0 THEN t ELSE Step(after[n - 1], items[n])
  IN  after[Len(items)]
=============================================================================
