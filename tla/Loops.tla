-------------------------------- MODULE Loops --------------------------------
(***************************************************************************)
(* A loop over a sequence, in order: the kernel's passes over a queue or a *)
(* table.                                                                  *)
(***************************************************************************)
EXTENDS Integers, Functions

Largest(s) == CHOOSE x \in s : \A y \in s : x >= y

\* The value after the body has run on each element of seq, the first one first.
Loop(body(_, _), value, seq) ==
    MapThenFoldSet(LAMBDA x, v : body(v, x), value, LAMBDA i : seq[i], Largest, DOMAIN seq)
=============================================================================
