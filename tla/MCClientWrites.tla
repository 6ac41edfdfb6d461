--------------------------- MODULE MCClientWrites ---------------------------
(* Instances of the durable writes for TLC.                                *)
EXTENDS ClientWrites

Symmetry == Permutations(Jobs)

(* Another device of the owner moves the older plan on, once.              *)
FirstMove == {<<0, 0>>}
=============================================================================
